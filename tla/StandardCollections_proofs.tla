--------------------- MODULE StandardCollections_proofs ---------------------
(***************************************************************************)
(* Theorems about standard collections, for any number of collections,     *)
(* items, users and requests that overlap, with updates that fail.         *)
(*                                                                         *)
(* A save that was checked before a lock does not take it off, because it  *)
(* leaves the column out.  Everything else rests on the fence: from the    *)
(* time a collection is locked, with nobody in flight, until its contract  *)
(* is mined and after, no request passes a check that would let it write   *)
(* to what the contract is made of, and none that passed one before is     *)
(* left (FenceHolds).  So the items keep the order that the client has     *)
(* sent (ChainHolds), the ids given later are the indexes of the contract  *)
(* (IdsAreIndexes), and items with an id stay (NumberedAreSettled).        *)
(***************************************************************************)
EXTENDS StandardReads, FiniteSetTheorems, SequenceTheorems, TLAPS

\* The row of a collection, whoever wrote it and with whatever data.
IsCollectionRow(row) ==
    \E owner, data : \E lock \in {"none", "active", "expired"} :
        row = [owner |-> owner, lock |-> lock, data |-> data]

\* What any statement may find in the table.
CollectionsFit ==
    /\ collections = [c \in Collections |-> collections[c]]
    /\ \A c \in Collections : collections[c] = None \/ IsCollectionRow(collections[c])

\* What a statement may make of the row of a collection.
MayBecome(row, next) ==
    /\ next = None \/ IsCollectionRow(next)
    /\ row # None /\ row.lock = "active" /\ next # None => next.lock # "none"

LEMMA SetLockFits ==
    ASSUME NEW row, IsCollectionRow(row), NEW lock \in {"active", "expired"}
    PROVE  MayBecome(row, [row EXCEPT !.lock = lock])
<1>1. PICK owner, data, old : row = [owner |-> owner, lock |-> old, data |-> data]
  BY DEF IsCollectionRow
<1>2. [row EXCEPT !.lock = lock] = [owner |-> owner, lock |-> lock, data |-> data]
  BY <1>1
<1> QED
  BY <1>2 DEF MayBecome, IsCollectionRow

\* toDBCollection leaves the lock out, so that the row keeps the one it has.
LEMMA KeptLockFits ==
    ASSUME CollectionsFit, NEW c \in Collections, NEW owner, NEW data
    PROVE  MayBecome(collections[c],
                     [owner |-> owner, lock |-> keptLock(c), data |-> data])
<1>1. keptLock(c) \in {"none", "active", "expired"}
  BY DEF keptLock, CollectionsFit, IsCollectionRow
<1>2. collections[c] # None => keptLock(c) = collections[c].lock
  BY DEF keptLock
<1> QED
  BY <1>1, <1>2 DEF MayBecome, IsCollectionRow

\* The statements that write collections, one row each.
LEMMA RowsBecome ==
    ASSUME CollectionsFit, [Next]_vars
    PROVE  /\ collections' = [c \in Collections |-> collections'[c]]
           /\ \A c \in Collections : MayBecome(collections[c], collections'[c])
<1>1. \A c \in Collections : MayBecome(collections[c], collections[c])
  BY DEF CollectionsFit, MayBecome
<1>2. CASE UNCHANGED collections
  BY <1>1, <1>2 DEF CollectionsFit
<1>3. ASSUME NEW c, NEW next,
             collections' = [collections EXCEPT ![c] = next],
             c \in Collections => MayBecome(collections[c], next)
      PROVE  /\ collections' = [d \in Collections |-> collections'[d]]
             /\ \A d \in Collections : MayBecome(collections[d], collections'[d])
  BY <1>1, <1>3 DEF CollectionsFit
<1>4. ASSUME NEW r \in Requests, WriteCollection(r)
      PROVE  \E c, next : /\ collections' = [collections EXCEPT ![c] = next]
                          /\ c \in Collections => MayBecome(collections[c], next)
  <2> DEFINE c == req[r].home
             next == [owner |-> req[r].user, lock |-> keptLock(c), data |-> req[r].data]
  <2>1. collections' = [collections EXCEPT ![c] = next]
    BY <1>4 DEF WriteCollection
  <2>2. c \in Collections => MayBecome(collections[c], next)
    BY KeptLockFits
  <2> QED
    BY <2>1, <2>2
<1>5. ASSUME NEW r \in Requests, Drop(r)
      PROVE  \/ UNCHANGED collections
             \/ \E c : collections' = [collections EXCEPT ![c] = None]
  BY <1>5 DEF Drop
<1>6. ASSUME NEW c, Lock(c) \/ Expire(c)
      PROVE  \E next : /\ collections' = [collections EXCEPT ![c] = next]
                       /\ c \in Collections => MayBecome(collections[c], next)
  <2>1. PICK lock \in {"active", "expired"} :
            collections' = [collections EXCEPT ![c] = [@ EXCEPT !.lock = lock]]
    BY <1>6 DEF Lock, Expire
  <2>2. collections[c] # None
    BY <1>6 DEF Lock, Expire
  <2>3. c \in Collections => MayBecome(collections[c], [collections[c] EXCEPT !.lock = lock])
    BY <2>2, SetLockFits DEF CollectionsFit
  <2> QED
    BY <2>1, <2>3
<1>7. ASSUME NEW r \in Requests, Start(r) PROVE UNCHANGED collections
  BY <1>7 DEF Start, StartSave, StartDrop, StartRemove, StartPut, StartPublish, StartPost,
              start, rows
<1>8. ASSUME NEW r \in Requests, Step(r)
      PROVE  UNCHANGED collections \/ WriteCollection(r) \/ Drop(r)
  BY <1>8 DEF Step, ReadSaved, CheckSaved, CheckDrop, ReadRemoved, CheckRemoved, RemoveItem,
              ReadCollections, CheckPut, WriteItem, FindItems, AskGraph, UpdateItem,
              CreatePost, LinkPost, rows
<1>9. ASSUME NEW c, External(c) PROVE UNCHANGED collections \/ Lock(c) \/ Expire(c)
  BY <1>9 DEF External, SendTransaction, Mine, Index, rows
<1>10. \A row : MayBecome(row, None)
  BY DEF MayBecome
<1>11. CASE \E r \in Requests : Start(r) \/ Step(r)
  BY <1>2, <1>3, <1>4, <1>5, <1>7, <1>8, <1>10, <1>11
<1>12. CASE \E c \in Deployable : External(c)
  BY <1>2, <1>3, <1>6, <1>9, <1>12
<1> QED
  BY <1>2, <1>11, <1>12 DEF Next, vars

\* The table holds rows of collections, whatever requests overlap.
THEOREM CollectionsStayFit == Spec => []CollectionsFit
<1>1. Init => CollectionsFit
  <2>1. \A row \in CollectionRows : IsCollectionRow(row)
    BY DEF CollectionRows, IsCollectionRow
  <2> QED
    BY <2>1, StandardAssumption DEF Init, CollectionsFit
<1>2. CollectionsFit /\ [Next]_vars => CollectionsFit'
  BY RowsBecome DEF CollectionsFit, MayBecome
<1> QED
  BY <1>1, <1>2, PTL DEF Spec

\* A lock that is set ends with its time or with its collection: a save that was
\* checked before it does not lift it (upsertDCLCollection, toDBCollection).
THEOREM LocksAreNotLifted == Spec => LockIsNotLifted
<1>1. ASSUME CollectionsFit, [Next]_vars
      PROVE  [\A c \in Collections :
                collections[c] # None /\ collections[c].lock = "active"
                /\ collections'[c] # None => collections'[c].lock # "none"]_vars
  BY <1>1, RowsBecome DEF MayBecome
<1> QED
  BY <1>1, CollectionsStayFit, PTL DEF Spec, LockIsNotLifted

-----------------------------------------------------------------------------
(* The order of the items of a collection.                                 *)

\* Stamps that tell the members of a set apart.
IsStamping(S, created) ==
    /\ IsFiniteSet(S)
    /\ created \in [S -> Nat]
    /\ \A i, j \in S : created[i] = created[j] => i = j

IsInOrder(S, created, order) ==
    /\ order \in [1..Cardinality(S) -> S]
    /\ \A j, k \in 1..Cardinality(S) : j < k => created[order[j]] < created[order[k]]

upTo(S, created, i) == {j \in S : created[j] <= created[i]}

\* An item is behind the ones that are not younger.
LEMMA RanksAreDistinct ==
    ASSUME NEW S, NEW created, IsStamping(S, created), NEW i \in S, NEW j \in S
    PROVE  /\ Cardinality(upTo(S, created, i)) \in 1..Cardinality(S)
           /\ created[i] < created[j] =>
                  Cardinality(upTo(S, created, i)) < Cardinality(upTo(S, created, j))
<1> DEFINE below(k) == upTo(S, created, k)
<1>1. \A k \in S : /\ IsFiniteSet(below(k))
                   /\ Cardinality(below(k)) \in Nat
                   /\ Cardinality(below(k)) <= Cardinality(S)
  BY FS_Subset, FS_CardinalityType DEF upTo, IsStamping
<1>2. Cardinality(below(i)) # 0
  <2>1. i \in below(i)
    BY DEF upTo, IsStamping
  <2> QED
    BY <1>1, <2>1, FS_EmptySet
<1>3. ASSUME created[i] < created[j]
      PROVE  Cardinality(below(i)) < Cardinality(below(j))
  <2>1. below(i) \in SUBSET below(j)
    BY <1>3 DEF upTo, IsStamping
  <2>2. below(i) # below(j)
    BY <1>3 DEF upTo, IsStamping
  <2> QED
    BY <1>1, <2>1, <2>2, FS_Subset
<1>4. Cardinality(S) \in Nat
  BY FS_CardinalityType DEF IsStamping
<1> QED
  BY <1>1, <1>2, <1>3, <1>4

\* Items that are told apart by created_at can be ordered by it.
LEMMA AnOrderExists ==
    ASSUME NEW S, NEW created, IsStamping(S, created)
    PROVE  \E order : IsInOrder(S, created, order)
<1> DEFINE n == Cardinality(S)
           rank == [i \in S |-> Cardinality(upTo(S, created, i))]
           order == [k \in 1..n |-> CHOOSE i \in S : rank[i] = k]
<1>1. n \in Nat /\ IsFiniteSet(1..n) /\ Cardinality(1..n) = n
  BY FS_CardinalityType, FS_Interval DEF IsStamping
<1>2. rank \in [S -> 1..n]
  BY RanksAreDistinct
<1>3. \A i, j \in S : created[i] < created[j] => rank[i] < rank[j]
  BY RanksAreDistinct
<1>4. \A i, j \in S : rank[i] = rank[j] => i = j
  BY <1>2, <1>3 DEF IsStamping
<1>5. rank \in Injection(S, 1..n)
  BY <1>2, <1>4 DEF Injection, IsInjective
<1>6. rank \in Surjection(S, 1..n)
  BY <1>1, <1>5, FS_Injection
<1>7. \A k \in 1..n : \E i \in S : rank[i] = k
  BY <1>6 DEF Surjection
<1>8. \A k \in 1..n : order[k] \in S /\ rank[order[k]] = k
  BY <1>7
<1>9. order \in [1..n -> S]
  BY <1>8
<1>10. ASSUME NEW j \in 1..n, NEW k \in 1..n, j < k
       PROVE  created[order[j]] < created[order[k]]
  <2> DEFINE a == order[j]
             b == order[k]
  <2>1. a \in S /\ b \in S /\ rank[a] = j /\ rank[b] = k
    BY <1>8
  <2> HIDE DEF a, b, order, rank
  <2>2. created[a] \in Nat /\ created[b] \in Nat /\ (created[a] = created[b] => a = b)
    BY <2>1 DEF IsStamping
  <2>3. ~(created[b] < created[a])
    BY <1>3, <2>1, <1>10
  <2>4. a # b
    BY <2>1, <1>10
  <2>5. created[a] < created[b]
    BY <2>2, <2>3, <2>4
  <2> QED
    BY <2>5 DEF a, b
<1> QED
  BY <1>9, <1>10 DEF IsInOrder

\* ORDER BY created_at returns the rows of a collection, each of them once.
LEMMA InOrderHasAll ==
    ASSUME NEW S, NEW created, IsStamping(S, created)
    PROVE  /\ IsInOrder(S, created, inOrder(S, created))
           /\ \A i \in S : \E k \in 1..Cardinality(S) : inOrder(S, created)[k] = i
<1> DEFINE n == Cardinality(S)
           order == inOrder(S, created)
<1>1. IsInOrder(S, created, order)
  <2>1. PICK o : IsInOrder(S, created, o)
    BY AnOrderExists
  <2>2. o \in [1..n -> S] /\ \A j, k \in DOMAIN o : j < k => created[o[j]] < created[o[k]]
    BY <2>1 DEF IsInOrder
  <2>3. order \in [1..n -> S]
        /\ \A j, k \in DOMAIN order : j < k => created[order[j]] < created[order[k]]
    BY <2>2 DEF inOrder
  <2> QED
    BY <2>3 DEF IsInOrder
<1>2. n \in Nat /\ IsFiniteSet(1..n) /\ Cardinality(1..n) = n
  BY FS_CardinalityType, FS_Interval DEF IsStamping
<1> HIDE DEF order, n
<1>3. order \in [1..n -> S]
  BY <1>1 DEF IsInOrder, n
<1>4. \A j, k \in 1..n : order[j] = order[k] => j = k
  <2> SUFFICES ASSUME NEW j \in 1..n, NEW k \in 1..n, order[j] = order[k], j # k
               PROVE  FALSE
    OBVIOUS
  <2>1. j < k \/ k < j
    BY <1>2
  <2>2. created[order[j]] \in Nat /\ created[order[j]] = created[order[k]]
    BY <1>3 DEF IsStamping
  <2> QED
    BY <2>1, <2>2, <1>1 DEF IsInOrder, n
<1>5. order \in Injection(1..n, S)
  BY <1>3, <1>4 DEF Injection, IsInjective
<1>6. order \in Surjection(1..n, S)
  BY <1>2, <1>5, FS_Injection DEF IsStamping, n
<1>7. \A i \in S : \E k \in 1..n : order[k] = i
  BY <1>6 DEF Surjection
<1> QED
  BY <1>1, <1>7 DEF order, n

-----------------------------------------------------------------------------
(* Columns and locals.                                                     *)

OrNone(S) == S \cup {None}
Handlers == {"save", "drop", "put", "remove", "publish", "post"}
Stages == {"idle", "row", "check", "write", "delete", "rows", "items", "graph", "updates",
           "create", "link"}
Orders == Seq(Items \X BOOLEAN)
Deletes == {"collection", "items"}
Todos == (SUBSET (Items \X Nat)) \cup (SUBSET Deletes)

Locals == [kind : OrNone(Handlers), pc : Stages, user : OrNone(Users), item : OrNone(Items),
           place : OrNone(Collections), rarity : OrNone(Rarities), data : OrNone(Data),
           was : OrNone(ItemRows), home : OrNone(Collections), row : OrNone(CollectionRows),
           dest : OrNone(CollectionRows), link : BOOLEAN, manages : BOOLEAN,
           order : Orders, todo : Todos]

LEMMA LocalsMayBe ==
    /\ \A S : None \in OrNone(S) /\ \A x \in S : x \in OrNone(S)
    /\ Handlers \subseteq OrNone(Handlers)
    /\ FALSE \in BOOLEAN
    /\ <<>> \in Orders
    /\ {} \in Todos
  BY EmptySeq DEF OrNone, Orders, Todos

\* What a handler has by the time it gets where it is.
SaveIsShaped(here) ==
    here.kind = "save" =>
        /\ here.home \in Collections /\ here.user \in Users /\ here.data \in Data
        /\ here.pc \in {"row", "check", "write"}
        /\ here.pc = "check" => here.row # None
DropIsShaped(here) ==
    here.kind = "drop" =>
        /\ here.home \in Collections
        /\ here.pc \in {"check", "delete"}
        /\ here.pc = "check" => here.row # None
        /\ here.pc = "delete" => here.todo \subseteq {"collection", "items"} /\ here.todo # {}
RemoveIsShaped(here) ==
    here.kind = "remove" =>
        /\ here.item \in Items
        /\ here.pc \in {"row", "check", "write"}
        /\ here.pc # "write" => here.home \in Collections
        /\ here.pc = "check" => here.row # None
PutIsShaped(here) ==
    here.kind = "put" =>
        /\ here.user \in Users /\ here.item \in Items
        /\ here.pc \in {"rows", "check", "write"}
        /\ here.pc # "write" =>
              here.home = IF here.was # None /\ here.was.place # None THEN here.was.place
                          ELSE here.place
PublishIsShaped(here) ==
    here.kind = "publish" =>
        /\ here.home \in Collections
        /\ here.pc \in {"items", "graph", "updates"}
        /\ here.pc = "updates" => here.todo \subseteq Items \X Nat
PostIsShaped(here) ==
    here.kind = "post" =>
        /\ here.home \in Collections
        /\ here.pc \in {"create", "link"}
        /\ here.pc = "link" => here.link

IsShaped(here) ==
    /\ SaveIsShaped(here) /\ DropIsShaped(here) /\ RemoveIsShaped(here)
    /\ PutIsShaped(here) /\ PublishIsShaped(here) /\ PostIsShaped(here)

LocalsFit ==
    /\ req \in [Requests -> Locals]
    /\ \A r \in inFlight : IsShaped(req[r])

Typed ==
    /\ collections \in [Collections -> OrNone(CollectionRows)]
    /\ items \in [Items -> OrNone(ItemRows)]
    /\ clock \in Nat
    /\ LocalsFit

LEMMA IdleIsLocals == Idle \in Locals /\ Idle.pc = "idle"
  BY LocalsMayBe DEF Idle, Locals, Stages

\* A step writes the locals of its own request.
LEMMA OwnLocalsFit ==
    ASSUME LocalsFit, NEW r \in Requests, NEW here \in Locals,
           here.pc = "idle" \/ IsShaped(here), req' = [req EXCEPT ![r] = here]
    PROVE  LocalsFit'
<1>1. req' \in [Requests -> Locals]
  BY DEF LocalsFit
<1>2. ASSUME NEW q \in inFlight' PROVE IsShaped(req[q])'
  <2>1. CASE q = r
    <3>1. req'[q] = here /\ here.pc # "idle"
      BY <1>2, <2>1 DEF LocalsFit, inFlight
    <3> QED
      BY <3>1 DEF IsShaped, SaveIsShaped, DropIsShaped, RemoveIsShaped, PutIsShaped,
                  PublishIsShaped, PostIsShaped
  <2>2. CASE q # r
    <3>1. req'[q] = req[q] /\ q \in inFlight
      BY <1>2, <2>2 DEF LocalsFit, inFlight
    <3> QED
      BY <3>1 DEF LocalsFit, IsShaped, SaveIsShaped, DropIsShaped, RemoveIsShaped,
                  PutIsShaped, PublishIsShaped, PostIsShaped
  <2> QED
    BY <2>1, <2>2
<1> QED
  BY <1>1, <1>2 DEF LocalsFit

\* The locals a request may have next.
MayHave(r, here) ==
    /\ here \in Locals
    /\ here.pc = "idle" \/ IsShaped(here)
    /\ req' = [req EXCEPT ![r] = here]

LEMMA AnswerFits == ASSUME NEW r, answer(r) PROVE MayHave(r, Idle)
  BY IdleIsLocals DEF answer, MayHave

LEMMA StartSaveFits ==
    ASSUME Typed, NEW r \in Requests, NEW user \in Users, NEW c \in Collections,
           NEW data \in Data, StartSave(r, user, c, data)
    PROVE  \E here : MayHave(r, here)
<1>1. PICK link \in linksOf(c) :
          req' = [req EXCEPT ![r] = [ask("save", "row") EXCEPT !.user = user, !.home = c,
                                                       !.data = data, !.link = link]]
  BY DEF StartSave, start
<1> DEFINE here == [ask("save", "row") EXCEPT !.user = user, !.home = c, !.data = data,
                                              !.link = link]
<1>2. link \in BOOLEAN
  BY DEF linksOf
<1>3. here \in Locals
  BY <1>2, LocalsMayBe DEF ask, Idle, Locals, Stages, Handlers
<1>4. here.kind = "save" /\ here.pc = "row" /\ here.user = user /\ here.home = c
      /\ here.data = data
  BY LocalsMayBe DEF ask, Idle, Locals, Stages, Handlers
<1>5. IsShaped(here)
  BY <1>4 DEF IsShaped, SaveIsShaped, DropIsShaped, RemoveIsShaped, PutIsShaped,
              PublishIsShaped, PostIsShaped
<1> QED
  BY <1>1, <1>3, <1>5 DEF MayHave

LEMMA StartDropFits ==
    ASSUME Typed, NEW r \in Requests, NEW user \in Users, NEW c \in Collections,
           StartDrop(r, user, c)
    PROVE  \E here : MayHave(r, here)
<1> DEFINE here == [ask("drop", "check") EXCEPT !.home = c, !.row = collections[c]]
<1>1. req' = [req EXCEPT ![r] = here] /\ collections[c] # None
  BY DEF StartDrop, start, isCollectionOwnedOrManagedBy
<1>2. here \in Locals
  BY LocalsMayBe DEF ask, Idle, Locals, Stages, Handlers, Typed
<1>3. here.kind = "drop" /\ here.pc = "check" /\ here.home = c /\ here.row = collections[c]
  BY LocalsMayBe DEF ask, Idle, Locals, Stages, Handlers
<1>4. IsShaped(here)
  BY <1>1, <1>3 DEF IsShaped, SaveIsShaped, DropIsShaped, RemoveIsShaped, PutIsShaped,
                    PublishIsShaped, PostIsShaped
<1> QED
  BY <1>1, <1>2, <1>4 DEF MayHave

LEMMA StartPublishFits ==
    ASSUME Typed, NEW r \in Requests, NEW user \in Users, NEW c \in Collections,
           StartPublish(r, user, c)
    PROVE  \E here : MayHave(r, here)
<1> DEFINE here == [ask("publish", "items") EXCEPT !.home = c, !.data = collections[c].data]
<1>1. req' = [req EXCEPT ![r] = here] /\ collections[c] # None
  BY DEF StartPublish, start, isCollectionOwnedOrManagedBy
<1>2. collections[c].data \in Data
  BY <1>1 DEF Typed, CollectionRows, OrNone
<1>3. here \in Locals
  BY <1>2, LocalsMayBe DEF ask, Idle, Locals, Stages, Handlers
<1>4. here.kind = "publish" /\ here.pc = "items" /\ here.home = c
  BY LocalsMayBe DEF ask, Idle, Locals, Stages, Handlers
<1>5. IsShaped(here)
  BY <1>4 DEF IsShaped, SaveIsShaped, DropIsShaped, RemoveIsShaped, PutIsShaped,
              PublishIsShaped, PostIsShaped
<1> QED
  BY <1>1, <1>3, <1>5 DEF MayHave

LEMMA StartPostFits ==
    ASSUME Typed, NEW r \in Requests, NEW user \in Users, NEW c \in Collections,
           StartPost(r, user, c)
    PROVE  \E here : MayHave(r, here)
<1> DEFINE here == [ask("post", "create") EXCEPT !.home = c]
<1>1. req' = [req EXCEPT ![r] = here]
  BY DEF StartPost, start
<1>2. here \in Locals
  BY LocalsMayBe DEF ask, Idle, Locals, Stages, Handlers
<1>3. here.kind = "post" /\ here.pc = "create" /\ here.home = c
  BY LocalsMayBe DEF ask, Idle, Locals, Stages, Handlers
<1>4. IsShaped(here)
  BY <1>3 DEF IsShaped, SaveIsShaped, DropIsShaped, RemoveIsShaped, PutIsShaped,
              PublishIsShaped, PostIsShaped
<1> QED
  BY <1>1, <1>2, <1>4 DEF MayHave

LEMMA StartRemoveFits ==
    ASSUME Typed, NEW r \in Requests, NEW user \in Users, NEW i \in Items,
           StartRemove(r, user, i)
    PROVE  \E here : MayHave(r, here)
<1> DEFINE pc == IF items[i].place = None THEN "write" ELSE "row"
           here == [ask("remove", pc) EXCEPT !.item = i, !.home = items[i].place]
<1>1. req' = [req EXCEPT ![r] = here] /\ items[i] # None
  BY DEF StartRemove, start
<1>2. items[i].place \in Collections \cup {None}
  BY <1>1 DEF Typed, ItemRows, OrNone
<1>3. here \in Locals
  BY <1>2, LocalsMayBe DEF ask, Idle, Locals, Stages, Handlers
<1>4. here.kind = "remove" /\ here.pc = pc /\ here.home = items[i].place /\ here.item = i
  BY LocalsMayBe DEF ask, Idle, Locals, Stages, Handlers
<1>5. IsShaped(here)
  BY <1>2, <1>4 DEF IsShaped, SaveIsShaped, DropIsShaped, RemoveIsShaped, PutIsShaped,
                    PublishIsShaped, PostIsShaped
<1> QED
  BY <1>1, <1>3, <1>5 DEF MayHave

LEMMA StartPutFits ==
    ASSUME Typed, NEW r \in Requests, NEW user \in Users, NEW i \in Items,
           NEW place \in Collections \cup {None}, NEW rarity \in BodyRarities,
           StartPut(r, user, i, place, rarity)
    PROVE  \E here : MayHave(r, here)
<1> DEFINE home == IF items[i] # None /\ items[i].place # None THEN items[i].place ELSE place
           here == [ask("put", "rows") EXCEPT
                       !.user = user, !.item = i, !.place = place, !.rarity = rarity,
                       !.was = items[i], !.home = home]
<1>1. req' = [req EXCEPT ![r] = here]
  BY DEF StartPut, start
<1>2. items[i] \in OrNone(ItemRows) /\ home \in OrNone(Collections)
  <2>1. items[i] \in OrNone(ItemRows)
    BY DEF Typed
  <2>2. items[i] # None => items[i].place \in Collections \cup {None}
    BY <2>1 DEF ItemRows, OrNone
  <2> QED
    BY <2>1, <2>2 DEF OrNone
<1>3. rarity \in Rarities \cup {None}
  BY StandardAssumption
<1> HIDE DEF home
<1>4. here \in Locals
  BY <1>2, <1>3, LocalsMayBe DEF ask, Idle, Locals, Stages, Handlers
<1>5. here.kind = "put" /\ here.pc = "rows" /\ here.user = user /\ here.item = i
      /\ here.place = place /\ here.was = items[i] /\ here.home = home
  BY LocalsMayBe DEF ask, Idle, Locals, Stages, Handlers
<1>6. IsShaped(here)
  BY <1>5 DEF home, IsShaped, SaveIsShaped, DropIsShaped, RemoveIsShaped, PutIsShaped,
              PublishIsShaped, PostIsShaped
<1> QED
  BY <1>1, <1>4, <1>6 DEF MayHave

LEMMA StartFits ==
    ASSUME Typed, NEW r \in Requests, Start(r)
    PROVE  \E here : MayHave(r, here)
<1>1. \A c : dataFor(c) \subseteq Data
  BY StandardAssumption DEF dataFor
<1> QED
  BY <1>1, StartSaveFits, StartDropFits, StartPublishFits, StartPostFits, StartRemoveFits,
     StartPutFits DEF Start

LEMMA SaveStepFits ==
    ASSUME Typed, NEW r \in Requests, ReadSaved(r) \/ CheckSaved(r)
    PROVE  \E here : MayHave(r, here)
<1>1. req[r] \in Locals /\ IsShaped(req[r]) /\ req[r].kind = "save"
  BY DEF ReadSaved, CheckSaved, at, Typed, LocalsFit, inFlight
<1>2. CASE ReadSaved(r)
  <2> DEFINE row == collections[req[r].home]
             here == [req[r] EXCEPT !.row = row,
                                    !.pc = IF row = None THEN "write" ELSE "check"]
  <2>1. req' = [req EXCEPT ![r] = here]
    BY <1>2 DEF ReadSaved
  <2>2. row \in OrNone(CollectionRows)
    BY <1>1 DEF Typed, IsShaped, SaveIsShaped
  <2> HIDE DEF row
  <2>3. here \in Locals
    BY <1>1, <2>2, LocalsMayBe DEF Locals, Stages
  <2>4. /\ here.kind = "save" /\ here.row = row /\ here.home = req[r].home
        /\ here.pc = IF row = None THEN "write" ELSE "check"
        /\ here.user = req[r].user /\ here.data = req[r].data
    BY <1>1 DEF Locals
  <2>5. IsShaped(here)
    BY <1>1, <2>4 DEF IsShaped, SaveIsShaped, DropIsShaped, RemoveIsShaped, PutIsShaped,
                      PublishIsShaped, PostIsShaped
  <2> QED
    BY <2>1, <2>3, <2>5 DEF MayHave
<1>3. CASE CheckSaved(r)
  <2> DEFINE here == [[req[r] EXCEPT !.row = None] EXCEPT !.pc = "write"]
  <2>1. req' = [req EXCEPT ![r] = here] \/ answer(r)
    BY <1>3 DEF CheckSaved, goOnIf
  <2>2. here \in Locals
    BY <1>1, LocalsMayBe DEF Locals, Stages
  <2>3. /\ here.kind = "save" /\ here.pc = "write" /\ here.home = req[r].home
        /\ here.user = req[r].user /\ here.data = req[r].data
    BY <1>1 DEF Locals
  <2>4. IsShaped(here)
    BY <1>1, <2>3 DEF IsShaped, SaveIsShaped, DropIsShaped, RemoveIsShaped, PutIsShaped,
                      PublishIsShaped, PostIsShaped
  <2> QED
    BY <2>1, <2>2, <2>4, AnswerFits DEF MayHave
<1> QED
  BY <1>2, <1>3

LEMMA DropStepFits ==
    ASSUME Typed, NEW r \in Requests, CheckDrop(r) \/ Drop(r)
    PROVE  \E here : MayHave(r, here)
<1>1. req[r] \in Locals /\ IsShaped(req[r]) /\ req[r].kind = "drop"
  BY DEF CheckDrop, Drop, at, Typed, LocalsFit, inFlight
<1>2. CASE CheckDrop(r)
  <2> DEFINE here == [req[r] EXCEPT !.pc = "delete", !.todo = {"collection", "items"}]
  <2>1. req' = [req EXCEPT ![r] = here] \/ answer(r)
    BY <1>2 DEF CheckDrop
  <2>2. here \in Locals
    <3>1. Deletes \in Todos
      BY DEF Todos
    <3> QED
      BY <1>1, <3>1 DEF Locals, Stages, Deletes
  <2>3. /\ here.kind = "drop" /\ here.pc = "delete" /\ here.home = req[r].home
        /\ here.todo = {"collection", "items"}
    BY <1>1 DEF Locals
  <2>4. IsShaped(here)
    BY <1>1, <2>3 DEF IsShaped, SaveIsShaped, DropIsShaped, RemoveIsShaped, PutIsShaped,
                      PublishIsShaped, PostIsShaped
  <2> QED
    BY <2>1, <2>2, <2>4, AnswerFits DEF MayHave
<1>3. CASE Drop(r)
  <2>1. PICK what \in req[r].todo :
            IF req[r].todo = {what} THEN answer(r)
            ELSE req' = [req EXCEPT ![r].todo = @ \ {what}]
    BY <1>3 DEF Drop
  <2> DEFINE here == [req[r] EXCEPT !.todo = @ \ {what}]
  <2>2. req[r].pc = "delete" /\ req[r].todo \in SUBSET Deletes
    BY <1>1, <1>3 DEF Drop, at, IsShaped, DropIsShaped, Deletes
  <2>3. here \in Locals
    <3>1. req[r].todo \ {what} \in Todos
      BY <2>2 DEF Todos
    <3> QED
      BY <1>1, <3>1 DEF Locals
  <2>4. /\ here.kind = "drop" /\ here.pc = "delete" /\ here.home = req[r].home
        /\ here.todo = req[r].todo \ {what}
    BY <1>1, <2>2 DEF Locals
  <2>5. CASE req[r].todo = {what}
    BY <2>1, <2>5, AnswerFits
  <2>6. CASE req[r].todo # {what}
    <3>1. IsShaped(here)
      BY <1>1, <2>2, <2>4, <2>6 DEF IsShaped, SaveIsShaped, DropIsShaped, RemoveIsShaped,
                                    PutIsShaped, PublishIsShaped, PostIsShaped
    <3> QED
      BY <2>1, <2>3, <2>6, <3>1 DEF MayHave
  <2> QED
    BY <2>5, <2>6
<1> QED
  BY <1>2, <1>3

LEMMA RemoveStepFits ==
    ASSUME Typed, NEW r \in Requests, ReadRemoved(r) \/ CheckRemoved(r)
    PROVE  \E here : MayHave(r, here)
<1>1. req[r] \in Locals /\ IsShaped(req[r]) /\ req[r].kind = "remove"
  BY DEF ReadRemoved, CheckRemoved, at, Typed, LocalsFit, inFlight
<1>2. CASE ReadRemoved(r)
  <2> DEFINE row == collections[req[r].home]
             here == [req[r] EXCEPT !.row = row, !.pc = "check"]
  <2>1. (req' = [req EXCEPT ![r] = here] /\ row # None) \/ answer(r)
    BY <1>2 DEF ReadRemoved
  <2>2. req[r].home \in Collections /\ row \in OrNone(CollectionRows)
    BY <1>1, <1>2 DEF ReadRemoved, at, Typed, IsShaped, RemoveIsShaped
  <2> HIDE DEF row
  <2>3. here \in Locals
    BY <1>1, <2>2, LocalsMayBe DEF Locals, Stages
  <2>4. /\ here.kind = "remove" /\ here.row = row /\ here.home = req[r].home
        /\ here.pc = "check" /\ here.item = req[r].item
    BY <1>1 DEF Locals
  <2>5. row # None => IsShaped(here)
    BY <1>1, <2>2, <2>4 DEF IsShaped, SaveIsShaped, DropIsShaped, RemoveIsShaped,
                            PutIsShaped, PublishIsShaped, PostIsShaped
  <2> QED
    BY <2>1, <2>3, <2>5, AnswerFits DEF MayHave
<1>3. CASE CheckRemoved(r)
  <2> DEFINE here == [[req[r] EXCEPT !.home = None, !.row = None] EXCEPT !.pc = "write"]
  <2>1. req' = [req EXCEPT ![r] = here] \/ answer(r)
    BY <1>3 DEF CheckRemoved, goOnIf
  <2>2. here \in Locals
    BY <1>1, LocalsMayBe DEF Locals, Stages
  <2>3. here.kind = "remove" /\ here.pc = "write" /\ here.item = req[r].item
    BY <1>1 DEF Locals
  <2>4. IsShaped(here)
    BY <1>1, <2>3 DEF IsShaped, SaveIsShaped, DropIsShaped, RemoveIsShaped, PutIsShaped,
                      PublishIsShaped, PostIsShaped
  <2> QED
    BY <2>1, <2>2, <2>4, AnswerFits DEF MayHave
<1> QED
  BY <1>2, <1>3

LEMMA PutStepFits ==
    ASSUME Typed, NEW r \in Requests, ReadCollections(r) \/ CheckPut(r)
    PROVE  \E here : MayHave(r, here)
<1>1. req[r] \in Locals /\ IsShaped(req[r]) /\ req[r].kind = "put"
  BY DEF ReadCollections, CheckPut, at, Typed, LocalsFit, inFlight
<1>2. CASE ReadCollections(r)
  <2> DEFINE rowOf(c) == IF c = None THEN None ELSE collections[c]
  <2>1. PICK row, dest, manages :
            /\ row = rowOf(req[r].home)
            /\ dest = IF hasDest(r) THEN rowOf(req[r].place) ELSE None
            /\ manages = (req[r].home # None /\ isManaged(req[r].home, req[r].user))
    OBVIOUS
  <2> DEFINE here == [req[r] EXCEPT !.pc = "check", !.row = row, !.dest = dest,
                                    !.manages = manages]
  <2>2. req' = [req EXCEPT ![r] = here] \/ answer(r)
    BY <1>2, <2>1 DEF ReadCollections
  <2>3. {row, dest} \subseteq OrNone(CollectionRows)
    <3>1. req[r].home \in OrNone(Collections) /\ req[r].place \in OrNone(Collections)
      BY <1>1 DEF Locals
    <3> QED
      BY <2>1, <3>1, LocalsMayBe DEF Typed, OrNone
  <2>4. manages \in BOOLEAN
    BY <2>1
  <2>5. here \in Locals
    BY <1>1, <2>3, <2>4, LocalsMayBe DEF Locals, Stages
  <2>6. /\ here.kind = "put" /\ here.pc = "check" /\ here.home = req[r].home
        /\ here.user = req[r].user /\ here.item = req[r].item /\ here.was = req[r].was
        /\ here.place = req[r].place
    BY <1>1 DEF Locals
  <2>7. req[r].pc = "rows"
    BY <1>2 DEF ReadCollections, at
  <2>8. IsShaped(here)
    BY <1>1, <2>6, <2>7 DEF IsShaped, SaveIsShaped, DropIsShaped, RemoveIsShaped,
                            PutIsShaped, PublishIsShaped, PostIsShaped
  <2> QED
    BY <2>2, <2>5, <2>8, AnswerFits DEF MayHave
<1>3. CASE CheckPut(r)
  <2> DEFINE here == [[req[r] EXCEPT !.home = None, !.row = None, !.dest = None,
                                     !.manages = FALSE] EXCEPT !.pc = "write"]
  <2>1. req' = [req EXCEPT ![r] = here] \/ answer(r)
    BY <1>3 DEF CheckPut, goOnIf
  <2>2. here \in Locals
    BY <1>1, LocalsMayBe DEF Locals, Stages
  <2>3. here.kind = "put" /\ here.pc = "write" /\ here.item = req[r].item
        /\ here.user = req[r].user
    BY <1>1 DEF Locals
  <2>4. IsShaped(here)
    BY <1>1, <2>3 DEF IsShaped, SaveIsShaped, DropIsShaped, RemoveIsShaped, PutIsShaped,
                      PublishIsShaped, PostIsShaped
  <2> QED
    BY <2>1, <2>2, <2>4, AnswerFits DEF MayHave
<1> QED
  BY <1>2, <1>3

LEMMA PublishStepFits ==
    ASSUME Typed, NEW r \in Requests, AskGraph(r) \/ UpdateItem(r)
    PROVE  \E here : MayHave(r, here)
<1>1. req[r] \in Locals /\ IsShaped(req[r]) /\ req[r].kind = "publish"
  BY DEF AskGraph, UpdateItem, at, Typed, LocalsFit, inFlight
<1>2. CASE AskGraph(r)
  <2> DEFINE todo == updatesOf(req[r].order, tx[req[r].home].items)
             here == [req[r] EXCEPT !.pc = "updates", !.todo = todo, !.order = <<>>,
                                    !.data = None]
  <2>1. req' = [req EXCEPT ![r] = here] \/ answer(r)
    BY <1>2 DEF AskGraph
  <2>2. todo \in SUBSET (Items \X Nat)
    <3>1. req[r].order \in Seq(Items \X BOOLEAN)
      BY <1>1 DEF Locals, Orders
    <3>2. \A k \in 1..Len(req[r].order) :
              req[r].order[k] \in Items \X BOOLEAN /\ k - 1 \in Nat
      BY <3>1, ElementOfSeq, LenProperties
    <3> QED
      BY <3>2 DEF updatesOf
  <2>3. todo \in Todos
    BY <2>2 DEF Todos
  <2> HIDE DEF todo
  <2>4. here \in Locals
    BY <1>1, <2>3, LocalsMayBe DEF Locals, Stages
  <2>5. /\ here.kind = "publish" /\ here.pc = "updates" /\ here.home = req[r].home
        /\ here.todo = todo
    BY <1>1 DEF Locals
  <2>6. IsShaped(here)
    BY <1>1, <2>2, <2>5 DEF IsShaped, SaveIsShaped, DropIsShaped, RemoveIsShaped,
                            PutIsShaped, PublishIsShaped, PostIsShaped
  <2> QED
    BY <2>1, <2>4, <2>6, AnswerFits DEF MayHave
<1>3. CASE UpdateItem(r)
  <2>1. PICK update \in req[r].todo :
            \/ answer(r)
            \/ req' = [req EXCEPT ![r].todo = @ \ {update}]
    BY <1>3 DEF UpdateItem
  <2> DEFINE here == [req[r] EXCEPT !.todo = @ \ {update}]
  <2>2. req[r].pc = "updates" /\ req[r].todo \in SUBSET (Items \X Nat)
    BY <1>1, <1>3 DEF UpdateItem, at, IsShaped, PublishIsShaped
  <2>3. here \in Locals
    <3>1. req[r].todo \ {update} \in Todos
      BY <2>2 DEF Todos
    <3> QED
      BY <1>1, <3>1 DEF Locals
  <2>4. /\ here.kind = "publish" /\ here.pc = "updates" /\ here.home = req[r].home
        /\ here.todo = req[r].todo \ {update}
    BY <1>1, <2>2 DEF Locals
  <2>5. IsShaped(here)
    BY <1>1, <2>2, <2>4 DEF IsShaped, SaveIsShaped, DropIsShaped, RemoveIsShaped,
                            PutIsShaped, PublishIsShaped, PostIsShaped
  <2> QED
    BY <2>1, <2>3, <2>5, AnswerFits DEF MayHave
<1> QED
  BY <1>2, <1>3

LEMMA CreatePostFits ==
    ASSUME Typed, NEW r \in Requests, CreatePost(r)
    PROVE  \E here : MayHave(r, here)
<1>1. req[r] \in Locals /\ IsShaped(req[r]) /\ req[r].kind = "post"
  BY DEF CreatePost, at, Typed, LocalsFit, inFlight
<1> DEFINE here == [req[r] EXCEPT !.pc = "link", !.link = TRUE]
<1>2. req' = [req EXCEPT ![r] = here] \/ answer(r)
  BY DEF CreatePost
<1>3. here \in Locals
  BY <1>1 DEF Locals, Stages
<1>4. here.kind = "post" /\ here.pc = "link" /\ here.home = req[r].home /\ here.link
  BY <1>1 DEF Locals
<1>5. IsShaped(here)
  BY <1>1, <1>4 DEF IsShaped, SaveIsShaped, DropIsShaped, RemoveIsShaped, PutIsShaped,
                    PublishIsShaped, PostIsShaped
<1> QED
  BY <1>2, <1>3, <1>5, AnswerFits DEF MayHave

-----------------------------------------------------------------------------
(* Items are told apart by created_at.                                     *)

\* What an edit has read of an item and will write again is of that item alone.
ReadStampHolds(r) ==
    req[r].kind = "put" /\ req[r].was # None =>
        /\ req[r].was.created <= clock
        /\ \A j \in Items : items[j] # None /\ items[j].created = req[r].was.created =>
              j = req[r].item
        /\ \A q \in inFlight : req[q].kind = "put" /\ req[q].was # None
                               /\ req[q].was.created = req[r].was.created =>
              req[q].item = req[r].item

StampsHold ==
    /\ \A i \in Items : items[i] # None => items[i].created <= clock
    /\ \A i, j \in Items :
          items[i] # None /\ items[j] # None /\ items[i].created = items[j].created => i = j
    /\ \A r \in inFlight : ReadStampHolds(r)

\* The rows of a collection come back ordered, and all of them do.
LEMMA OrderHasItems ==
    ASSUME Typed, StampsHold, NEW c
    PROVE  /\ Cardinality(itemsIn(c)) \in Nat
           /\ findOrderedByCollectionId(c) \in [1..Cardinality(itemsIn(c)) -> itemsIn(c)]
           /\ \A i \in itemsIn(c) : \E k \in 1..Cardinality(itemsIn(c)) :
                 findOrderedByCollectionId(c)[k] = i
           /\ findOrderedByCollectionId(c) \in Seq(Items)
           /\ Len(findOrderedByCollectionId(c)) = Cardinality(itemsIn(c))
<1> DEFINE S == itemsIn(c)
           created == [i \in S |-> items[i].created]
<1>1. IsFiniteSet(S)
  BY StoredAssumption, FS_Subset DEF itemsIn
<1>2. Cardinality(S) \in Nat
  BY <1>1, FS_CardinalityType
<1>3. IsStamping(S, created)
  <2>1. \A i \in S : i \in Items /\ items[i] # None
    BY DEF itemsIn
  <2>2. created \in [S -> Nat]
    BY <2>1 DEF Typed, OrNone, ItemRows
  <2>3. \A i, j \in S : created[i] = created[j] => i = j
    BY <2>1 DEF StampsHold
  <2> QED
    BY <1>1, <2>2, <2>3 DEF IsStamping
<1>4. findOrderedByCollectionId(c) = inOrder(S, created)
  BY DEF findOrderedByCollectionId
<1>5. S \subseteq Items
  BY DEF itemsIn
<1> HIDE DEF S, created
<1>6. /\ inOrder(S, created) \in [1..Cardinality(S) -> S]
      /\ \A i \in S : \E k \in 1..Cardinality(S) : inOrder(S, created)[k] = i
  BY <1>3, InOrderHasAll DEF IsInOrder
<1>7. inOrder(S, created) \in [1..Cardinality(S) -> Items]
  BY <1>5, <1>6
<1>8. inOrder(S, created) \in Seq(Items) /\ Len(inOrder(S, created)) = Cardinality(S)
  BY <1>2, <1>7, LenProperties, IsASeq
<1> QED
  BY <1>2, <1>4, <1>6, <1>8 DEF S

LEMMA FindItemsFits ==
    ASSUME Typed, StampsHold, NEW r \in Requests, FindItems(r)
    PROVE  \E here : MayHave(r, here)
<1>1. req[r] \in Locals /\ IsShaped(req[r]) /\ req[r].kind = "publish"
  BY DEF FindItems, at, Typed, LocalsFit, inFlight
<1> DEFINE order == findOrderedByCollectionId(req[r].home)
           entries == [k \in 1..Len(order) |-> <<order[k], items[order[k]].chainId # None>>]
           here == [req[r] EXCEPT !.pc = "graph", !.order = entries]
<1>2. req' = [req EXCEPT ![r] = here]
  BY DEF FindItems
<1>3. entries \in Orders
  <2>1. order \in Seq(Items)
    BY OrderHasItems
  <2>2. Len(order) \in Nat /\ \A k \in 1..Len(order) : order[k] \in Items
    BY <2>1, LenProperties, ElementOfSeq
  <2> HIDE DEF order
  <2>3. \A k \in 1..Len(order) : (items[order[k]].chainId # None) \in BOOLEAN
    OBVIOUS
  <2>4. entries \in [1..Len(order) -> Items \X BOOLEAN]
    BY <2>2, <2>3
  <2> QED
    BY <2>2, <2>4, IsASeq DEF Orders
<1> HIDE DEF entries
<1>4. here \in Locals
  BY <1>1, <1>3 DEF Locals, Stages
<1>5. here.kind = "publish" /\ here.pc = "graph" /\ here.home = req[r].home
  BY <1>1 DEF Locals
<1>6. IsShaped(here)
  BY <1>1, <1>5 DEF IsShaped, SaveIsShaped, DropIsShaped, RemoveIsShaped, PutIsShaped,
                    PublishIsShaped, PostIsShaped
<1> QED
  BY <1>2, <1>4, <1>6 DEF MayHave

-----------------------------------------------------------------------------
(* Every step keeps the types.                                             *)

LEMMA StepFits ==
    ASSUME Typed, StampsHold, NEW r \in Requests, Step(r)
    PROVE  \E here : MayHave(r, here)
<1>1. CASE WriteCollection(r) \/ RemoveItem(r) \/ WriteItem(r) \/ LinkPost(r)
  <2>1. answer(r)
    BY <1>1 DEF WriteCollection, RemoveItem, WriteItem, LinkPost
  <2> QED
    BY <2>1, AnswerFits
<1> QED
  BY <1>1, SaveStepFits, DropStepFits, RemoveStepFits, PutStepFits, PublishStepFits,
     CreatePostFits, FindItemsFits DEF Step

LEMMA LocalsStayFit ==
    ASSUME Typed, StampsHold, [Next]_vars
    PROVE  LocalsFit'
<1>1. CASE \E r \in Requests : Start(r) \/ Step(r)
  <2>1. PICK r \in Requests : \E here : MayHave(r, here)
    BY <1>1, StartFits, StepFits
  <2> QED
    BY <2>1, OwnLocalsFit DEF MayHave, Typed
<1>2. CASE UNCHANGED req
  BY <1>2 DEF Typed, LocalsFit, inFlight, IsShaped, SaveIsShaped, DropIsShaped,
              RemoveIsShaped, PutIsShaped, PublishIsShaped, PostIsShaped
<1>3. ASSUME NEW c, External(c) PROVE UNCHANGED req
  BY <1>3 DEF External, Lock, SendTransaction, Mine, Index, Expire
<1> QED
  BY <1>1, <1>2, <1>3 DEF Next, vars

\* The tables that a step writes, by the action it is.
LEMMA StartReads ==
    ASSUME NEW r \in Requests, Start(r)
    PROVE  UNCHANGED <<collections, items, clock, tx, topics, links, mishaps>>
  BY DEF Start, StartSave, StartDrop, StartRemove, StartPut, StartPublish, StartPost, start,
         rows, outside

LEMMA CollectionsStayTyped ==
    ASSUME Typed, [Next]_vars
    PROVE  (collections \in [Collections -> OrNone(CollectionRows)])'
<1> USE DEF Typed
<1>1. ASSUME NEW r \in Requests, WriteCollection(r)
      PROVE  (collections \in [Collections -> OrNone(CollectionRows)])'
  <2>1. req[r].home \in Collections /\ req[r].user \in Users /\ req[r].data \in Data
    BY <1>1 DEF WriteCollection, at, LocalsFit, inFlight, IsShaped, SaveIsShaped
  <2>2. keptLock(req[r].home) \in {"none", "active", "expired"}
    BY <2>1 DEF keptLock, OrNone, CollectionRows
  <2>3. [owner |-> req[r].user, lock |-> keptLock(req[r].home), data |-> req[r].data]
        \in OrNone(CollectionRows)
    BY <2>1, <2>2 DEF OrNone, CollectionRows
  <2> QED
    BY <1>1, <2>1, <2>3 DEF WriteCollection
<1>2. ASSUME NEW r \in Requests, Drop(r)
      PROVE  (collections \in [Collections -> OrNone(CollectionRows)])'
  BY <1>2, LocalsMayBe DEF Drop
<1>3. ASSUME NEW c \in Deployable, Lock(c) \/ Expire(c)
      PROVE  (collections \in [Collections -> OrNone(CollectionRows)])'
  <2>1. c \in Collections /\ collections[c] \in CollectionRows
    BY <1>3, StandardAssumption DEF Lock, Expire, OrNone
  <2>2. PICK lock \in {"active", "expired"} :
            collections' = [collections EXCEPT ![c] = [@ EXCEPT !.lock = lock]]
    BY <1>3 DEF Lock, Expire
  <2>3. [collections[c] EXCEPT !.lock = lock] \in OrNone(CollectionRows)
    BY <2>1 DEF CollectionRows, OrNone
  <2> QED
    BY <2>2, <2>3
<1>4. ASSUME NEW r \in Requests, Step(r)
      PROVE  UNCHANGED collections \/ WriteCollection(r) \/ Drop(r)
  BY <1>4 DEF Step, ReadSaved, CheckSaved, CheckDrop, ReadRemoved, CheckRemoved, RemoveItem,
              ReadCollections, CheckPut, WriteItem, FindItems, AskGraph, UpdateItem,
              CreatePost, LinkPost, rows
<1>5. ASSUME NEW c, External(c) PROVE UNCHANGED collections \/ Lock(c) \/ Expire(c)
  BY <1>5 DEF External, SendTransaction, Mine, Index, rows
<1> QED
  BY <1>1, <1>2, <1>3, <1>4, <1>5, StartReads DEF Next, vars

LEMMA ItemWriters ==
    ASSUME NEW r \in Requests, Step(r)
    PROVE  UNCHANGED <<items, clock>> \/ Drop(r) \/ RemoveItem(r) \/ WriteItem(r)
           \/ UpdateItem(r)
  BY DEF Step, ReadSaved, CheckSaved, CheckDrop, ReadRemoved, CheckRemoved, WriteCollection,
         ReadCollections, CheckPut, FindItems, AskGraph, CreatePost, LinkPost, rows

LEMMA OutsideLeavesItems ==
    ASSUME NEW c, External(c)
    PROVE  UNCHANGED <<items, clock, req>>
  BY DEF External, Lock, SendTransaction, Mine, Index, Expire, rows

\* What the write of an item puts in its place.
LEMMA WriteItemWrites ==
    ASSUME Typed, NEW r \in Requests, WriteItem(r)
    PROVE  /\ req[r].item \in Items /\ req[r].kind = "put" /\ r \in inFlight
           /\ \E row \in ItemRows :
                 /\ items' = [items EXCEPT ![req[r].item] = row]
                 /\ row.place = req[r].place
                 /\ req[r].was = None =>
                      row.owner = req[r].user /\ row.chainId = None /\ row.created = clock + 1
                 /\ req[r].was # None =>
                      /\ row.owner = req[r].was.owner /\ row.chainId = req[r].was.chainId
                      /\ row.created = req[r].was.created
                 /\ clock' = IF row.created > clock THEN row.created ELSE clock
<1>1. req[r] \in Locals /\ IsShaped(req[r]) /\ req[r].kind = "put" /\ r \in inFlight
  BY DEF WriteItem, at, Typed, LocalsFit, inFlight
<1> DEFINE row == [owner |-> ownerOf(r), place |-> req[r].place, rarity |-> req[r].rarity,
                   chainId |-> blockchainItemId(r), created |-> createdAt(r)]
<1>2. req[r].item \in Items /\ req[r].user \in Users
  BY <1>1 DEF IsShaped, PutIsShaped
<1>3. /\ req[r].place \in Collections \cup {None} /\ req[r].rarity \in Rarities \cup {None}
      /\ req[r].was # None => req[r].was \in ItemRows
  BY <1>1 DEF Locals, OrNone
<1>4. row \in ItemRows
  <2>1. CASE req[r].was = None
    BY <1>2, <1>3, <2>1 DEF ItemRows, Typed, ownerOf, blockchainItemId, createdAt, isInsert
  <2>2. CASE req[r].was # None
    BY <1>3, <2>2 DEF ItemRows, ownerOf, blockchainItemId, createdAt, isInsert
  <2> QED
    BY <2>1, <2>2
<1>5. /\ items' = [items EXCEPT ![req[r].item] = row]
      /\ clock' = IF row.created > clock THEN row.created ELSE clock
  BY DEF WriteItem
<1>6. /\ row.place = req[r].place
      /\ req[r].was = None =>
            row.owner = req[r].user /\ row.chainId = None /\ row.created = clock + 1
      /\ req[r].was # None =>
            /\ row.owner = req[r].was.owner /\ row.chainId = req[r].was.chainId
            /\ row.created = req[r].was.created
  BY DEF ownerOf, blockchainItemId, createdAt, isInsert
<1> QED
  BY <1>1, <1>2, <1>4, <1>5, <1>6

LEMMA UpdateItemWrites ==
    ASSUME Typed, NEW r \in Requests, UpdateItem(r)
    PROVE  /\ r \in inFlight /\ req[r].kind = "publish" /\ req[r].pc = "updates"
           /\ \/ UNCHANGED items
              \/ \E u \in req[r].todo :
                    /\ u[1] \in Items /\ u[2] \in Nat /\ items[u[1]] # None
                    /\ items' = [items EXCEPT ![u[1]].chainId = u[2]]
                    /\ [items[u[1]] EXCEPT !.chainId = u[2]] \in ItemRows
<1>1. /\ req[r] \in Locals /\ IsShaped(req[r]) /\ req[r].kind = "publish"
      /\ req[r].pc = "updates" /\ r \in inFlight
  BY DEF UpdateItem, at, Typed, LocalsFit, inFlight
<1>2. req[r].todo \subseteq Items \X Nat
  BY <1>1 DEF IsShaped, PublishIsShaped
<1>3. PICK u \in req[r].todo :
          \/ items[u[1]] # None /\ items' = [items EXCEPT ![u[1]].chainId = u[2]]
          \/ UNCHANGED items
  BY DEF UpdateItem
<1>4. u[1] \in Items /\ u[2] \in Nat
  BY <1>2
<1>5. items[u[1]] # None => [items[u[1]] EXCEPT !.chainId = u[2]] \in ItemRows
  <2>1. items[u[1]] # None => items[u[1]] \in ItemRows
    BY <1>4 DEF Typed, OrNone
  <2> QED
    BY <1>4, <2>1 DEF ItemRows
<1> QED
  BY <1>1, <1>3, <1>4, <1>5

LEMMA ItemsStayTyped ==
    ASSUME Typed, [Next]_vars
    PROVE  (items \in [Items -> OrNone(ItemRows)] /\ clock \in Nat)'
<1> USE DEF Typed
<1>1. ASSUME NEW r \in Requests, Drop(r) \/ RemoveItem(r)
      PROVE  (items \in [Items -> OrNone(ItemRows)] /\ clock \in Nat)'
  BY <1>1, LocalsMayBe DEF Drop, RemoveItem
<1>2. ASSUME NEW r \in Requests, WriteItem(r)
      PROVE  (items \in [Items -> OrNone(ItemRows)] /\ clock \in Nat)'
  <2>1. PICK row \in ItemRows :
            /\ items' = [items EXCEPT ![req[r].item] = row]
            /\ clock' = IF row.created > clock THEN row.created ELSE clock
    BY <1>2, WriteItemWrites
  <2>2. row.created \in Nat
    BY DEF ItemRows
  <2> QED
    BY <2>1, <2>2, LocalsMayBe
<1>3. ASSUME NEW r \in Requests, UpdateItem(r)
      PROVE  (items \in [Items -> OrNone(ItemRows)] /\ clock \in Nat)'
  <2>1. UNCHANGED clock
    BY <1>3 DEF UpdateItem
  <2> QED
    BY <1>3, <2>1, UpdateItemWrites, LocalsMayBe
<1> QED
  BY <1>1, <1>2, <1>3, StartReads, ItemWriters, OutsideLeavesItems DEF Next, vars

-----------------------------------------------------------------------------
(* What the locals of a request are after its own step.                    *)

IsStarted(here) ==
    \/ /\ here.kind = "save" /\ here.pc = "row" /\ here.home \in Collections
       /\ collections[here.home] # None => collections[here.home].owner = here.user
    \/ /\ here.kind = "drop" /\ here.pc = "check" /\ here.home \in stored
       /\ here.row = collections[here.home]
    \/ /\ here.kind = "remove" /\ here.item \in Items /\ items[here.item] # None
       /\ here.home = items[here.item].place
       /\ here.pc = IF items[here.item].place = None THEN "write" ELSE "row"
    \/ /\ here.kind = "put" /\ here.pc = "rows" /\ here.item \in Items
       /\ here.was = items[here.item]
    \/ /\ here.kind = "publish" /\ here.pc = "items" /\ here.home \in stored
       /\ here.data = collections[here.home].data
    \/ here.kind = "post" /\ here.pc = "create" /\ here.home \in Collections

LEMMA StartSets ==
    ASSUME Typed, NEW r \in Requests, Start(r)
    PROVE  /\ r \notin inFlight
           /\ \A q \in Requests \ {r} : req'[q] = req[q]
           /\ IsStarted(req'[r])
<1> DEFINE set(here) == req[r].pc = "idle" /\ req' = [req EXCEPT ![r] = here]
<1>1. ASSUME NEW here, set(here), IsStarted(here)
      PROVE  /\ r \notin inFlight
             /\ \A q \in Requests \ {r} : req'[q] = req[q]
             /\ IsStarted(req'[r])
  <2>1. req'[r] = here
    BY <1>1 DEF Typed, LocalsFit
  <2> QED
    BY <1>1, <2>1 DEF inFlight, Typed, LocalsFit
<1>2. PICK user \in Users :
        \/ \E c \in Collections : \E data \in dataFor(c) : StartSave(r, user, c, data)
        \/ \E c \in Collections : StartDrop(r, user, c) \/ StartPublish(r, user, c)
                                  \/ StartPost(r, user, c)
        \/ \E i \in Items : StartRemove(r, user, i)
        \/ \E i \in Items, place \in Collections \cup {None},
              rarity \in BodyRarities : StartPut(r, user, i, place, rarity)
  BY DEF Start
<1>3. ASSUME NEW c \in Collections, NEW data, StartSave(r, user, c, data)
      PROVE  \E here : set(here) /\ IsStarted(here)
  <2>1. PICK link : set([ask("save", "row") EXCEPT !.user = user, !.home = c, !.data = data,
                                                  !.link = link])
    BY <1>3 DEF StartSave, start
  <2> DEFINE here == [ask("save", "row") EXCEPT !.user = user, !.home = c, !.data = data,
                                                !.link = link]
  <2>2. here.kind = "save" /\ here.pc = "row" /\ here.home = c /\ here.user = user
    BY DEF ask, Idle
  <2>3. collections[c] # None => collections[c].owner = user
    BY <1>3 DEF StartSave
  <2> HIDE DEF here
  <2>4. IsStarted(here)
    BY <2>2, <2>3 DEF IsStarted
  <2> QED
    BY <2>1, <2>4 DEF here
<1>4. ASSUME NEW c \in Collections, StartDrop(r, user, c)
      PROVE  \E here : set(here) /\ IsStarted(here)
  <2> DEFINE here == [ask("drop", "check") EXCEPT !.home = c, !.row = collections[c]]
  <2>1. set(here) /\ c \in stored
    BY <1>4 DEF StartDrop, start, isCollectionOwnedOrManagedBy, stored
  <2>2. here.kind = "drop" /\ here.pc = "check" /\ here.home = c /\ here.row = collections[c]
    BY DEF ask, Idle
  <2> HIDE DEF here
  <2> QED
    BY <2>1, <2>2 DEF IsStarted
<1>5. ASSUME NEW c \in Collections, StartPublish(r, user, c)
      PROVE  \E here : set(here) /\ IsStarted(here)
  <2> DEFINE here == [ask("publish", "items") EXCEPT !.home = c,
                                                     !.data = collections[c].data]
  <2>1. set(here) /\ c \in stored
    BY <1>5 DEF StartPublish, start, isCollectionOwnedOrManagedBy, stored
  <2>2. here.kind = "publish" /\ here.pc = "items" /\ here.home = c
        /\ here.data = collections[c].data
    BY DEF ask, Idle
  <2> HIDE DEF here
  <2> QED
    BY <2>1, <2>2 DEF IsStarted
<1>6. ASSUME NEW c \in Collections, StartPost(r, user, c)
      PROVE  \E here : set(here) /\ IsStarted(here)
  <2> DEFINE here == [ask("post", "create") EXCEPT !.home = c]
  <2>1. set(here)
    BY <1>6 DEF StartPost, start
  <2>2. here.kind = "post" /\ here.pc = "create" /\ here.home = c
    BY DEF ask, Idle
  <2> HIDE DEF here
  <2> QED
    BY <2>1, <2>2 DEF IsStarted
<1>7. ASSUME NEW i \in Items, StartRemove(r, user, i)
      PROVE  \E here : set(here) /\ IsStarted(here)
  <2> DEFINE pc == IF items[i].place = None THEN "write" ELSE "row"
             here == [ask("remove", pc) EXCEPT !.item = i, !.home = items[i].place]
  <2>1. set(here) /\ items[i] # None
    BY <1>7 DEF StartRemove, start
  <2>2. here.kind = "remove" /\ here.pc = pc /\ here.item = i /\ here.home = items[i].place
    BY DEF ask, Idle
  <2> HIDE DEF here
  <2>3. IsStarted(here)
    BY <2>1, <2>2 DEF IsStarted
  <2> QED
    BY <2>1, <2>3
<1>8. ASSUME NEW i \in Items, NEW place, NEW rarity, StartPut(r, user, i, place, rarity)
      PROVE  \E here : set(here) /\ IsStarted(here)
  <2> DEFINE home == IF items[i] # None /\ items[i].place # None THEN items[i].place
                     ELSE place
             here == [ask("put", "rows") EXCEPT
                         !.user = user, !.item = i, !.place = place, !.rarity = rarity,
                         !.was = items[i], !.home = home]
  <2>1. set(here)
    BY <1>8 DEF StartPut, start
  <2> HIDE DEF home
  <2>2. here.kind = "put" /\ here.pc = "rows" /\ here.item = i /\ here.was = items[i]
    BY DEF ask, Idle
  <2> HIDE DEF here
  <2> QED
    BY <2>1, <2>2 DEF IsStarted
<1> QED
  BY <1>1, <1>2, <1>3, <1>4, <1>5, <1>6, <1>7, <1>8

\* What a request is about does not change while it is in flight.
LEMMA StepKeeps ==
    ASSUME Typed, NEW r \in Requests, Step(r)
    PROVE  /\ r \in inFlight
           /\ \A q \in Requests \ {r} : req'[q] = req[q]
           /\ req'[r].pc # "idle" =>
                 /\ req'[r].kind = req[r].kind /\ req'[r].item = req[r].item
                 /\ req'[r].was = req[r].was /\ req'[r].place = req[r].place
                 /\ req'[r].user = req[r].user
<1>1. req[r] \in Locals /\ req \in [Requests -> Locals]
  BY DEF Typed, LocalsFit
<1>2. r \in inFlight
  BY DEF Step, ReadSaved, CheckSaved, WriteCollection, CheckDrop, Drop, ReadRemoved,
         CheckRemoved, RemoveItem, ReadCollections, CheckPut, WriteItem, FindItems, AskGraph,
         UpdateItem, CreatePost, LinkPost, at, inFlight
<1>3. answer(r) => req'[r].pc = "idle" /\ \A q \in Requests \ {r} : req'[q] = req[q]
  BY <1>1, IdleIsLocals DEF answer
<1> DEFINE keeps == /\ \A q \in Requests \ {r} : req'[q] = req[q]
                    /\ req'[r].pc # "idle" =>
                          /\ req'[r].kind = req[r].kind /\ req'[r].item = req[r].item
                          /\ req'[r].was = req[r].was /\ req'[r].place = req[r].place
                          /\ req'[r].user = req[r].user
<1>4. CASE answer(r)
  BY <1>2, <1>3, <1>4
<1>5. CASE ReadSaved(r)
  BY <1>1, <1>2, <1>5 DEF ReadSaved, Locals
<1>6. CASE CheckSaved(r)
  BY <1>1, <1>2, <1>3, <1>6 DEF CheckSaved, goOnIf, Locals
<1>7. CASE CheckDrop(r)
  BY <1>1, <1>2, <1>3, <1>7 DEF CheckDrop, Locals
<1>8. CASE Drop(r)
  BY <1>1, <1>2, <1>3, <1>8 DEF Drop, Locals
<1>9. CASE ReadRemoved(r)
  BY <1>1, <1>2, <1>3, <1>9 DEF ReadRemoved, Locals
<1>10. CASE CheckRemoved(r)
  BY <1>1, <1>2, <1>3, <1>10 DEF CheckRemoved, goOnIf, Locals
<1>11. CASE ReadCollections(r)
  <2>1. PICK row, dest, manages :
            \/ req' = [req EXCEPT ![r].pc = "check", ![r].row = row, ![r].dest = dest,
                                  ![r].manages = manages]
            \/ answer(r)
    BY <1>11 DEF ReadCollections
  <2> QED
    BY <1>1, <1>2, <1>3, <2>1 DEF Locals
<1>12. CASE CheckPut(r)
  <2> DEFINE here == [[req[r] EXCEPT !.home = None, !.row = None, !.dest = None,
                                     !.manages = FALSE] EXCEPT !.pc = "write"]
  <2>1. req' = [req EXCEPT ![r] = here] \/ answer(r)
    BY <1>12 DEF CheckPut, goOnIf
  <2>2. /\ here.kind = req[r].kind /\ here.item = req[r].item /\ here.was = req[r].was
        /\ here.place = req[r].place /\ here.user = req[r].user
    BY <1>1 DEF Locals
  <2> QED
    BY <1>1, <1>2, <1>3, <2>1, <2>2
<1>13. CASE FindItems(r)
  <2>1. PICK order : req' = [req EXCEPT ![r].pc = "graph", ![r].order = order]
    BY <1>13 DEF FindItems
  <2> QED
    BY <1>1, <1>2, <2>1 DEF Locals
<1>14. CASE AskGraph(r)
  <2>1. PICK todo : \/ req' = [req EXCEPT ![r].pc = "updates", ![r].todo = todo,
                                          ![r].order = <<>>, ![r].data = None]
                    \/ answer(r)
    BY <1>14 DEF AskGraph
  <2> QED
    BY <1>1, <1>2, <1>3, <2>1 DEF Locals
<1>15. CASE UpdateItem(r)
  <2>1. PICK todo : req' = [req EXCEPT ![r].todo = todo] \/ answer(r)
    BY <1>15 DEF UpdateItem
  <2> QED
    BY <1>1, <1>2, <1>3, <2>1 DEF Locals
<1>16. CASE CreatePost(r)
  BY <1>1, <1>2, <1>3, <1>16 DEF CreatePost, Locals
<1> QED
  BY <1>4, <1>5, <1>6, <1>7, <1>8, <1>9, <1>10, <1>11, <1>12, <1>13, <1>14, <1>15, <1>16
     DEF Step, WriteCollection, RemoveItem, WriteItem, LinkPost

-----------------------------------------------------------------------------
(* Every insert has a stamp of its own, and every edit keeps the one it    *)
(* has read.                                                               *)

\* The rows of the items are left as they are but for their ids and deletions.
LEMMA StampsSurvive ==
    ASSUME Typed, StampsHold, UNCHANGED clock, LocalsFit',
           \A i \in Items : items'[i] # None =>
               items[i] # None /\ items'[i].created = items[i].created,
           \A q \in inFlight' : req'[q].kind = "put" =>
               \/ q \in inFlight /\ req[q].kind = "put" /\ req'[q].was = req[q].was
                  /\ req'[q].item = req[q].item
               \/ req'[q].was = items[req'[q].item]
    PROVE  StampsHold'
<1>1. \A i \in Items : items'[i] # None => items'[i].created <= clock'
  BY DEF StampsHold
<1>2. \A i, j \in Items :
          items'[i] # None /\ items'[j] # None /\ items'[i].created = items'[j].created =>
              i = j
  BY DEF StampsHold
<1>3. ASSUME NEW r \in inFlight', req'[r].kind = "put", req'[r].was # None
      PROVE  /\ req'[r].item \in Items
             /\ req'[r].was.created <= clock
             /\ \A j \in Items : items[j] # None /\ items[j].created = req'[r].was.created =>
                   j = req'[r].item
             /\ \A q \in inFlight : req[q].kind = "put" /\ req[q].was # None
                                    /\ req[q].was.created = req'[r].was.created =>
                   req[q].item = req'[r].item
  <2>1. req'[r].item \in Items
    BY <1>3 DEF LocalsFit, inFlight, IsShaped, PutIsShaped
  <2>2. CASE r \in inFlight /\ req[r].kind = "put" /\ req'[r].was = req[r].was
             /\ req'[r].item = req[r].item
    BY <1>3, <2>1, <2>2 DEF StampsHold, ReadStampHolds
  <2>3. CASE req'[r].was = items[req'[r].item]
    <3>1. \A q \in inFlight : req[q].kind = "put" /\ req[q].was # None
                              /\ req[q].was.created = req'[r].was.created =>
             req[q].item = req'[r].item
      BY <1>3, <2>1, <2>3 DEF StampsHold, ReadStampHolds
    <3> QED
      BY <1>3, <2>1, <2>3, <3>1 DEF StampsHold
  <2> QED
    BY <1>3, <2>2, <2>3
<1>4. ASSUME NEW r \in inFlight', req'[r].kind = "put", req'[r].was # None,
             NEW q \in inFlight', req'[q].kind = "put", req'[q].was # None,
             req'[q].was.created = req'[r].was.created
      PROVE  req'[q].item = req'[r].item
  <2>1. CASE q \in inFlight /\ req[q].kind = "put" /\ req'[q].was = req[q].was
             /\ req'[q].item = req[q].item
    BY <1>3, <1>4, <2>1
  <2>2. CASE req'[q].was = items[req'[q].item]
    <3>1. req'[q].item \in Items
      BY <1>4 DEF LocalsFit, inFlight, IsShaped, PutIsShaped
    <3> QED
      BY <1>3, <1>4, <2>2, <3>1
  <2> QED
    BY <1>4, <2>1, <2>2
<1>5. \A r \in inFlight' : ReadStampHolds(r)'
  BY <1>3, <1>4 DEF ReadStampHolds
<1> QED
  BY <1>1, <1>2, <1>5 DEF StampsHold

LEMMA WriteItemStamps ==
    ASSUME Typed, StampsHold, LocalsFit', NEW r \in Requests, WriteItem(r)
    PROVE  StampsHold'
<1> DEFINE i == req[r].item
<1>1. PICK row \in ItemRows :
          /\ items' = [items EXCEPT ![i] = row]
          /\ req[r].was = None => row.created = clock + 1
          /\ req[r].was # None => row.created = req[r].was.created
          /\ clock' = IF row.created > clock THEN row.created ELSE clock
  BY WriteItemWrites
<1>2. i \in Items /\ req[r].kind = "put" /\ r \in inFlight /\ row.created \in Nat
      /\ clock \in Nat
  BY WriteItemWrites DEF ItemRows, Typed
<1>3. req[r].was # None => row.created <= clock
  BY <1>1, <1>2 DEF StampsHold, ReadStampHolds
<1>4. \A j \in Items : items[j] # None => items[j].created \in Nat /\ items[j].created <= clock
  BY DEF StampsHold, Typed, OrNone, ItemRows
<1>5. clock <= clock' /\ row.created <= clock'
  BY <1>1, <1>2
<1>6. \A j \in Items : j # i => items'[j] = items[j]
  BY <1>1 DEF Typed
<1>7. items'[i] = row
  BY <1>1, <1>2 DEF Typed
<1>8. clock' \in Nat
  BY <1>1, <1>2
<1>9. \A j \in Items : items'[j] # None => items'[j].created <= clock'
  BY <1>4, <1>5, <1>6, <1>7, <1>8, <1>2
<1>10. \A j \in Items : items[j] # None /\ items[j].created = row.created => j = i
  <2>1. CASE req[r].was = None
    BY <1>1, <1>2, <1>4, <2>1
  <2>2. CASE req[r].was # None
    BY <1>1, <1>2, <2>2 DEF StampsHold, ReadStampHolds
  <2> QED
    BY <2>1, <2>2
<1>11. \A j, k \in Items :
           items'[j] # None /\ items'[k] # None /\ items'[j].created = items'[k].created =>
               j = k
  BY <1>6, <1>7, <1>10 DEF StampsHold
<1>12. req'[r].pc = "idle" /\ \A q \in Requests \ {r} : req'[q] = req[q]
  BY IdleIsLocals DEF WriteItem, answer, Typed, LocalsFit
<1>13. \A q \in inFlight' : q \in inFlight /\ req'[q] = req[q] /\ q # r
  BY <1>12 DEF inFlight
<1>14. ASSUME NEW q \in inFlight', req'[q].kind = "put", req'[q].was # None
       PROVE  ReadStampHolds(q)'
  <2>1. q \in inFlight /\ req'[q] = req[q] /\ req[q].was.created \in Nat
    <3>1. req[q] \in Locals
      BY <1>13 DEF Typed, LocalsFit, inFlight
    <3>2. req[q].was \in ItemRows
      BY <1>13, <1>14, <3>1 DEF Locals, OrNone
    <3> QED
      BY <1>13, <3>2 DEF ItemRows
  <2>2. req[q].was.created <= clock'
    BY <1>2, <1>5, <1>8, <1>14, <2>1 DEF StampsHold, ReadStampHolds
  <2>3. row.created = req[q].was.created => i = req[q].item
    <3>1. CASE req[r].was = None
      BY <1>1, <1>2, <1>14, <2>1, <3>1 DEF StampsHold, ReadStampHolds
    <3>2. CASE req[r].was # None
      BY <1>1, <1>2, <1>14, <2>1, <3>2 DEF StampsHold, ReadStampHolds
    <3> QED
      BY <3>1, <3>2
  <2>4. \A j \in Items : items'[j] # None /\ items'[j].created = req[q].was.created =>
            j = req[q].item
    BY <1>6, <1>7, <1>14, <2>1, <2>3 DEF StampsHold, ReadStampHolds
  <2>5. \A p \in inFlight' : req'[p].kind = "put" /\ req'[p].was # None
                             /\ req'[p].was.created = req[q].was.created =>
            req'[p].item = req[q].item
    BY <1>13, <1>14, <2>1 DEF StampsHold, ReadStampHolds
  <2> QED
    BY <2>1, <2>2, <2>4, <2>5 DEF ReadStampHolds
<1>15. \A q \in inFlight' : ReadStampHolds(q)'
  BY <1>14 DEF ReadStampHolds
<1> QED
  BY <1>9, <1>11, <1>15 DEF StampsHold

LEMMA StampsStay ==
    ASSUME Typed, StampsHold, [Next]_vars
    PROVE  StampsHold'
<1>1. LocalsFit'
  BY LocalsStayFit
<1>2. ASSUME NEW r \in Requests, Start(r)
      PROVE  StampsHold'
  <2>1. UNCHANGED <<items, clock>>
    BY <1>2, StartReads
  <2>2. ASSUME NEW q \in inFlight', req'[q].kind = "put"
        PROVE  \/ q \in inFlight /\ req[q].kind = "put" /\ req'[q].was = req[q].was
                  /\ req'[q].item = req[q].item
               \/ req'[q].was = items[req'[q].item]
    <3>1. CASE q = r
      BY <1>2, <2>2, <3>1, StartSets DEF IsStarted
    <3>2. CASE q # r
      BY <1>2, <2>2, <3>2, StartSets DEF inFlight
    <3> QED
      BY <3>1, <3>2
  <2> QED
    BY <1>1, <2>1, <2>2, StampsSurvive
<1>3. ASSUME NEW r \in Requests, Step(r), ~WriteItem(r)
      PROVE  StampsHold'
  <2>1. UNCHANGED clock
    BY <1>3, ItemWriters DEF Drop, RemoveItem, UpdateItem
  <2>2. \A i \in Items : items'[i] # None =>
            items[i] # None /\ items'[i].created = items[i].created
    <3>1. CASE Drop(r) \/ RemoveItem(r)
      BY <3>1 DEF Drop, RemoveItem, Typed
    <3>2. CASE UpdateItem(r)
      <4>1. CASE UNCHANGED items
        BY <4>1
      <4>2. CASE \E u \in req[r].todo :
                    /\ u[1] \in Items /\ u[2] \in Nat /\ items[u[1]] # None
                    /\ items' = [items EXCEPT ![u[1]].chainId = u[2]]
        BY <4>2 DEF Typed, OrNone, ItemRows
      <4> QED
        BY <3>2, <4>1, <4>2, UpdateItemWrites
    <3> QED
      BY <1>3, <3>1, <3>2, ItemWriters
  <2>3. \A q \in inFlight' : req'[q].kind = "put" =>
            q \in inFlight /\ req[q].kind = "put" /\ req'[q].was = req[q].was
            /\ req'[q].item = req[q].item
    BY <1>3, StepKeeps DEF inFlight
  <2> QED
    BY <1>1, <2>1, <2>2, <2>3, StampsSurvive
<1>4. CASE UNCHANGED <<items, clock, req>>
  BY <1>4 DEF StampsHold, ReadStampHolds, inFlight
<1> QED
  BY <1>1, <1>2, <1>3, <1>4, WriteItemStamps, OutsideLeavesItems DEF Next, vars

\* A transaction is one of the transactions, or there is none.
TransactionsTyped == tx \in [Collections -> OrNone(Transactions)]

LEMMA TransactionsStayTyped ==
    ASSUME Typed, StampsHold, TransactionsTyped, [Next]_vars
    PROVE  TransactionsTyped'
<1> USE DEF TransactionsTyped
<1>1. ASSUME NEW c \in Deployable, SendTransaction(c) PROVE TransactionsTyped'
  <2> DEFINE row == [status |-> "pending", data |-> collections[c].data,
                     items |-> findOrderedByCollectionId(c),
                     rarity |-> [i \in Items |-> IF i \in itemsIn(c) THEN items[i].rarity
                                                 ELSE None]]
  <2>1. tx' = [tx EXCEPT ![c] = row]
    BY <1>1 DEF SendTransaction
  <2>2. collections[c].data \in Data
    BY <1>1, StandardAssumption DEF SendTransaction, Typed, OrNone, CollectionRows
  <2>3. findOrderedByCollectionId(c) \in Seq(Items)
    BY OrderHasItems
  <2>4. row.rarity \in [Items -> Rarities \cup {None}]
    BY DEF itemsIn, Typed, OrNone, ItemRows
  <2>5. row \in OrNone(Transactions)
    BY <2>2, <2>3, <2>4 DEF OrNone, Transactions
  <2> HIDE DEF row
  <2> QED
    BY <2>1, <2>5
<1>2. ASSUME NEW c \in Deployable, Mine(c) \/ Index(c) PROVE TransactionsTyped'
  <2>1. PICK status \in {"mined", "indexed"} :
            tx' = [tx EXCEPT ![c] = [@ EXCEPT !.status = status]]
    BY <1>2 DEF Mine, Index
  <2>2. c \in Collections /\ tx[c] \in Transactions
    BY <1>2, StandardAssumption DEF Mine, Index, OrNone
  <2>3. [tx[c] EXCEPT !.status = status] \in OrNone(Transactions)
    BY <2>2 DEF Transactions, OrNone
  <2> QED
    BY <2>1, <2>3
<1>3. ASSUME NEW c, External(c) PROVE UNCHANGED tx \/ SendTransaction(c) \/ Mine(c) \/ Index(c)
  BY <1>3 DEF External, Lock, Expire, outside
<1>4. ASSUME NEW r \in Requests, Step(r) PROVE UNCHANGED tx
  BY <1>4 DEF Step, ReadSaved, CheckSaved, WriteCollection, CheckDrop, Drop, ReadRemoved,
              CheckRemoved, RemoveItem, ReadCollections, CheckPut, WriteItem, FindItems,
              AskGraph, UpdateItem, CreatePost, LinkPost, outside
<1> QED
  BY <1>1, <1>2, <1>3, <1>4, StartReads DEF Next, vars

\* Every column and every local keeps its type, items are told apart by their
\* stamps, and so the order of the items of a collection is one.
TypeInv == Typed /\ StampsHold /\ TransactionsTyped

THEOREM TypesHold == Spec => []TypeInv
<1>1. Init => TypeInv
  <2> SUFFICES ASSUME Init PROVE TypeInv
    OBVIOUS
  <2> DEFINE drafts == {i \in Items : StoredItems[i] # None}
  <2>1. clock = Cardinality(drafts) /\ clock \in Nat
    <3>1. IsFiniteSet(drafts)
      BY StoredAssumption, FS_Subset
    <3> QED
      BY <3>1, FS_CardinalityType DEF Init
  <2>2. inFlight = {}
    BY IdleIsLocals DEF Init, inFlight
  <2>3. LocalsFit
    BY <2>2, IdleIsLocals DEF Init, LocalsFit
  <2>4. Typed
    BY <2>1, <2>3, StandardAssumption, StoredAssumption DEF Init, Typed, OrNone
  <2>5. StampsHold
    BY <2>1, <2>2, StoredAssumption DEF Init, StampsHold
  <2>6. TransactionsTyped
    BY DEF Init, TransactionsTyped, OrNone
  <2> QED
    BY <2>4, <2>5, <2>6 DEF TypeInv
<1>2. TypeInv /\ [Next]_vars => TypeInv'
  BY CollectionsStayTyped, ItemsStayTyped, LocalsStayFit, StampsStay, TransactionsStayTyped
     DEF TypeInv, Typed
<1> QED
  BY <1>1, <1>2, PTL DEF Spec

-----------------------------------------------------------------------------
(* The fence: from the time a collection is locked for its transaction, or *)
(* its contract is there, no request in flight may still change what the   *)
(* contract is made of.                                                    *)

Alone == Cardinality(Requests) = 1

\* The mishaps that the fence stands.
Regular == never({"straddle"}) /\ ("late" \in mishaps => Alone)

Fenced(c) ==
    /\ collections[c] # None
    /\ collections[c].lock = "active" \/ isDeployed(c, collections[c].data)

Settled(c) == collections[c] # None /\ isDeployed(c, collections[c].data)

\* Whoever has read this row is refused.
Refused(c, row) == row # None /\ (row.lock = "active" \/ isDeployed(c, row.data))

SaveHolds(r, c) ==
    req[r].kind = "save" /\ req[r].home = c =>
        /\ req[r].pc # "write"
        /\ req[r].pc = "check" => Refused(c, req[r].row)
DropHolds(r, c) ==
    req[r].kind = "drop" /\ req[r].home = c => req[r].pc = "check" /\ Refused(c, req[r].row)
RemoveHolds(r, c) ==
    req[r].kind = "remove" =>
        /\ req[r].item \in itemsIn(c) => req[r].home = c /\ req[r].pc # "write"
        /\ req[r].home = c /\ req[r].pc = "check" => Refused(c, req[r].row)

wasIn(r, c) == req[r].was # None /\ req[r].was.place = c

PutHolds(r, c) ==
    req[r].kind = "put" =>
        /\ req[r].item \in itemsIn(c) <=> wasIn(r, c)
        /\ wasIn(r, c) => req[r].was.created = items[req[r].item].created
        /\ req[r].pc = "check" =>
              /\ req[r].home = c => Refused(c, req[r].row)
              /\ req[r].place = c /\ hasDest(r) => Refused(c, req[r].dest)
        /\ req[r].pc = "write" => (req[r].place = c <=> wasIn(r, c))
PublishHolds(r, c) ==
    req[r].kind = "publish" /\ req[r].home = c /\ req[r].pc = "graph" =>
        /\ Len(req[r].order) = Len(findOrderedByCollectionId(c))
        /\ \A k \in 1..Len(req[r].order) : req[r].order[k][1] = findOrderedByCollectionId(c)[k]

Holds(r, c) ==
    SaveHolds(r, c) /\ DropHolds(r, c) /\ RemoveHolds(r, c) /\ PutHolds(r, c)
    /\ PublishHolds(r, c)

FenceHolds ==
    Regular => \A r \in inFlight : \A c \in Collections : Fenced(c) => Holds(r, c)

\* As long as no lock is late, what the transaction was made of is fenced.
ChainHolds ==
    never({"straddle", "late"}) =>
        \A c \in Collections :
            tx[c] # None =>
                /\ Fenced(c) /\ collections[c].data = tx[c].data
                /\ tx[c].status = "pending" => collections[c].lock = "active"
                /\ tx[c].items = findOrderedByCollectionId(c)

-----------------------------------------------------------------------------
(* The fence stands while it is there.                                     *)

LEMMA MishapsGrow == ASSUME [Next]_vars PROVE mishaps \subseteq mishaps'
<1>1. ASSUME NEW r \in Requests, Step(r) PROVE mishaps \subseteq mishaps'
  BY <1>1 DEF Step, ReadSaved, CheckSaved, WriteCollection, CheckDrop, Drop, ReadRemoved,
              CheckRemoved, RemoveItem, ReadCollections, CheckPut, WriteItem, FindItems,
              AskGraph, UpdateItem, CreatePost, LinkPost, note
<1>2. ASSUME NEW c, External(c) PROVE mishaps \subseteq mishaps'
  BY <1>2 DEF External, Lock, SendTransaction, Mine, Index, Expire, note
<1> QED
  BY <1>1, <1>2, StartReads DEF Next, vars

LEMMA RegularBefore ==
    ASSUME [Next]_vars
    PROVE  /\ Regular' => Regular
           /\ \A what : (never(what))' => never(what)
  BY MishapsGrow DEF Regular, never, Alone

LEMMA TransactionWriters ==
    ASSUME [Next]_vars
    PROVE  UNCHANGED tx \/ \E c \in Deployable : SendTransaction(c) \/ Mine(c) \/ Index(c)
<1>1. ASSUME NEW c, External(c) PROVE UNCHANGED tx \/ SendTransaction(c) \/ Mine(c) \/ Index(c)
  BY <1>1 DEF External, Lock, Expire, outside
<1>2. ASSUME NEW r \in Requests, Step(r) PROVE UNCHANGED tx
  BY <1>2 DEF Step, ReadSaved, CheckSaved, WriteCollection, CheckDrop, Drop, ReadRemoved,
              CheckRemoved, RemoveItem, ReadCollections, CheckPut, WriteItem, FindItems,
              AskGraph, UpdateItem, CreatePost, LinkPost, outside
<1> QED
  BY <1>1, <1>2, StartReads DEF Next, vars

\* A transaction is sent once, and what is on the chain stays there.
LEMMA ChainKeeps ==
    ASSUME TypeInv, [Next]_vars, NEW c \in Collections, tx[c] # None
    PROVE  /\ tx'[c] # None
           /\ tx'[c].data = tx[c].data /\ tx'[c].items = tx[c].items
           /\ tx[c].status # "pending" => tx'[c].status # "pending"
           /\ tx'[c].status = "pending" => tx[c].status = "pending"
<1>1. tx[c] \in Transactions
  BY DEF TypeInv, TransactionsTyped, OrNone
<1>2. CASE UNCHANGED tx
  BY <1>2
<1>3. ASSUME NEW d \in Deployable, SendTransaction(d) PROVE tx'[c] = tx[c]
  BY <1>3 DEF SendTransaction, TypeInv, TransactionsTyped
<1>4. ASSUME NEW d \in Deployable, NEW status \in {"mined", "indexed"},
             tx' = [tx EXCEPT ![d] = [@ EXCEPT !.status = status]]
      PROVE  /\ tx'[c] # None
             /\ tx'[c].data = tx[c].data /\ tx'[c].items = tx[c].items
             /\ tx[c].status # "pending" => tx'[c].status # "pending"
             /\ tx'[c].status = "pending" => tx[c].status = "pending"
  <2>1. CASE d = c
    <3> DEFINE row == [tx[c] EXCEPT !.status = status]
    <3>1. tx'[c] = row
      BY <1>4, <2>1 DEF TypeInv, TransactionsTyped
    <3>2. row \in Transactions
      BY <1>1 DEF Transactions
    <3>3. row.data = tx[c].data /\ row.items = tx[c].items /\ row.status = status
      BY <1>1 DEF Transactions
    <3> HIDE DEF row
    <3> QED
      BY <1>4, <3>1, <3>2, <3>3, StoredAssumption
  <2>2. CASE d # c
    BY <1>4, <2>2 DEF TypeInv, TransactionsTyped
  <2> QED
    BY <2>1, <2>2
<1>5. ASSUME NEW d \in Deployable, Mine(d) \/ Index(d)
      PROVE  \E status \in {"mined", "indexed"} :
                tx' = [tx EXCEPT ![d] = [@ EXCEPT !.status = status]]
  BY <1>5 DEF Mine, Index
<1> QED
  BY <1>2, <1>3, <1>4, <1>5, TransactionWriters

LEMMA DeployedStays ==
    ASSUME TypeInv, [Next]_vars, NEW c \in Collections, NEW data, isDeployed(c, data)
    PROVE  isDeployed(c, data)'
  BY ChainKeeps DEF isDeployed

\* The statements that write collections, and which of them.
LEMMA CollectionWriters ==
    ASSUME [Next]_vars
    PROVE  \/ UNCHANGED collections
           \/ \E r \in Requests : WriteCollection(r) \/ Drop(r)
           \/ \E c \in Deployable : Lock(c) \/ Expire(c)
<1>1. ASSUME NEW r \in Requests, Step(r)
      PROVE  UNCHANGED collections \/ WriteCollection(r) \/ Drop(r)
  BY <1>1 DEF Step, ReadSaved, CheckSaved, CheckDrop, ReadRemoved, CheckRemoved, RemoveItem,
              ReadCollections, CheckPut, WriteItem, FindItems, AskGraph, UpdateItem,
              CreatePost, LinkPost, rows
<1>2. ASSUME NEW c, External(c) PROVE UNCHANGED collections \/ Lock(c) \/ Expire(c)
  BY <1>2 DEF External, SendTransaction, Mine, Index, rows
<1> QED
  BY <1>1, <1>2, StartReads DEF Next, vars

\* Lock and Expire write the lock alone.
LEMMA SetLockSets ==
    ASSUME Typed, NEW c \in Collections, collections[c] # None,
           NEW lock \in {"active", "expired"},
           collections' = [collections EXCEPT ![c].lock = lock]
    PROVE  /\ collections'[c] # None
           /\ collections'[c].data = collections[c].data
           /\ collections'[c].owner = collections[c].owner
           /\ collections'[c].lock = lock
           /\ \A d \in Collections \ {c} : collections'[d] = collections[d]
<1> DEFINE row == [collections[c] EXCEPT !.lock = lock]
<1>1. collections[c] \in CollectionRows
  BY DEF Typed, OrNone
<1>2. row \in CollectionRows
  BY <1>1 DEF CollectionRows
<1>3. row.data = collections[c].data /\ row.owner = collections[c].owner /\ row.lock = lock
  BY <1>1 DEF CollectionRows
<1>4. collections'[c] = row /\ \A d \in Collections \ {c} : collections'[d] = collections[d]
  BY DEF Typed
<1> HIDE DEF row
<1> QED
  BY <1>2, <1>3, <1>4, StoredAssumption

\* The row of a fenced collection keeps all but its lock.
LEMMA FencedRowStays ==
    ASSUME TypeInv, FenceHolds, Regular, NEW c \in Collections, Fenced(c), [Next]_vars
    PROVE  /\ collections'[c] # None
           /\ collections'[c].data = collections[c].data
           /\ collections'[c].owner = collections[c].owner
           /\ collections'[c].lock = collections[c].lock \/ Lock(c) \/ Expire(c)
<1> USE DEF TypeInv
<1>1. collections[c] # None
  BY DEF Fenced
<1>2. CASE UNCHANGED collections
  BY <1>1, <1>2
<1>3. ASSUME NEW r \in Requests, WriteCollection(r) PROVE collections'[c] = collections[c]
  <2>1. r \in inFlight /\ req[r].kind = "save" /\ req[r].pc = "write"
    BY <1>3 DEF WriteCollection, at, inFlight
  <2>2. req[r].home # c
    BY <2>1 DEF FenceHolds, Holds, SaveHolds
  <2> QED
    BY <1>3, <2>2 DEF WriteCollection, Typed
<1>4. ASSUME NEW r \in Requests, Drop(r) PROVE collections'[c] = collections[c]
  <2>1. r \in inFlight /\ req[r].kind = "drop" /\ req[r].pc = "delete"
    BY <1>4 DEF Drop, at, inFlight
  <2>2. req[r].home # c
    BY <2>1 DEF FenceHolds, Holds, DropHolds
  <2> QED
    BY <1>4, <2>2 DEF Drop, Typed
<1>5. ASSUME NEW d \in Deployable, Lock(d) \/ Expire(d)
      PROVE  /\ collections'[c] # None
             /\ collections'[c].data = collections[c].data
             /\ collections'[c].owner = collections[c].owner
             /\ collections'[c].lock = collections[c].lock \/ Lock(c) \/ Expire(c)
  <2>1. d \in Collections /\ collections[d] # None
    BY <1>5, StandardAssumption DEF Lock, Expire
  <2>2. PICK lock \in {"active", "expired"} :
            collections' = [collections EXCEPT ![d].lock = lock]
    BY <1>5 DEF Lock, Expire
  <2> QED
    BY <1>1, <1>5, <2>1, <2>2, SetLockSets
<1> QED
  BY <1>1, <1>2, <1>3, <1>4, <1>5, CollectionWriters

\* Its items stay, and none is added: only their other columns are written.
LEMMA FencedItemsStay ==
    ASSUME TypeInv, FenceHolds, Regular, NEW c \in Collections, Fenced(c), [Next]_vars
    PROVE  /\ itemsIn(c)' = itemsIn(c)
           /\ \A i \in itemsIn(c) : items'[i].created = items[i].created
           /\ findOrderedByCollectionId(c)' = findOrderedByCollectionId(c)
<1> USE DEF TypeInv
<1> DEFINE stays == /\ itemsIn(c)' = itemsIn(c)
                    /\ \A i \in itemsIn(c) : items'[i].created = items[i].created
<1>1. ASSUME UNCHANGED items PROVE stays
  BY <1>1 DEF itemsIn
<1>2. ASSUME NEW r \in Requests, Drop(r) PROVE stays
  <2>1. r \in inFlight /\ req[r].kind = "drop" /\ req[r].pc = "delete"
    BY <1>2 DEF Drop, at, inFlight
  <2>2. req[r].home # c
    BY <2>1 DEF FenceHolds, Holds, DropHolds
  <2>3. \A i \in Items : items'[i] = items[i] \/ (i \in itemsIn(req[r].home) /\ items'[i] = None)
    BY <1>2 DEF Drop, Typed
  <2>4. \A i \in itemsIn(c) : i \notin itemsIn(req[r].home)
    BY <2>2 DEF itemsIn
  <2> QED
    BY <2>3, <2>4 DEF itemsIn
<1>3. ASSUME NEW r \in Requests, RemoveItem(r) PROVE stays
  <2>1. r \in inFlight /\ req[r].kind = "remove" /\ req[r].pc = "write"
    BY <1>3 DEF RemoveItem, at, inFlight
  <2>2. req[r].item \notin itemsIn(c)
    BY <2>1 DEF FenceHolds, Holds, RemoveHolds
  <2>3. \A i \in Items : items'[i] = items[i] \/ (i = req[r].item /\ items'[i] = None)
    BY <1>3 DEF RemoveItem, Typed
  <2> QED
    BY <2>2, <2>3 DEF itemsIn
<1>4. ASSUME NEW r \in Requests, WriteItem(r) PROVE stays
  <2> DEFINE i == req[r].item
  <2>1. r \in inFlight /\ req[r].kind = "put" /\ req[r].pc = "write" /\ i \in Items
    BY <1>4, WriteItemWrites DEF WriteItem, at, inFlight
  <2>2. PICK row \in ItemRows :
            /\ items' = [items EXCEPT ![i] = row]
            /\ row.place = req[r].place
            /\ req[r].was # None => row.created = req[r].was.created
    BY <1>4, WriteItemWrites
  <2>3. /\ i \in itemsIn(c) <=> wasIn(r, c)
        /\ wasIn(r, c) => req[r].was.created = items[i].created
        /\ req[r].place = c <=> wasIn(r, c)
    BY <2>1 DEF FenceHolds, Holds, PutHolds
  <2>4. items'[i] = row /\ \A j \in Items \ {i} : items'[j] = items[j]
    BY <2>1, <2>2 DEF Typed
  <2>5. row # None
    BY StoredAssumption
  <2>6. i \in itemsIn(c)' <=> i \in itemsIn(c)
    BY <2>1, <2>2, <2>3, <2>4, <2>5 DEF itemsIn
  <2>7. i \in itemsIn(c) => items'[i].created = items[i].created
    BY <2>2, <2>3, <2>4 DEF wasIn
  <2> QED
    BY <2>4, <2>6, <2>7 DEF itemsIn
<1>5. ASSUME NEW r \in Requests, UpdateItem(r) PROVE stays
  <2>1. CASE UNCHANGED items
    BY <1>1, <2>1
  <2>2. ASSUME NEW u \in req[r].todo, u[1] \in Items, items[u[1]] # None,
               items' = [items EXCEPT ![u[1]].chainId = u[2]],
               [items[u[1]] EXCEPT !.chainId = u[2]] \in ItemRows
        PROVE  stays
    <3> DEFINE i == u[1]
               row == [items[i] EXCEPT !.chainId = u[2]]
    <3>1. items'[i] = row /\ \A j \in Items \ {i} : items'[j] = items[j]
      BY <2>2 DEF Typed
    <3>2. items[i] \in ItemRows
      BY <2>2 DEF Typed, OrNone
    <3>3. row.place = items[i].place /\ row.created = items[i].created
      BY <3>2 DEF ItemRows
    <3>4. row # None
      BY <2>2, StoredAssumption
    <3> HIDE DEF row, i
    <3> QED
      BY <2>2, <3>1, <3>3, <3>4 DEF itemsIn, i
  <2> QED
    BY <1>5, <2>1, <2>2, UpdateItemWrites
<1>6. stays
  BY <1>1, <1>2, <1>3, <1>4, <1>5, StartReads, ItemWriters, OutsideLeavesItems
     DEF Next, vars
<1>7. [i \in itemsIn(c)' |-> items'[i].created] = [i \in itemsIn(c) |-> items[i].created]
  BY <1>6
<1>8. findOrderedByCollectionId(c)' = findOrderedByCollectionId(c)
  BY <1>6, <1>7 DEF findOrderedByCollectionId
<1> QED
  BY <1>6, <1>8

\* Only Mine deploys.
LEMMA MineDeploys ==
    ASSUME TypeInv, [Next]_vars, NEW c \in Collections, NEW data, isDeployed(c, data)',
           ~isDeployed(c, data)
    PROVE  Mine(c) /\ UNCHANGED <<collections, req>> /\ c \in Deployable
<1> USE DEF TypeInv, TransactionsTyped
<1>1. tx'[c] # tx[c]
  BY DEF isDeployed
<1>2. PICK d \in Deployable : SendTransaction(d) \/ Mine(d) \/ Index(d)
  BY <1>1, TransactionWriters
<1>3. d = c
  BY <1>1, <1>2 DEF SendTransaction, Mine, Index
<1>4. ~SendTransaction(c)
  <2> SUFFICES ASSUME SendTransaction(c) PROVE FALSE
    OBVIOUS
  <2>1. tx'[c].status = "pending"
    BY DEF SendTransaction
  <2> QED
    BY <2>1 DEF isDeployed
<1>5. ~Index(c)
  <2> SUFFICES ASSUME Index(c) PROVE FALSE
    OBVIOUS
  <2>1. tx[c] # None /\ tx[c].status = "mined"
    BY DEF Index
  <2>2. tx'[c].data = tx[c].data
    BY <2>1, ChainKeeps
  <2> QED
    BY <2>1, <2>2 DEF isDeployed
<1> QED
  BY <1>2, <1>3, <1>4, <1>5 DEF Mine, rows

\* No request is in flight when a fence goes up: the mishaps tell the cases in
\* which one might be.
LEMMA FenceStarts ==
    ASSUME TypeInv, ChainHolds, Regular', [Next]_vars, NEW c \in Collections, Fenced(c)',
           ~Fenced(c)
    PROVE  inFlight' = {}
<1> USE DEF TypeInv
<1>1. collections'[c] # None
  BY DEF Fenced
<1>2. CASE collections'[c] = collections[c]
  <2>1. PICK data : data = collections[c].data
    OBVIOUS
  <2>2. isDeployed(c, data)' /\ ~isDeployed(c, data)
    BY <1>1, <1>2, <2>1 DEF Fenced, isDeployed
  <2>3. Mine(c) /\ UNCHANGED <<collections, req>>
    BY <2>2, MineDeploys
  <2>4. isUnguarded(c)
    BY <1>1, <1>2 DEF Fenced, isUnguarded, isUnlocked
  <2>5. inFlight = {}
    BY <2>3, <2>4 DEF Mine, note, Regular, never
  <2> QED
    BY <2>3, <2>5 DEF inFlight
<1>3. CASE collections'[c] # collections[c]
  <2>1. ASSUME NEW r \in Requests, Drop(r) PROVE FALSE
    BY <1>1, <1>3, <2>1 DEF Drop, Typed
  <2>2. ASSUME NEW d \in Deployable, Lock(d) PROVE inFlight' = {}
    BY <2>2 DEF Lock, note, Regular, never, inFlight
  <2>3. ASSUME NEW d \in Deployable, Expire(d) PROVE FALSE
    <3>1. d = c /\ collections[c] # None
      BY <1>3, <2>3 DEF Expire, Typed
    <3> QED
      BY <2>3, <3>1 DEF Expire, Fenced
  <2>4. ASSUME NEW r \in Requests, WriteCollection(r) PROVE inFlight' = {}
    <3>1. req[r].home = c /\ UNCHANGED tx
      BY <1>3, <2>4 DEF WriteCollection, Typed
    <3>2. collections'[c].lock = keptLock(c)
      BY <2>4, <3>1 DEF WriteCollection, Typed
    <3>3. collections'[c].lock # "active"
      BY <3>2 DEF keptLock, Fenced
    <3>4. tx[c] # None
      BY <3>1, <3>3 DEF Fenced, isDeployed
    <3>5. "late" \in mishaps'
      <4> SUFFICES ASSUME "late" \notin mishaps' PROVE FALSE
        OBVIOUS
      <4>1. never({"straddle", "late"})
        BY RegularBefore, MishapsGrow DEF Regular, never
      <4> QED
        BY <3>4, <4>1 DEF ChainHolds
    <3>6. Requests = {r}
      <4>1. Cardinality(Requests) = 1
        BY <3>5 DEF Regular, Alone
      <4> QED
        BY <4>1, FS_Singleton, StoredAssumption
    <3>7. req'[r].pc = "idle"
      BY <2>4, IdleIsLocals DEF WriteCollection, answer, Typed, LocalsFit
    <3> QED
      BY <3>6, <3>7 DEF inFlight
  <2> QED
    BY <1>3, <2>1, <2>2, <2>3, <2>4, CollectionWriters
<1> QED
  BY <1>2, <1>3

LEMMA RefusedStays ==
    ASSUME TypeInv, [Next]_vars, NEW c \in Collections, NEW row, Refused(c, row)
    PROVE  Refused(c, row)'
<1>1. CASE row.lock = "active"
  BY <1>1 DEF Refused
<1>2. CASE isDeployed(c, row.data)
  <2>1. PICK data : data = row.data
    OBVIOUS
  <2>2. isDeployed(c, data)'
    BY <1>2, <2>1, DeployedStays
  <2> QED
    BY <2>1, <2>2 DEF Refused
<1> QED
  BY <1>1, <1>2 DEF Refused

LEMMA FencedRowIsRefused ==
    ASSUME NEW c, Fenced(c)
    PROVE  Refused(c, collections[c])
  BY DEF Fenced, Refused

LEMMA RefusedIsNotDeleted ==
    ASSUME NEW c, NEW row, Refused(c, row)
    PROVE  ~mayDelete(c, row)
  BY DEF Refused, mayDelete, isDCLPublished, isUnlocked

\* A request that waits is not let through by the steps of others.
LEMMA WaitingHolds ==
    ASSUME TypeInv, FenceHolds, Regular, NEW c \in Collections, Fenced(c), [Next]_vars,
           NEW r \in inFlight, req'[r] = req[r]
    PROVE  Holds(r, c)'
<1>1. Holds(r, c)
  BY DEF FenceHolds
<1>2. /\ itemsIn(c)' = itemsIn(c)
      /\ \A i \in itemsIn(c) : items'[i].created = items[i].created
      /\ findOrderedByCollectionId(c)' = findOrderedByCollectionId(c)
  BY FencedItemsStay
<1>3. \A row : Refused(c, row) => Refused(c, row)'
  BY RefusedStays
<1>4. SaveHolds(r, c)'
  BY <1>1, <1>3 DEF Holds, SaveHolds
<1>5. DropHolds(r, c)'
  BY <1>1, <1>3 DEF Holds, DropHolds
<1>6. RemoveHolds(r, c)'
  BY <1>1, <1>2, <1>3 DEF Holds, RemoveHolds
<1>7. PutHolds(r, c)'
  <2>1. (hasDest(r))' <=> hasDest(r)
    BY DEF hasDest, isMovingItemBetweenCollections, isMovingOrphanItemIntoACollection,
           isOrphan, isInsert
  <2>2. wasIn(r, c)' <=> wasIn(r, c)
    BY DEF wasIn
  <2> QED
    BY <1>1, <1>2, <1>3, <2>1, <2>2 DEF Holds, PutHolds
<1>8. PublishHolds(r, c)'
  BY <1>1, <1>2 DEF Holds, PublishHolds
<1> QED
  BY <1>4, <1>5, <1>6, <1>7, <1>8 DEF Holds

LEMMA StartedHolds ==
    ASSUME TypeInv, NEW c \in Collections, Fenced(c), NEW r \in Requests, Start(r)
    PROVE  Holds(r, c)'
<1>1. UNCHANGED <<collections, items, tx>>
  BY StartReads
<1>2. IsStarted(req'[r])
  BY StartSets DEF TypeInv
<1>3. Refused(c, collections[c])'
  <2>1. Refused(c, collections[c])
    BY FencedRowIsRefused
  <2> QED
    BY <1>1, <2>1 DEF Refused, isDeployed
<1>4. SaveHolds(r, c)'
  BY <1>2 DEF SaveHolds, IsStarted
<1>5. DropHolds(r, c)'
  BY <1>1, <1>2, <1>3 DEF DropHolds, IsStarted, stored
<1>6. RemoveHolds(r, c)'
  <2>1. c # None
    BY StandardAssumption
  <2> QED
    BY <1>1, <1>2, <2>1 DEF RemoveHolds, IsStarted, itemsIn
<1>7. PutHolds(r, c)'
  BY <1>1, <1>2 DEF PutHolds, IsStarted, itemsIn, wasIn
<1>8. PublishHolds(r, c)'
  BY <1>2 DEF PublishHolds, IsStarted
<1> QED
  BY <1>4, <1>5, <1>6, <1>7, <1>8 DEF Holds

LEMMA SaveStepHolds ==
    ASSUME TypeInv, NEW c \in Collections, Fenced(c), NEW r \in Requests, Holds(r, c),
           ReadSaved(r) \/ CheckSaved(r), r \in inFlight'
    PROVE  Holds(r, c)'
<1>1. req[r] \in Locals /\ req \in [Requests -> Locals] /\ req[r].kind = "save"
  BY DEF TypeInv, Typed, LocalsFit, ReadSaved, CheckSaved, at
<1>2. UNCHANGED <<collections, items, tx>>
  BY DEF ReadSaved, CheckSaved, rows, outside
<1>3. CASE ReadSaved(r)
  <2>0. PICK row : row = collections[req[r].home]
    OBVIOUS
  <2>1. /\ req'[r].kind = "save" /\ req'[r].home = req[r].home
        /\ req'[r].pc = IF row = None THEN "write" ELSE "check"
        /\ req'[r].row = row
    BY <1>1, <1>3, <2>0 DEF ReadSaved, Locals
  <2>2. req[r].home = c => row # None /\ Refused(c, row)
    BY <2>0, FencedRowIsRefused DEF Fenced
  <2>3. req[r].home = c => Refused(c, row)'
    BY <1>2, <2>2 DEF Refused, isDeployed
  <2>4. SaveHolds(r, c)'
    BY <1>2, <2>1, <2>2, <2>3 DEF SaveHolds, Refused, isDeployed
  <2> QED
    BY <2>1, <2>4 DEF Holds, DropHolds, RemoveHolds, PutHolds, PublishHolds
<1>4. CASE CheckSaved(r)
  <2>1. req'[r].kind = "save" /\ req'[r].home = req[r].home /\ req'[r].pc = "write"
        /\ (~isDCLPublished(req[r].home, req[r].row.data) /\ isUnlocked(req[r].row))
    <3>1. ~answer(r)
      BY <1>1, IdleIsLocals DEF answer, inFlight
    <3> QED
      BY <1>1, <1>4, <3>1 DEF CheckSaved, goOnIf, Locals
  <2>2. req[r].home # c
    BY <1>1, <1>4, <2>1 DEF CheckSaved, at, Holds, SaveHolds, Refused, isDCLPublished,
                            isUnlocked
  <2> QED
    BY <2>1, <2>2 DEF Holds, SaveHolds, DropHolds, RemoveHolds, PutHolds, PublishHolds
<1> QED
  BY <1>3, <1>4

LEMMA DropStepHolds ==
    ASSUME TypeInv, NEW c \in Collections, Fenced(c), NEW r \in Requests, Holds(r, c),
           CheckDrop(r) \/ Drop(r), r \in inFlight'
    PROVE  Holds(r, c)'
<1>1. req[r] \in Locals /\ req \in [Requests -> Locals] /\ req[r].kind = "drop"
  BY DEF TypeInv, Typed, LocalsFit, CheckDrop, Drop, at
<1>2. ~answer(r)
  BY <1>1, IdleIsLocals DEF answer, inFlight
<1>3. req[r].home # c
  <2>1. CASE CheckDrop(r)
    BY <1>1, <1>2, <2>1, RefusedIsNotDeleted DEF CheckDrop, Holds, DropHolds
  <2>2. CASE Drop(r)
    BY <1>1, <2>2 DEF Drop, at, Holds, DropHolds
  <2> QED
    BY <2>1, <2>2
<1>4. req'[r].kind = "drop" /\ req'[r].home = req[r].home
  <2>1. CASE CheckDrop(r)
    BY <1>1, <1>2, <2>1 DEF CheckDrop, Locals
  <2>2. CASE Drop(r)
    BY <1>1, <1>2, <2>2 DEF Drop, Locals
  <2> QED
    BY <2>1, <2>2
<1> QED
  BY <1>3, <1>4 DEF Holds, SaveHolds, DropHolds, RemoveHolds, PutHolds, PublishHolds

LEMMA RemoveStepHolds ==
    ASSUME TypeInv, NEW c \in Collections, Fenced(c), NEW r \in Requests, Holds(r, c),
           ReadRemoved(r) \/ CheckRemoved(r), r \in inFlight'
    PROVE  Holds(r, c)'
<1>1. req[r] \in Locals /\ req \in [Requests -> Locals] /\ req[r].kind = "remove"
  BY DEF TypeInv, Typed, LocalsFit, ReadRemoved, CheckRemoved, at
<1>2. UNCHANGED <<collections, items, tx>>
  BY DEF ReadRemoved, CheckRemoved, rows, outside
<1>3. ~answer(r)
  BY <1>1, IdleIsLocals DEF answer, inFlight
<1>4. CASE ReadRemoved(r)
  <2>1. /\ req'[r].kind = "remove" /\ req'[r].home = req[r].home /\ req'[r].pc = "check"
        /\ req'[r].row = collections[req[r].home] /\ req'[r].item = req[r].item
    BY <1>1, <1>3, <1>4 DEF ReadRemoved, Locals
  <2>2. Refused(c, collections[c])
    BY FencedRowIsRefused
  <2>3. RemoveHolds(r, c)'
    BY <1>1, <1>2, <2>1, <2>2 DEF Holds, RemoveHolds, Refused, isDeployed, itemsIn
  <2> QED
    BY <2>1, <2>3 DEF Holds, SaveHolds, DropHolds, PutHolds, PublishHolds
<1>5. CASE CheckRemoved(r)
  <2>1. req'[r].kind = "remove" /\ req'[r].pc = "write" /\ req'[r].item = req[r].item
        /\ mayDelete(req[r].home, req[r].row)
    BY <1>1, <1>3, <1>5 DEF CheckRemoved, goOnIf, Locals
  <2>2. req[r].item \notin itemsIn(c)
    BY <1>1, <1>5, <2>1, RefusedIsNotDeleted DEF CheckRemoved, at, Holds, RemoveHolds
  <2>3. RemoveHolds(r, c)'
    BY <1>2, <2>1, <2>2 DEF RemoveHolds, itemsIn
  <2> QED
    BY <2>1, <2>3 DEF Holds, SaveHolds, DropHolds, PutHolds, PublishHolds
<1> QED
  BY <1>4, <1>5

LEMMA PutStepHolds ==
    ASSUME TypeInv, NEW c \in Collections, Fenced(c), NEW r \in Requests, Holds(r, c),
           ReadCollections(r) \/ CheckPut(r), r \in inFlight'
    PROVE  Holds(r, c)'
<1>1. /\ req[r] \in Locals /\ req \in [Requests -> Locals] /\ req[r].kind = "put"
      /\ IsShaped(req[r])
  BY DEF TypeInv, Typed, LocalsFit, ReadCollections, CheckPut, at, inFlight
<1>2. UNCHANGED <<collections, items, tx>>
  BY DEF ReadCollections, CheckPut, rows, outside
<1>3. ~answer(r)
  BY <1>1, IdleIsLocals DEF answer, inFlight
<1>4. c # None
  BY StandardAssumption
<1>5. CASE ReadCollections(r)
  <2> DEFINE rowOf(d) == IF d = None THEN None ELSE collections[d]
  <2>1. PICK row, dest, manages :
            /\ row = rowOf(req[r].home)
            /\ dest = IF hasDest(r) THEN rowOf(req[r].place) ELSE None
            /\ req' = [req EXCEPT ![r].pc = "check", ![r].row = row, ![r].dest = dest,
                                  ![r].manages = manages]
    BY <1>3, <1>5 DEF ReadCollections
  <2>2. /\ req'[r].kind = "put" /\ req'[r].home = req[r].home /\ req'[r].pc = "check"
        /\ req'[r].row = row /\ req'[r].item = req[r].item /\ req'[r].dest = dest
        /\ req'[r].was = req[r].was /\ req'[r].place = req[r].place
    BY <1>1, <2>1 DEF Locals
  <2>3. Refused(c, collections[c])
    BY FencedRowIsRefused
  <2>4. req[r].home = c => Refused(c, row)
    BY <1>4, <2>1, <2>3
  <2>5. req[r].place = c /\ hasDest(r) => Refused(c, dest)
    BY <1>4, <2>1, <2>3
  <2>6. /\ (hasDest(r))' <=> hasDest(r)
        /\ wasIn(r, c)' <=> wasIn(r, c)
    BY <2>2 DEF hasDest, isMovingItemBetweenCollections, isMovingOrphanItemIntoACollection,
                isOrphan, isInsert, wasIn
  <2>7. \A d : Refused(c, d)' <=> Refused(c, d)
    BY <1>2 DEF Refused, isDeployed
  <2>8. PutHolds(r, c)'
    BY <1>1, <1>2, <2>2, <2>4, <2>5, <2>6, <2>7 DEF Holds, PutHolds, itemsIn
  <2> QED
    BY <2>2, <2>8 DEF Holds, SaveHolds, DropHolds, RemoveHolds, PublishHolds
<1>6. CASE CheckPut(r)
  <2> DEFINE here == [[req[r] EXCEPT !.home = None, !.row = None, !.dest = None,
                                     !.manages = FALSE] EXCEPT !.pc = "write"]
  <2>1. req' = [req EXCEPT ![r] = here] /\ mayPut(r)
    BY <1>3, <1>6 DEF CheckPut, goOnIf
  <2>2. /\ here.kind = req[r].kind /\ here.item = req[r].item /\ here.was = req[r].was
        /\ here.place = req[r].place /\ here.pc = "write"
    BY <1>1 DEF Locals
  <2>3. req'[r] = here
    BY <1>1, <2>1
  <2> HIDE DEF here
  <2>4. req[r].pc = "check"
    BY <1>6 DEF CheckPut, at
  <2>5. req[r].home = IF req[r].was # None /\ req[r].was.place # None THEN req[r].was.place
                      ELSE req[r].place
    BY <1>1, <2>4 DEF IsShaped, PutIsShaped
  <2>6. /\ req[r].home = c => Refused(c, req[r].row)
        /\ req[r].place = c /\ hasDest(r) => Refused(c, req[r].dest)
    BY <1>1, <2>4 DEF Holds, PutHolds
  <2>7. req[r].home = c => mayChangePublished(r)
    BY <2>1, <2>6 DEF mayPut, Refused, isDCLPublished, isUnlocked
  <2>8. wasIn(r, c) => req[r].place = c
    BY <1>4, <2>5, <2>7 DEF wasIn, mayChangePublished, isMovingItemBetweenCollections,
                            isInsert, isOrphan
  <2>9. req[r].place = c => wasIn(r, c)
    <3> SUFFICES ASSUME req[r].place = c, ~wasIn(r, c) PROVE FALSE
      OBVIOUS
    <3>1. CASE isMovingItemBetweenCollections(r)
      BY <2>1, <2>6, <3>1 DEF hasDest, mayPut, Refused, isDCLPublished, isUnlocked
    <3>2. CASE isInsert(r) \/ isOrphan(r)
      <4>1. req[r].home = c
        BY <2>5, <3>2 DEF isInsert, isOrphan
      <4> QED
        BY <2>7, <3>2, <4>1 DEF mayChangePublished
    <3>3. isMovingItemBetweenCollections(r) \/ isInsert(r) \/ isOrphan(r)
      BY <1>4 DEF isMovingItemBetweenCollections, isInsert, isOrphan, wasIn
    <3> QED
      BY <3>1, <3>2, <3>3
  <2>10. PutHolds(r, c)'
    BY <1>1, <1>2, <2>2, <2>3, <2>8, <2>9 DEF Holds, PutHolds, wasIn, itemsIn
  <2> QED
    BY <1>1, <2>2, <2>3, <2>10 DEF Holds, SaveHolds, DropHolds, RemoveHolds, PublishHolds
<1> QED
  BY <1>5, <1>6

LEMMA PublishStepHolds ==
    ASSUME TypeInv, NEW c \in Collections, Fenced(c), NEW r \in Requests, Holds(r, c),
           FindItems(r) \/ AskGraph(r) \/ UpdateItem(r), r \in inFlight'
    PROVE  Holds(r, c)'
<1>1. req[r] \in Locals /\ req \in [Requests -> Locals] /\ req[r].kind = "publish"
  BY DEF TypeInv, Typed, LocalsFit, FindItems, AskGraph, UpdateItem, at
<1>2. ~answer(r)
  BY <1>1, IdleIsLocals DEF answer, inFlight
<1>3. CASE FindItems(r)
  <2> DEFINE order == findOrderedByCollectionId(req[r].home)
  <2>1. PICK entries :
            /\ entries = [k \in 1..Len(order) |-> <<order[k], items[order[k]].chainId # None>>]
            /\ req' = [req EXCEPT ![r].pc = "graph", ![r].order = entries]
    BY <1>3 DEF FindItems
  <2>2. /\ req'[r].kind = "publish" /\ req'[r].home = req[r].home
        /\ req'[r].order = entries
    BY <1>1, <2>1 DEF Locals
  <2>3. Len(order) \in Nat
    BY OrderHasItems DEF TypeInv
  <2>4. findOrderedByCollectionId(c)' = findOrderedByCollectionId(c)
    BY <1>3 DEF FindItems, rows, findOrderedByCollectionId, itemsIn
  <2> HIDE DEF order
  <2>5. Len(entries) = Len(order) /\ \A k \in 1..Len(order) : entries[k][1] = order[k]
    BY <2>1, <2>3
  <2>6. PublishHolds(r, c)'
    BY <2>2, <2>4, <2>5 DEF PublishHolds, order
  <2> QED
    BY <2>2, <2>6 DEF Holds, SaveHolds, DropHolds, RemoveHolds, PutHolds
<1>4. CASE AskGraph(r) \/ UpdateItem(r)
  <2>1. req'[r].kind = "publish" /\ req'[r].pc = "updates"
    <3>1. CASE AskGraph(r)
      <4>1. PICK todo : req' = [req EXCEPT ![r].pc = "updates", ![r].todo = todo,
                                           ![r].order = <<>>, ![r].data = None]
        BY <1>2, <3>1 DEF AskGraph
      <4> QED
        BY <1>1, <4>1 DEF Locals
    <3>2. CASE UpdateItem(r)
      <4>1. PICK todo : req' = [req EXCEPT ![r].todo = todo]
        BY <1>2, <3>2 DEF UpdateItem
      <4> QED
        BY <1>1, <3>2, <4>1 DEF Locals, UpdateItem, at
    <3> QED
      BY <1>4, <3>1, <3>2
  <2> QED
    BY <2>1 DEF Holds, SaveHolds, DropHolds, RemoveHolds, PutHolds, PublishHolds
<1> QED
  BY <1>3, <1>4

LEMMA PostStepHolds ==
    ASSUME TypeInv, NEW c, NEW r \in Requests, CreatePost(r), r \in inFlight'
    PROVE  Holds(r, c)'
<1>1. req'[r].kind = "post"
  BY StepKeeps DEF TypeInv, CreatePost, at, Step, inFlight
<1> QED
  BY <1>1 DEF Holds, SaveHolds, DropHolds, RemoveHolds, PutHolds, PublishHolds

LEMMA FenceStays ==
    ASSUME TypeInv, FenceHolds, ChainHolds, [Next]_vars
    PROVE  FenceHolds'
<1> SUFFICES ASSUME Regular', NEW r \in inFlight', NEW c \in Collections, Fenced(c)'
             PROVE  Holds(r, c)'
  BY DEF FenceHolds
<1>1. Regular /\ Fenced(c) /\ r \in Requests
  BY FenceStarts, RegularBefore DEF inFlight
<1>2. CASE req'[r] = req[r]
  <2>1. r \in inFlight
    BY <1>1, <1>2 DEF inFlight
  <2> QED
    BY <1>1, <1>2, <2>1, WaitingHolds
<1>3. CASE Start(r)
  BY <1>1, <1>3, StartedHolds
<1>4. CASE Step(r)
  <2>1. r \in inFlight /\ Holds(r, c)
    BY <1>1, <1>4, StepKeeps DEF TypeInv, FenceHolds
  <2>2. ~answer(r)
    BY IdleIsLocals DEF answer, inFlight, TypeInv, Typed, LocalsFit
  <2> QED
    BY <1>1, <1>4, <2>1, <2>2, SaveStepHolds, DropStepHolds, RemoveStepHolds, PutStepHolds,
       PublishStepHolds, PostStepHolds
       DEF Step, WriteCollection, RemoveItem, WriteItem, LinkPost
<1>5. \/ req'[r] = req[r] \/ Start(r) \/ Step(r)
  <2>1. CASE \E q \in Requests : Start(q) \/ Step(q)
    BY <1>1, <2>1, StartSets, StepKeeps DEF TypeInv
  <2>2. CASE \E d \in Deployable : External(d)
    BY <2>2, OutsideLeavesItems
  <2>3. CASE UNCHANGED vars
    BY <2>3 DEF vars
  <2> QED
    BY <2>1, <2>2, <2>3 DEF Next
<1> QED
  BY <1>2, <1>3, <1>4, <1>5

\* What a transaction was made of stays, once it is sent: a lock that is not late
\* lasts until the contract is there.
LEMMA ChainStays ==
    ASSUME TypeInv, FenceHolds, ChainHolds, [Next]_vars
    PROVE  ChainHolds'
<1> SUFFICES ASSUME never({"straddle", "late"})', NEW c \in Collections, tx'[c] # None
             PROVE  /\ Fenced(c)' /\ collections'[c].data = tx'[c].data
                    /\ tx'[c].status = "pending" => collections'[c].lock = "active"
                    /\ tx'[c].items = findOrderedByCollectionId(c)'
  BY DEF ChainHolds
<1>1. never({"straddle", "late"}) /\ Regular
  BY RegularBefore, MishapsGrow DEF Regular, never
<1>2. CASE tx[c] = None
  <2>1. SendTransaction(c)
    <3>1. PICK d \in Deployable : SendTransaction(d) \/ Mine(d) \/ Index(d)
      BY <1>2, TransactionWriters
    <3>2. d = c
      BY <1>2, <3>1 DEF SendTransaction, Mine, Index, TypeInv, TransactionsTyped
    <3> QED
      BY <1>2, <3>1, <3>2 DEF Mine, Index
  <2>2. collections[c] # None /\ collections[c].lock = "active"
        /\ UNCHANGED <<collections, items>>
    BY <2>1 DEF SendTransaction, rows
  <2>3. tx'[c].data = collections[c].data /\ tx'[c].items = findOrderedByCollectionId(c)
    BY <2>1 DEF SendTransaction, TypeInv, TransactionsTyped
  <2>4. findOrderedByCollectionId(c)' = findOrderedByCollectionId(c)
    BY <2>2 DEF findOrderedByCollectionId, itemsIn
  <2> QED
    BY <2>2, <2>3, <2>4 DEF Fenced
<1>3. CASE tx[c] # None
  <2>1. /\ Fenced(c) /\ collections[c].data = tx[c].data
        /\ tx[c].status = "pending" => collections[c].lock = "active"
        /\ tx[c].items = findOrderedByCollectionId(c)
    BY <1>1, <1>3 DEF ChainHolds
  <2>2. /\ collections'[c] # None /\ collections'[c].data = collections[c].data
        /\ collections'[c].lock = collections[c].lock \/ Lock(c) \/ Expire(c)
    BY <1>1, <2>1, FencedRowStays
  <2>3. /\ tx'[c].data = tx[c].data /\ tx'[c].items = tx[c].items
        /\ tx'[c].status = "pending" => tx[c].status = "pending"
    BY <1>3, ChainKeeps
  <2>4. findOrderedByCollectionId(c)' = findOrderedByCollectionId(c)
    BY <1>1, <2>1, FencedItemsStay
  <2>5. tx'[c].status = "pending" => collections'[c].lock = "active"
    <3> SUFFICES ASSUME tx'[c].status = "pending" PROVE collections'[c].lock = "active"
      OBVIOUS
    <3>1. tx[c].status = "pending" /\ collections[c].lock = "active"
      BY <2>1, <2>3
    <3>2. ~Lock(c)
      BY <3>1 DEF Lock
    <3>3. ~Expire(c)
      BY <1>3, <3>1 DEF Expire, note, never
    <3> QED
      BY <2>2, <3>1, <3>2, <3>3
  <2>6. Fenced(c)'
    BY <2>1, <2>2, <2>3, <2>5 DEF Fenced, isDeployed
  <2> QED
    BY <2>1, <2>2, <2>3, <2>4, <2>5, <2>6
<1> QED
  BY <1>2, <1>3

FenceInv == TypeInv /\ FenceHolds /\ ChainHolds

\* No request that is in flight takes down what a contract is made of, from the
\* time its collection is locked (isDCLPublished and isLockActive, asked of the row
\* that was read before).
THEOREM FenceIsKept == Spec => []FenceInv
<1>1. Init => FenceHolds /\ ChainHolds
  <2> SUFFICES ASSUME Init PROVE FenceHolds /\ ChainHolds
    OBVIOUS
  <2>1. inFlight = {}
    BY IdleIsLocals DEF Init, inFlight
  <2>2. \A c \in Collections : tx[c] = None
    BY DEF Init
  <2> QED
    BY <2>1, <2>2 DEF FenceHolds, ChainHolds
<1>2. TypeInv /\ FenceHolds /\ ChainHolds /\ [Next]_vars => (FenceHolds /\ ChainHolds)'
  BY FenceStays, ChainStays
<1> QED
  BY <1>1, <1>2, TypesHold, PTL DEF Spec, FenceInv

\* What a contract was made of is still stored once it is deployed, whatever
\* requests overlap (the lock first, isDCLPublished after).
THEOREM ContractsStayStored == Spec => []OnChainIsStored
<1>1. ASSUME FenceInv PROVE OnChainIsStored
  <2> SUFFICES ASSUME never({"straddle", "late"}), NEW c \in Collections, tx[c] # None
               PROVE  /\ collections[c] # None /\ collections[c].data = tx[c].data
                      /\ itemsIn(c) = ToSet(tx[c].items)
    BY DEF OnChainIsStored
  <2>1. /\ Fenced(c) /\ collections[c].data = tx[c].data
        /\ tx[c].items = findOrderedByCollectionId(c)
    BY <1>1 DEF FenceInv, ChainHolds
  <2>2. /\ findOrderedByCollectionId(c) \in [1..Cardinality(itemsIn(c)) -> itemsIn(c)]
        /\ \A i \in itemsIn(c) : \E k \in 1..Cardinality(itemsIn(c)) :
              findOrderedByCollectionId(c)[k] = i
    BY <1>1, OrderHasItems DEF FenceInv, TypeInv
  <2>3. itemsIn(c) = ToSet(findOrderedByCollectionId(c))
    BY <2>2 DEF ToSet
  <2> QED
    BY <2>1, <2>3 DEF Fenced
<1> QED
  BY <1>1, FenceIsKept, PTL

-----------------------------------------------------------------------------
(* The ids of the items.                                                   *)

\* An edit that has read an id will write it again, an update is about to.
PutIsSettled(r) ==
    req[r].kind = "put" /\ req[r].was # None /\ req[r].was.chainId # None =>
        req[r].was.place # None /\ Settled(req[r].was.place)
PublishIsSettled(r) ==
    req[r].kind = "publish" =>
        /\ req[r].pc # "updates" /\ Alone =>
              /\ collections[req[r].home] # None
              /\ collections[req[r].home].data = req[r].data
        /\ req[r].pc = "updates" =>
              /\ Settled(req[r].home)
              /\ \A u \in req[r].todo : u[1] \in itemsIn(req[r].home)

NumberedAreSettled ==
    Regular =>
        /\ \A i \in Items :
              items[i] # None /\ items[i].chainId # None =>
                  items[i].place # None /\ Settled(items[i].place)
        /\ \A r \in inFlight : PutIsSettled(r) /\ PublishIsSettled(r)

LEMMA SettledIsFenced == ASSUME NEW c, Settled(c) PROVE Fenced(c)
  BY DEF Settled, Fenced

LEMMA SettledStays ==
    ASSUME TypeInv, FenceHolds, Regular, NEW c \in Collections, Settled(c), [Next]_vars
    PROVE  Settled(c)'
<1>1. collections'[c] # None /\ collections'[c].data = collections[c].data
  BY SettledIsFenced, FencedRowStays
<1>2. PICK data : data = collections[c].data
  OBVIOUS
<1>3. isDeployed(c, data)'
  BY <1>2, DeployedStays DEF Settled
<1> QED
  BY <1>1, <1>2, <1>3 DEF Settled, isDeployed

\* The graph is asked for the collection of an order: what it answers is the
\* contract of the collection as it is stored.
LEMMA AskGraphNumbers ==
    ASSUME TypeInv, FenceHolds, ChainHolds, NumberedAreSettled, Regular, NEW r \in Requests,
           AskGraph(r), r \in inFlight'
    PROVE  LET c == req[r].home
               order == findOrderedByCollectionId(c)
           IN  /\ c \in Collections /\ Settled(c) /\ tx[c].status = "indexed"
               /\ req'[r].home = c /\ req'[r].kind = "publish" /\ req'[r].pc = "updates"
               /\ \A u \in req'[r].todo :
                     \E k \in 1..Len(order) :
                        /\ k <= Len(tx[c].items) /\ order[k] \in itemsIn(c)
                        /\ u = <<order[k], k - 1>>
<1> DEFINE c == req[r].home
           order == findOrderedByCollectionId(c)
<1>1. /\ req[r] \in Locals /\ req \in [Requests -> Locals] /\ req[r].kind = "publish"
      /\ req[r].pc = "graph" /\ r \in inFlight /\ IsShaped(req[r])
  BY DEF TypeInv, Typed, LocalsFit, AskGraph, at, inFlight
<1>2. c \in Collections
  BY <1>1 DEF IsShaped, PublishIsShaped
<1>3. ~answer(r)
  BY <1>1, IdleIsLocals DEF answer, inFlight
<1>4. /\ isIndexed(c, req[r].data)
      /\ req' = [req EXCEPT ![r].pc = "updates",
                            ![r].todo = updatesOf(req[r].order, tx[c].items),
                            ![r].order = <<>>, ![r].data = None]
  BY <1>3 DEF AskGraph
<1>11. tx[c].status = "indexed"
  BY <1>4 DEF isIndexed
<1>5. /\ req'[r].home = c /\ req'[r].kind = "publish" /\ req'[r].pc = "updates"
      /\ req'[r].todo = updatesOf(req[r].order, tx[c].items)
  BY <1>1, <1>4 DEF Locals
<1>6. Settled(c)
  <2>1. tx[c] # None /\ tx[c].data = req[r].data /\ tx[c].status # "pending"
    BY <1>4 DEF isIndexed, isDeployed
  <2>2. CASE "late" \in mishaps
    BY <1>1, <2>1, <2>2 DEF Regular, NumberedAreSettled, PublishIsSettled, Settled, isDeployed
  <2>3. CASE "late" \notin mishaps
    <3>1. never({"straddle", "late"})
      BY <2>3 DEF Regular, never
    <3> QED
      BY <1>2, <2>1, <3>1 DEF ChainHolds, Fenced, Settled, isDeployed
  <2> QED
    BY <2>2, <2>3
<1>7. PublishHolds(r, c)
  BY <1>1, <1>2, <1>6, SettledIsFenced DEF FenceHolds, Holds
<1>8. /\ Len(req[r].order) = Len(order)
      /\ \A k \in 1..Len(order) : req[r].order[k][1] = order[k]
  BY <1>1, <1>7 DEF PublishHolds
<1>9. \A k \in 1..Len(order) : order[k] \in itemsIn(c)
  BY OrderHasItems DEF TypeInv
<1>10. \A u \in updatesOf(req[r].order, tx[c].items) :
           \E k \in 1..Len(order) :
              k <= Len(tx[c].items) /\ order[k] \in itemsIn(c) /\ u = <<order[k], k - 1>>
  BY <1>8, <1>9 DEF updatesOf
<1> QED
  BY <1>2, <1>5, <1>6, <1>10, <1>11

\* An edit writes an id in the place it was read in.
LEMMA WriteKeepsNumber ==
    ASSUME TypeInv, FenceHolds, NumberedAreSettled, Regular, NEW r \in Requests, WriteItem(r),
           items'[req[r].item].chainId # None
    PROVE  /\ r \in inFlight /\ req[r].kind = "put" /\ req[r].item \in Items
           /\ req[r].was \in ItemRows /\ req[r].was # None
           /\ req[r].was.place \in Collections /\ Settled(req[r].was.place)
           /\ items'[req[r].item].place = req[r].was.place
           /\ items'[req[r].item].chainId = req[r].was.chainId
<1> USE DEF TypeInv
<1>1. /\ r \in inFlight /\ req[r].kind = "put" /\ req[r].pc = "write"
      /\ req[r] \in Locals /\ req[r].item \in Items
  BY WriteItemWrites DEF WriteItem, at, Typed, LocalsFit
<1>2. PICK row \in ItemRows :
          /\ items' = [items EXCEPT ![req[r].item] = row]
          /\ row.place = req[r].place
          /\ req[r].was = None => row.chainId = None
          /\ req[r].was # None => row.chainId = req[r].was.chainId
  BY WriteItemWrites
<1>3. items'[req[r].item] = row
  BY <1>1, <1>2 DEF Typed
<1>4. req[r].was # None /\ req[r].was.chainId # None /\ req[r].was \in ItemRows
  BY <1>1, <1>2, <1>3 DEF Locals, OrNone
<1>5. req[r].was.place # None /\ Settled(req[r].was.place)
  BY <1>1, <1>4 DEF NumberedAreSettled, PutIsSettled
<1>6. PICK c \in Collections : req[r].was.place = c
  BY <1>4, <1>5 DEF ItemRows
<1>7. req[r].place = c
  BY <1>1, <1>4, <1>5, <1>6, SettledIsFenced DEF FenceHolds, Holds, PutHolds, wasIn
<1> QED
  BY <1>1, <1>2, <1>3, <1>4, <1>5, <1>6, <1>7

\* Deletes apart, an item is only written by its edit or by an update.
LEMMA OneItemWritten ==
    ASSUME Typed, NEW r \in Requests, Step(r), NEW i \in Items, items'[i] # None,
           items'[i] # items[i]
    PROVE  (WriteItem(r) /\ i = req[r].item) \/ UpdateItem(r)
<1>1. ~Drop(r) /\ ~RemoveItem(r)
  BY DEF Drop, RemoveItem, Typed
<1>2. WriteItem(r) => i = req[r].item
  BY DEF WriteItem, Typed
<1> QED
  BY <1>1, <1>2, ItemWriters

LEMMA ItemsStaySettled ==
    ASSUME TypeInv, FenceHolds, NumberedAreSettled, Regular, [Next]_vars,
           NEW i \in Items, items'[i] # None, items'[i].chainId # None
    PROVE  \E c \in Collections : items'[i].place = c /\ Settled(c)'
<1> USE DEF TypeInv
<1>1. \A c \in Collections : Settled(c) => Settled(c)'
  BY SettledStays
<1>2. \A j \in Items : items[j] # None /\ items[j].chainId # None =>
          items[j].place \in Collections /\ Settled(items[j].place)
  BY DEF NumberedAreSettled, Typed, OrNone, ItemRows
<1>3. CASE items'[i] = items[i]
  <2>1. PICK c \in Collections : items[i].place = c /\ Settled(c)
    BY <1>2, <1>3
  <2>2. Settled(c)'
    BY <1>1, <2>1
  <2> QED
    BY <1>3, <2>1, <2>2
<1>4. ASSUME NEW r \in Requests, WriteItem(r), i = req[r].item
      PROVE  \E c \in Collections : items'[i].place = c /\ Settled(c)'
  <2>1. PICK c \in Collections : items'[i].place = c /\ Settled(c)
    BY <1>4, WriteKeepsNumber
  <2> QED
    BY <1>1, <2>1
<1>5. ASSUME NEW r \in Requests, UpdateItem(r), items'[i] # items[i]
      PROVE  \E c \in Collections : items'[i].place = c /\ Settled(c)'
  <2>1. PICK u \in req[r].todo :
            /\ u[1] \in Items /\ items[u[1]] # None
            /\ items' = [items EXCEPT ![u[1]].chainId = u[2]]
    BY <1>5, UpdateItemWrites
  <2>2. i = u[1]
    BY <1>5, <2>1 DEF Typed
  <2>3. items[i] \in ItemRows
    BY <2>1, <2>2 DEF Typed, OrNone
  <2>4. items'[i].place = items[i].place
    BY <2>1, <2>2, <2>3 DEF Typed, ItemRows
  <2>5. PICK c : c = req[r].home
    OBVIOUS
  <2>6. c \in Collections /\ Settled(c) /\ i \in itemsIn(c)
    <3>1. r \in inFlight /\ req[r].kind = "publish" /\ req[r].pc = "updates"
      BY <1>5, UpdateItemWrites
    <3> QED
      BY <2>1, <2>2, <2>5, <3>1 DEF NumberedAreSettled, PublishIsSettled, Typed, LocalsFit,
                                    IsShaped, PublishIsShaped
  <2>7. items[i].place = c /\ Settled(c)'
    BY <1>1, <2>6 DEF itemsIn
  <2> QED
    BY <2>4, <2>6, <2>7
<1>6. ASSUME NEW r \in Requests, Step(r), items'[i] # items[i]
      PROVE  (WriteItem(r) /\ i = req[r].item) \/ UpdateItem(r)
  BY <1>6, OneItemWritten
<1> QED
  BY <1>3, <1>4, <1>5, <1>6, StartReads, OutsideLeavesItems DEF Next, vars

\* A request in flight has waited, was started or took its step.
LEMMA RequestsMove ==
    ASSUME Typed, [Next]_vars, NEW r \in inFlight'
    PROVE  (r \in inFlight /\ req'[r] = req[r]) \/ Start(r) \/ Step(r)
<1>1. CASE \E q \in Requests : Start(q) \/ Step(q)
  BY <1>1, StartSets, StepKeeps DEF inFlight
<1>2. CASE \E d \in Deployable : External(d)
  BY <1>2, OutsideLeavesItems DEF inFlight
<1>3. CASE UNCHANGED vars
  BY <1>3 DEF vars, inFlight
<1> QED
  BY <1>1, <1>2, <1>3 DEF Next

\* With one request there is nobody else to save or to drop its collection.
LEMMA AloneRowStays ==
    ASSUME Typed, Alone, [Next]_vars, NEW r \in inFlight, req[r].kind \notin {"save", "drop"},
           NEW c \in Collections, collections[c] # None
    PROVE  /\ collections'[c] # None
           /\ collections'[c].data = collections[c].data
           /\ collections'[c].owner = collections[c].owner
<1>1. Requests = {r}
  <2>1. PICK q : Requests = {q}
    BY FS_Singleton, StoredAssumption DEF Alone
  <2> QED
    BY <2>1 DEF inFlight
<1>2. ASSUME NEW q \in Requests, WriteCollection(q) \/ Drop(q) PROVE FALSE
  BY <1>1, <1>2 DEF WriteCollection, Drop, at
<1>3. ASSUME NEW d \in Deployable, Lock(d) \/ Expire(d)
      PROVE  /\ collections'[c] # None
             /\ collections'[c].data = collections[c].data
             /\ collections'[c].owner = collections[c].owner
  <2>1. d \in Collections /\ collections[d] # None
    BY <1>3, StandardAssumption DEF Lock, Expire
  <2>2. PICK lock \in {"active", "expired"} :
            collections' = [collections EXCEPT ![d].lock = lock]
    BY <1>3 DEF Lock, Expire
  <2> QED
    BY <2>1, <2>2, SetLockSets
<1> QED
  BY <1>2, <1>3, CollectionWriters

LEMMA PutStaysSettled ==
    ASSUME TypeInv, FenceHolds, NumberedAreSettled, Regular, [Next]_vars, NEW r \in inFlight',
           req'[r].kind = "put", req'[r].was # None, req'[r].was.chainId # None
    PROVE  \E c \in Collections : req'[r].was.place = c /\ Settled(c)'
<1> USE DEF TypeInv
<1>1. \A c \in Collections : Settled(c) => Settled(c)'
  BY SettledStays
<1>2. r \in Requests
  BY DEF inFlight
<1>3. CASE (r \in inFlight /\ req'[r] = req[r]) \/ Step(r)
  <2>1. r \in inFlight /\ req[r].kind = "put" /\ req'[r].was = req[r].was
    BY <1>2, <1>3, StepKeeps DEF inFlight
  <2>2. req[r].was \in ItemRows
    BY <2>1, <1>2 DEF Typed, LocalsFit, Locals, OrNone
  <2>3. req[r].was.place # None /\ Settled(req[r].was.place)
    BY <2>1 DEF NumberedAreSettled, PutIsSettled
  <2>4. req[r].was.place \in Collections
    BY <2>2, <2>3 DEF ItemRows, OrNone
  <2>5. PICK c \in Collections : req[r].was.place = c
    BY <2>4
  <2> QED
    BY <1>1, <2>1, <2>3, <2>5
<1>4. CASE Start(r)
  <2>1. IsStarted(req'[r])
    BY <1>2, <1>4, StartSets
  <2>2. PICK i \in Items : items[i] # None /\ req'[r].was = items[i]
    BY <2>1 DEF IsStarted
  <2>3. items[i] \in ItemRows
    BY <2>2 DEF Typed, OrNone
  <2>4. items[i].place # None /\ Settled(items[i].place)
    BY <2>2 DEF NumberedAreSettled
  <2>5. PICK c \in Collections : items[i].place = c
    BY <2>3, <2>4 DEF ItemRows
  <2> QED
    BY <1>1, <2>2, <2>4, <2>5
<1> QED
  BY <1>3, <1>4, RequestsMove

\* The steps of a publication, by what they leave of its locals.
LEMMA PublishSteps ==
    ASSUME Typed, NEW r \in Requests, Step(r), r \in inFlight', req'[r].kind = "publish"
    PROVE  /\ r \in inFlight /\ req[r].kind = "publish" /\ req[r].home \in Collections
           /\ \/ /\ FindItems(r) /\ req[r].pc = "items" /\ req'[r].pc = "graph"
                 /\ req'[r].home = req[r].home /\ req'[r].data = req[r].data
              \/ AskGraph(r)
              \/ /\ UpdateItem(r) /\ req[r].pc = "updates" /\ req'[r].pc = "updates"
                 /\ req'[r].home = req[r].home /\ req'[r].todo \subseteq req[r].todo
<1>1. /\ r \in inFlight /\ req[r] \in Locals /\ req \in [Requests -> Locals]
      /\ req[r].kind = "publish"
  BY StepKeeps DEF Typed, LocalsFit, inFlight
<1>2. req[r].home \in Collections
  BY <1>1 DEF Typed, LocalsFit, IsShaped, PublishIsShaped
<1>3. FindItems(r) \/ AskGraph(r) \/ UpdateItem(r)
  BY <1>1 DEF Step, ReadSaved, CheckSaved, WriteCollection, CheckDrop, Drop, ReadRemoved,
              CheckRemoved, RemoveItem, ReadCollections, CheckPut, WriteItem, CreatePost,
              LinkPost, at
<1>4. ~answer(r)
  BY <1>1, IdleIsLocals DEF answer, inFlight
<1>5. CASE FindItems(r)
  <2>1. PICK order : req' = [req EXCEPT ![r].pc = "graph", ![r].order = order]
    BY <1>5 DEF FindItems
  <2>2. req'[r].pc = "graph" /\ req'[r].home = req[r].home /\ req'[r].data = req[r].data
    BY <1>1, <2>1 DEF Locals
  <2> QED
    BY <1>1, <1>2, <1>5, <2>2 DEF FindItems, at
<1>6. CASE UpdateItem(r)
  <2>1. PICK update : req' = [req EXCEPT ![r].todo = @ \ {update}]
    BY <1>4, <1>6 DEF UpdateItem
  <2>2. /\ req'[r].pc = req[r].pc /\ req'[r].home = req[r].home
        /\ req'[r].todo = req[r].todo \ {update}
    BY <1>1, <2>1 DEF Locals
  <2> QED
    BY <1>1, <1>2, <1>6, <2>2 DEF UpdateItem, at
<1> QED
  BY <1>1, <1>2, <1>3, <1>5, <1>6

LEMMA PublishStaysSettled ==
    ASSUME TypeInv, FenceHolds, ChainHolds, NumberedAreSettled, Regular, [Next]_vars,
           NEW r \in inFlight', req'[r].kind = "publish"
    PROVE  PublishIsSettled(r)'
<1> USE DEF TypeInv
<1>1. \A c \in Collections : Settled(c) => Settled(c)' /\ itemsIn(c)' = itemsIn(c)
  BY SettledStays, SettledIsFenced, FencedItemsStay
<1>2. r \in Requests /\ r \in inFlight'
  BY DEF inFlight
<1>3. CASE r \in inFlight /\ req'[r] = req[r]
  <2>1. req[r].kind = "publish" /\ PublishIsSettled(r)
    BY <1>3 DEF NumberedAreSettled
  <2>2. PICK c \in Collections : c = req[r].home
    BY <1>3, <2>1 DEF Typed, LocalsFit, IsShaped, PublishIsShaped
  <2>3. Alone /\ req[r].pc # "updates" =>
            collections'[c] # None /\ collections'[c].data = req[r].data
    BY <1>3, <2>1, <2>2, AloneRowStays DEF PublishIsSettled
  <2>4. req[r].pc = "updates" =>
            Settled(c)' /\ \A u \in req[r].todo : u[1] \in itemsIn(c)'
    BY <1>1, <2>1, <2>2 DEF PublishIsSettled
  <2> QED
    BY <1>3, <2>2, <2>3, <2>4 DEF PublishIsSettled, Alone
<1>4. CASE Start(r)
  <2>1. UNCHANGED collections
    BY <1>2, <1>4, StartReads
  <2>2. /\ req'[r].pc = "items" /\ req'[r].home \in stored
        /\ req'[r].data = collections[req'[r].home].data
    BY <1>2, <1>4, StartSets DEF IsStarted
  <2> QED
    BY <2>1, <2>2 DEF PublishIsSettled, stored
<1>5. CASE Step(r)
  <2>1. r \in inFlight /\ req[r].kind = "publish" /\ PublishIsSettled(r)
    BY <1>2, <1>5, PublishSteps DEF NumberedAreSettled
  <2>2. PICK c \in Collections : c = req[r].home
    BY <1>2, <1>5, PublishSteps
  <2>3. CASE FindItems(r) /\ req[r].pc = "items" /\ req'[r].pc = "graph"
             /\ req'[r].home = req[r].home /\ req'[r].data = req[r].data
    <3>1. Alone => collections'[c] # None /\ collections'[c].data = req[r].data
      BY <2>1, <2>2, <2>3, AloneRowStays DEF PublishIsSettled
    <3> QED
      BY <2>2, <2>3, <3>1 DEF PublishIsSettled, Alone
  <2>4. CASE AskGraph(r)
    <3> DEFINE order == findOrderedByCollectionId(c)
    <3>1. /\ Settled(c) /\ req'[r].home = c /\ req'[r].pc = "updates"
          /\ \A u \in req'[r].todo :
                \E k \in 1..Len(order) : order[k] \in itemsIn(c) /\ u = <<order[k], k - 1>>
      BY <1>2, <2>2, <2>4, AskGraphNumbers
    <3> HIDE DEF order
    <3>2. Settled(c)' /\ \A u \in req'[r].todo : u[1] \in itemsIn(c)'
      BY <1>1, <3>1
    <3> QED
      BY <3>1, <3>2 DEF PublishIsSettled
  <2>5. CASE UpdateItem(r) /\ req[r].pc = "updates" /\ req'[r].pc = "updates"
             /\ req'[r].home = req[r].home /\ req'[r].todo \subseteq req[r].todo
    <3>1. Settled(c)' /\ \A u \in req'[r].todo : u[1] \in itemsIn(c)'
      BY <1>1, <2>1, <2>2, <2>5 DEF PublishIsSettled
    <3> QED
      BY <2>2, <2>5, <3>1 DEF PublishIsSettled
  <2> QED
    BY <1>2, <1>5, <2>3, <2>4, <2>5, PublishSteps
<1> QED
  BY <1>3, <1>4, <1>5, RequestsMove

LEMMA NumberedStay ==
    ASSUME TypeInv, FenceHolds, ChainHolds, NumberedAreSettled, [Next]_vars
    PROVE  NumberedAreSettled'
<1> SUFFICES ASSUME Regular'
             PROVE  /\ \A i \in Items :
                          items'[i] # None /\ items'[i].chainId # None =>
                              \E c \in Collections : items'[i].place = c /\ Settled(c)'
                    /\ \A r \in inFlight' : PutIsSettled(r)' /\ PublishIsSettled(r)'
  BY StandardAssumption DEF NumberedAreSettled, Settled, isDeployed
<1>1. Regular
  BY RegularBefore
<1>2. ASSUME NEW r \in inFlight' PROVE PutIsSettled(r)'
  BY <1>1, PutStaysSettled, StandardAssumption DEF PutIsSettled, Settled, isDeployed
<1>3. ASSUME NEW r \in inFlight' PROVE PublishIsSettled(r)'
  BY <1>1, PublishStaysSettled DEF PublishIsSettled
<1> QED
  BY <1>1, <1>2, <1>3, ItemsStaySettled

IdsInv == FenceInv /\ NumberedAreSettled

\* Ids are given only in a collection that is deployed as it is stored, and what a
\* request that is in flight has read of ids is of such a one (FindItems, AskGraph).
THEOREM NumberedItemsAreSettled == Spec => []IdsInv
<1>1. Init => NumberedAreSettled
  <2> SUFFICES ASSUME Init PROVE NumberedAreSettled
    OBVIOUS
  <2>1. inFlight = {}
    BY IdleIsLocals DEF Init, inFlight
  <2>2. \A i \in Items : items[i] # None => items[i].chainId = None
    BY StoredAssumption DEF Init
  <2> QED
    BY <2>1, <2>2 DEF NumberedAreSettled
<1>2. FenceInv /\ NumberedAreSettled /\ [Next]_vars => NumberedAreSettled'
  BY NumberedStay DEF FenceInv
<1> QED
  BY <1>1, <1>2, FenceIsKept, PTL DEF Spec, IdsInv

\* An item with an id is in a collection that is deployed as it is stored: it is
\* not moved, taken out (mayChangePublished) or left behind by its collection.
THEOREM PublishedItemsStayInPlace == Spec => []PublishedStaysInPlace
<1>1. IdsInv => PublishedStaysInPlace
  BY DEF IdsInv, FenceInv, TypeInv, Typed, OrNone, ItemRows, NumberedAreSettled, Settled,
         Regular, Alone, PublishedStaysInPlace
<1> QED
  BY <1>1, NumberedItemsAreSettled, PTL

-----------------------------------------------------------------------------
(* The ids of the items are their places in the contract.                  *)

IsIdOf(i, id, c) ==
    tx[c] # None /\ tx[c].status = "indexed" /\ id + 1 \in indexIn(c, i)

PutHasId(r) ==
    req[r].kind = "put" /\ req[r].was # None /\ req[r].was.chainId # None =>
        IsIdOf(req[r].item, req[r].was.chainId, req[r].was.place)
PublishHasIds(r) ==
    req[r].kind = "publish" /\ req[r].pc = "updates" =>
        \A u \in req[r].todo : IsIdOf(u[1], u[2], req[r].home)

IdsAreIndexes ==
    never({"straddle", "late"}) =>
        /\ \A i \in Items :
              items[i] # None /\ items[i].chainId # None =>
                  IsIdOf(i, items[i].chainId, items[i].place)
        /\ \A r \in inFlight : PutHasId(r) /\ PublishHasIds(r)

LEMMA IdStays ==
    ASSUME TypeInv, [Next]_vars, NEW c \in Collections, NEW i, NEW id, IsIdOf(i, id, c)
    PROVE  IsIdOf(i, id, c)'
<1>1. tx'[c].status = "indexed"
  <2>1. ASSUME NEW d \in Deployable, Mine(d) \/ Index(d) PROVE tx'[c] = tx[c]
    BY <2>1 DEF Mine, Index, IsIdOf, TypeInv, TransactionsTyped
  <2>2. ASSUME NEW d \in Deployable, SendTransaction(d) PROVE tx'[c] = tx[c]
    BY <2>2 DEF SendTransaction, IsIdOf, TypeInv, TransactionsTyped
  <2> QED
    BY <2>1, <2>2, TransactionWriters DEF IsIdOf
<1> QED
  BY <1>1, ChainKeeps DEF IsIdOf, indexIn

LEMMA ItemIdsStay ==
    ASSUME TypeInv, FenceHolds, NumberedAreSettled, IdsAreIndexes, [Next]_vars,
           never({"straddle", "late"}), NEW i \in Items, items'[i] # None,
           items'[i].chainId # None
    PROVE  \E c \in Collections, id \in Nat :
               items'[i].place = c /\ items'[i].chainId = id /\ IsIdOf(i, id, c)'
<1> USE DEF TypeInv
<1> DEFINE stays == \E c \in Collections, id \in Nat :
                        items'[i].place = c /\ items'[i].chainId = id /\ IsIdOf(i, id, c)'
<1>1. \A c \in Collections, id \in Nat : IsIdOf(i, id, c) => IsIdOf(i, id, c)'
  BY IdStays
<1>2. Regular
  BY DEF Regular, never
<1>3. ASSUME items'[i] = items[i] PROVE stays
  <2>1. items[i] \in ItemRows /\ items[i].place # None
    BY <1>2, <1>3 DEF Typed, OrNone, NumberedAreSettled
  <2>2. PICK c \in Collections, id \in Nat : items[i].place = c /\ items[i].chainId = id
    BY <1>3, <2>1 DEF ItemRows
  <2>3. IsIdOf(i, id, c)
    BY <1>3, <2>2 DEF IdsAreIndexes
  <2> QED
    BY <1>1, <1>3, <2>2, <2>3
<1>4. ASSUME NEW r \in Requests, WriteItem(r), i = req[r].item PROVE stays
  <2>1. /\ r \in inFlight /\ req[r].kind = "put" /\ req[r].was \in ItemRows
        /\ req[r].was # None /\ req[r].was.place \in Collections
        /\ items'[i].place = req[r].was.place /\ items'[i].chainId = req[r].was.chainId
    BY <1>2, <1>4, WriteKeepsNumber
  <2>2. PICK c \in Collections, id \in Nat :
            req[r].was.place = c /\ req[r].was.chainId = id
    BY <2>1 DEF ItemRows
  <2>3. IsIdOf(i, id, c)
    BY <1>4, <2>1, <2>2 DEF IdsAreIndexes, PutHasId
  <2> QED
    BY <1>1, <2>1, <2>2, <2>3
<1>5. ASSUME NEW r \in Requests, UpdateItem(r), items'[i] # items[i] PROVE stays
  <2>1. /\ r \in inFlight /\ req[r].kind = "publish" /\ req[r].pc = "updates"
        /\ req[r].home \in Collections
    BY <1>5, UpdateItemWrites DEF Typed, LocalsFit, IsShaped, PublishIsShaped
  <2>2. PICK u \in req[r].todo :
            /\ u[1] \in Items /\ u[2] \in Nat /\ items[u[1]] # None
            /\ items' = [items EXCEPT ![u[1]].chainId = u[2]]
    BY <1>5, UpdateItemWrites
  <2>3. i = u[1] /\ items[i] \in ItemRows
    BY <1>5, <2>2 DEF Typed, OrNone
  <2>4. PICK c \in Collections, id \in Nat : c = req[r].home /\ id = u[2]
    BY <2>1, <2>2
  <2>5. items'[i].place = items[i].place /\ items'[i].chainId = id
    BY <2>2, <2>3, <2>4 DEF Typed, ItemRows
  <2>6. items[i].place = c
    BY <1>2, <2>1, <2>2, <2>3, <2>4 DEF NumberedAreSettled, PublishIsSettled, itemsIn
  <2>7. IsIdOf(i, id, c)
    BY <2>1, <2>2, <2>3, <2>4 DEF IdsAreIndexes, PublishHasIds
  <2> QED
    BY <1>1, <2>5, <2>6, <2>7
<1>6. ASSUME NEW r \in Requests, Step(r), items'[i] # items[i]
      PROVE  (WriteItem(r) /\ i = req[r].item) \/ UpdateItem(r)
  BY <1>6, OneItemWritten
<1> QED
  BY <1>3, <1>4, <1>5, <1>6, StartReads, OutsideLeavesItems DEF Next, vars

LEMMA PutIdStays ==
    ASSUME TypeInv, FenceHolds, NumberedAreSettled, IdsAreIndexes, [Next]_vars,
           never({"straddle", "late"}), NEW r \in inFlight', req'[r].kind = "put",
           req'[r].was # None, req'[r].was.chainId # None
    PROVE  \E c \in Collections, i \in Items, id \in Nat :
               /\ req'[r].was.place = c /\ req'[r].item = i /\ req'[r].was.chainId = id
               /\ IsIdOf(i, id, c)'
<1> USE DEF TypeInv
<1>1. \A c \in Collections, i \in Items, id \in Nat : IsIdOf(i, id, c) => IsIdOf(i, id, c)'
  BY IdStays
<1>2. r \in Requests /\ Regular
  BY DEF inFlight, Regular, never
<1>3. CASE (r \in inFlight /\ req'[r] = req[r]) \/ Step(r)
  <2>1. /\ r \in inFlight /\ req[r].kind = "put" /\ req'[r].was = req[r].was
        /\ req'[r].item = req[r].item
    BY <1>2, <1>3, StepKeeps DEF inFlight
  <2>2. req[r].was \in ItemRows /\ req[r].item \in Items
    BY <2>1, <1>2 DEF Typed, LocalsFit, Locals, OrNone, IsShaped, PutIsShaped
  <2>3. req[r].was.place # None
    BY <1>2, <2>1 DEF NumberedAreSettled, PutIsSettled
  <2>4. PICK c \in Collections, i \in Items, id \in Nat :
            req[r].was.place = c /\ req[r].item = i /\ req[r].was.chainId = id
    BY <2>1, <2>2, <2>3 DEF ItemRows
  <2>5. IsIdOf(i, id, c)
    BY <2>1, <2>4 DEF IdsAreIndexes, PutHasId
  <2> QED
    BY <1>1, <2>1, <2>4, <2>5
<1>4. CASE Start(r)
  <2>1. IsStarted(req'[r])
    BY <1>2, <1>4, StartSets
  <2>2. PICK i \in Items : req'[r].item = i /\ items[i] # None /\ req'[r].was = items[i]
    BY <2>1 DEF IsStarted
  <2>3. items[i] \in ItemRows /\ items[i].place # None
    BY <1>2, <2>2 DEF Typed, OrNone, NumberedAreSettled
  <2>4. PICK c \in Collections, id \in Nat : items[i].place = c /\ items[i].chainId = id
    BY <2>2, <2>3 DEF ItemRows
  <2>5. IsIdOf(i, id, c)
    BY <2>2, <2>4 DEF IdsAreIndexes
  <2> QED
    BY <1>1, <2>2, <2>4, <2>5
<1> QED
  BY <1>3, <1>4, RequestsMove

LEMMA PublishIdsStay ==
    ASSUME TypeInv, FenceHolds, ChainHolds, NumberedAreSettled, IdsAreIndexes, [Next]_vars,
           never({"straddle", "late"}), NEW r \in inFlight', req'[r].kind = "publish",
           req'[r].pc = "updates"
    PROVE  \E c \in Collections :
               req'[r].home = c /\ \A u \in req'[r].todo : IsIdOf(u[1], u[2], c)'
<1> USE DEF TypeInv
<1>1. ASSUME NEW c \in Collections, NEW todo, \A u \in todo : IsIdOf(u[1], u[2], c)
      PROVE  \A u \in todo : IsIdOf(u[1], u[2], c)'
  BY <1>1, IdStays
<1>2. r \in Requests /\ r \in inFlight' /\ Regular
  BY DEF inFlight, Regular, never
<1>3. ASSUME r \in inFlight, req[r].kind = "publish", req[r].pc = "updates",
             req'[r].home = req[r].home, req'[r].todo \subseteq req[r].todo
      PROVE  \E c \in Collections :
                 req'[r].home = c /\ \A u \in req'[r].todo : IsIdOf(u[1], u[2], c)'
  <2>1. PICK c \in Collections : c = req[r].home
    BY <1>3 DEF Typed, LocalsFit, IsShaped, PublishIsShaped
  <2>2. PICK todo : todo = req[r].todo
    OBVIOUS
  <2>3. \A u \in todo : IsIdOf(u[1], u[2], c)
    BY <1>3, <2>1, <2>2 DEF IdsAreIndexes, PublishHasIds
  <2>4. \A u \in todo : IsIdOf(u[1], u[2], c)'
    BY <1>1, <2>3
  <2> QED
    BY <1>3, <2>1, <2>2, <2>4
<1>4. ASSUME AskGraph(r)
      PROVE  \E c \in Collections :
                 req'[r].home = c /\ \A u \in req'[r].todo : IsIdOf(u[1], u[2], c)'
  <2>1. PICK c : c = req[r].home
    OBVIOUS
  <2> DEFINE order == findOrderedByCollectionId(c)
  <2>2. /\ c \in Collections /\ Settled(c) /\ tx[c].status = "indexed"
        /\ req'[r].home = c
        /\ \A u \in req'[r].todo :
              \E k \in 1..Len(order) : k <= Len(tx[c].items) /\ u = <<order[k], k - 1>>
    BY <1>2, <1>4, <2>1, AskGraphNumbers
  <2>3. tx[c] # None /\ tx[c].items = order
    BY <2>2 DEF ChainHolds, Settled, isDeployed
  <2>4. Len(order) \in Nat /\ order \in Seq(Items)
    BY OrderHasItems
  <2>5. PICK todo : todo = req'[r].todo
    OBVIOUS
  <2>6. \A u \in todo : IsIdOf(u[1], u[2], c)
    <3> SUFFICES ASSUME NEW u \in todo PROVE u[2] + 1 \in indexIn(c, u[1])
      BY <2>2, <2>3 DEF IsIdOf
    <3>1. PICK k \in 1..Len(order) : u = <<order[k], k - 1>>
      BY <2>2, <2>5
    <3> HIDE DEF order
    <3>2. u[1] = order[k] /\ u[2] + 1 = k /\ k \in DOMAIN order
      BY <2>4, <3>1
    <3> QED
      BY <2>3, <3>2 DEF indexIn
  <2>7. \A u \in todo : IsIdOf(u[1], u[2], c)'
    BY <1>1, <2>2, <2>6
  <2> QED
    BY <2>2, <2>5, <2>7
<1>5. ~Start(r)
  BY <1>2, StartSets DEF IsStarted
<1> QED
  BY <1>2, <1>3, <1>4, <1>5, RequestsMove, PublishSteps

LEMMA IdsStayIndexes ==
    ASSUME TypeInv, FenceHolds, ChainHolds, NumberedAreSettled, IdsAreIndexes, [Next]_vars
    PROVE  IdsAreIndexes'
<1> SUFFICES ASSUME never({"straddle", "late"})'
             PROVE  /\ \A i \in Items :
                          items'[i] # None /\ items'[i].chainId # None =>
                              \E c \in Collections, id \in Nat :
                                  /\ items'[i].place = c /\ items'[i].chainId = id
                                  /\ IsIdOf(i, id, c)'
                    /\ \A r \in inFlight' : PutHasId(r)' /\ PublishHasIds(r)'
  BY DEF IdsAreIndexes, IsIdOf, indexIn
<1>1. never({"straddle", "late"})
  BY RegularBefore
<1>2. ASSUME NEW r \in inFlight' PROVE PutHasId(r)'
  BY <1>1, PutIdStays DEF PutHasId, IsIdOf, indexIn
<1>3. ASSUME NEW r \in inFlight' PROVE PublishHasIds(r)'
  BY <1>1, PublishIdsStay DEF PublishHasIds, IsIdOf, indexIn
<1> QED
  BY <1>1, <1>2, <1>3, ItemIdsStay

LEMMA IdsAreKept == Spec => []IdsAreIndexes
<1>1. Init => IdsAreIndexes
  <2> SUFFICES ASSUME Init PROVE IdsAreIndexes
    OBVIOUS
  <2>1. inFlight = {}
    BY IdleIsLocals DEF Init, inFlight
  <2>2. \A i \in Items : items[i] # None => items[i].chainId = None
    BY StoredAssumption DEF Init
  <2> QED
    BY <2>1, <2>2 DEF IdsAreIndexes
<1>2. IdsInv /\ IdsAreIndexes /\ [Next]_vars => IdsAreIndexes'
  BY IdsStayIndexes DEF IdsInv, FenceInv
<1> QED
  BY <1>1, <1>2, NumberedItemsAreSettled, PTL DEF Spec

\* The id an item is given is its place in the contract, though the server counts
\* the items long after the client has sent them (publishDCLCollection).
THEOREM IdsAreOfTheChain == Spec => []IdsMatchChain
<1>1. IdsAreIndexes => IdsMatchChain
  BY DEF IdsAreIndexes, IdsMatchChain, IsIdOf, itemsIn
<1> QED
  BY <1>1, IdsAreKept, PTL

-----------------------------------------------------------------------------
(* The topics and their links.                                             *)

\* A topic without its link is about to be linked by the post that made it.
TopicsHold ==
    never({"unlinked"}) =>
        \A c \in stored :
            c \in topics /\ c \notin links =>
                \E r \in inFlight :
                    req[r].kind = "post" /\ req[r].pc = "link" /\ req[r].home = c

LEMMA LinkPostSets ==
    ASSUME Typed, NEW r \in Requests, LinkPost(r)
    PROVE  /\ r \in inFlight /\ req[r].kind = "post" /\ req[r].pc = "link"
           /\ req[r].home \in Collections
           /\ UNCHANGED <<collections, topics>>
           /\ \/ links' = IF collections[req[r].home] = None THEN links
                          ELSE links \cup {req[r].home}
              \/ UNCHANGED links /\ "unlinked" \in mishaps'
<1>1. r \in inFlight /\ req[r].kind = "post" /\ req[r].pc = "link"
  BY DEF LinkPost, at, inFlight
<1>2. req[r].home \in Collections /\ req[r].link
  BY <1>1 DEF Typed, LocalsFit, IsShaped, PostIsShaped
<1> QED
  BY <1>1, <1>2 DEF LinkPost, written, note, rows

\* The steps that write links or topics.
LEMMA LinkWriters ==
    ASSUME [Next]_vars
    PROVE  \/ UNCHANGED <<links, topics>>
           \/ \E r \in Requests :
                 WriteCollection(r) \/ Drop(r) \/ CreatePost(r) \/ LinkPost(r)
<1>1. ASSUME NEW r \in Requests, Step(r)
      PROVE  UNCHANGED <<links, topics>> \/ WriteCollection(r) \/ Drop(r) \/ CreatePost(r)
             \/ LinkPost(r)
  BY <1>1 DEF Step, ReadSaved, CheckSaved, CheckDrop, ReadRemoved, CheckRemoved, RemoveItem,
              ReadCollections, CheckPut, WriteItem, FindItems, AskGraph, UpdateItem, outside
<1>2. ASSUME NEW c, External(c) PROVE UNCHANGED <<links, topics>>
  BY <1>2 DEF External, Lock, SendTransaction, Mine, Index, Expire, outside
<1> QED
  BY <1>1, <1>2, StartReads DEF Next, vars

LEMMA NoneIsStoredAlone ==
    ASSUME Typed, [Next]_vars, NEW c \in Collections, collections[c] = None,
           collections'[c] # None
    PROVE  \E r \in Requests : WriteCollection(r) /\ req[r].home = c
<1>1. ASSUME NEW r \in Requests, WriteCollection(r), req[r].home # c PROVE FALSE
  BY <1>1 DEF WriteCollection, Typed
<1>2. ASSUME NEW r \in Requests, Drop(r) PROVE FALSE
  BY <1>2 DEF Drop, Typed
<1>3. ASSUME NEW d \in Deployable, Lock(d) \/ Expire(d) PROVE FALSE
  BY <1>3 DEF Lock, Expire, Typed
<1> QED
  BY <1>1, <1>2, <1>3, CollectionWriters

\* A request in flight waits until its own step.
LEMMA OthersWait ==
    ASSUME Typed, [Next]_vars, NEW r \in inFlight
    PROVE  (r \in inFlight' /\ req'[r] = req[r]) \/ Step(r)
<1>1. ASSUME NEW q \in Requests, Start(q) \/ Step(q)
      PROVE  (r \in inFlight' /\ req'[r] = req[r]) \/ Step(r)
  BY <1>1, StartSets, StepKeeps DEF inFlight
<1>2. CASE \E d \in Deployable : External(d)
  BY <1>2, OutsideLeavesItems DEF inFlight
<1>3. CASE UNCHANGED vars
  BY <1>3 DEF vars, inFlight
<1> QED
  BY <1>1, <1>2, <1>3 DEF Next

LEMMA TopicsStay ==
    ASSUME TypeInv, TopicsHold, [Next]_vars
    PROVE  TopicsHold'
<1> USE DEF TypeInv
<1> SUFFICES ASSUME never({"unlinked"})', NEW c \in Collections, collections'[c] # None,
                    c \in topics', c \notin links'
             PROVE  \E r \in inFlight' :
                        req'[r].kind = "post" /\ req'[r].pc = "link" /\ req'[r].home = c
  BY DEF TopicsHold, stored
<1>1. never({"unlinked"}) /\ "unlinked" \notin mishaps'
  BY RegularBefore DEF never
<1>2. ASSUME NEW r \in Requests, WriteCollection(r), req[r].home = c
      PROVE  c \in topics /\ c \notin links /\ collections[c] # None
  BY <1>1, <1>2 DEF WriteCollection, note, written
<1>3. ASSUME NEW r \in Requests, WriteCollection(r), req[r].home # c
      PROVE  c \in topics /\ c \notin links /\ collections[c] # None
  BY <1>3 DEF WriteCollection, written, Typed
<1>4. ASSUME NEW r \in Requests, Drop(r)
      PROVE  c \in topics /\ c \notin links /\ collections[c] # None
  BY <1>4 DEF Drop, Typed
<1>5. ASSUME NEW r \in Requests, CreatePost(r)
      PROVE  \/ c \in topics /\ c \notin links /\ collections[c] # None
             \/ \E q \in inFlight' :
                   req'[q].kind = "post" /\ req'[q].pc = "link" /\ req'[q].home = c
  <2>1. UNCHANGED <<links, collections>>
    BY <1>5 DEF CreatePost, rows
  <2>2. CASE c \in topics
    BY <2>1, <2>2
  <2>3. CASE c \notin topics
    <3>1. /\ c = req[r].home /\ req[r].kind = "post"
          /\ req' = [req EXCEPT ![r].pc = "link", ![r].link = TRUE]
      BY <1>5, <2>3 DEF CreatePost, at
    <3>2. req[r] \in Locals /\ req \in [Requests -> Locals]
      BY DEF Typed, LocalsFit
    <3>3. req'[r].kind = "post" /\ req'[r].pc = "link" /\ req'[r].home = c
      BY <3>1, <3>2 DEF Locals
    <3> QED
      BY <3>3 DEF inFlight
  <2> QED
    BY <2>2, <2>3
<1>6. ASSUME NEW r \in Requests, LinkPost(r)
      PROVE  c \in topics /\ c \notin links /\ collections[c] # None
  BY <1>1, <1>6, LinkPostSets
<1>7. ASSUME UNCHANGED <<links, topics>>
      PROVE  c \in topics /\ c \notin links /\ collections[c] # None
  BY <1>2, <1>7, NoneIsStoredAlone
<1>8. ASSUME c \in topics, c \notin links, collections[c] # None
      PROVE  \E q \in inFlight' :
                 req'[q].kind = "post" /\ req'[q].pc = "link" /\ req'[q].home = c
  <2>1. PICK r \in inFlight : req[r].kind = "post" /\ req[r].pc = "link" /\ req[r].home = c
    BY <1>1, <1>8 DEF TopicsHold, stored
  <2>2. r \in Requests
    BY DEF inFlight
  <2>3. ~Step(r)
    <3>1. ~LinkPost(r)
      BY <1>1, <1>8, <2>1, <2>2, LinkPostSets
    <3> QED
      BY <2>1, <3>1 DEF Step, ReadSaved, CheckSaved, WriteCollection, CheckDrop, Drop,
            ReadRemoved, CheckRemoved, RemoveItem, ReadCollections, CheckPut, WriteItem,
            FindItems, AskGraph, UpdateItem, CreatePost, at
  <2>4. r \in inFlight' /\ req'[r] = req[r]
    BY <2>3, OthersWait
  <2> QED
    BY <2>1, <2>4
<1> QED
  BY <1>2, <1>3, <1>4, <1>5, <1>6, <1>7, <1>8, LinkWriters

\* Once the posts are answered a topic is linked, whichever of two that raced it
\* is (ForumRouter.post stores the link after the forum has answered).
THEOREM TopicsAreLinked == Spec => []TopicIsLinked
<1>1. Init => TopicsHold
  BY DEF Init, TopicsHold
<1>2. TypeInv /\ TopicsHold /\ [Next]_vars => TopicsHold'
  BY TopicsStay
<1>3. TopicsHold => TopicIsLinked
  BY DEF TopicsHold, TopicIsLinked
<1> QED
  BY <1>1, <1>2, <1>3, TypesHold, PTL DEF Spec

\* Once its contract is deployed no save loses the link of a collection to its
\* topic: those that were let through before the lock have ended.
THEOREM LinksOfContractsStay == Spec => PostStaysLinked
<1> DEFINE Kept == \A c \in stored :
                       /\ c \in links /\ isDeployed(c, collections[c].data)
                       /\ never({"straddle", "late"}) /\ collections'[c] # None
                       => c \in links'
<1>1. FenceInv /\ [Next]_vars => Kept
  <2> SUFFICES ASSUME FenceInv, [Next]_vars, NEW c \in stored, c \in links,
                      isDeployed(c, collections[c].data), never({"straddle", "late"}),
                      collections'[c] # None
               PROVE  c \in links'
    OBVIOUS
  <2>1. c \in Collections /\ Fenced(c) /\ Regular /\ Typed
    BY DEF stored, Fenced, Regular, never, FenceInv, TypeInv
  <2>2. ASSUME NEW r \in Requests, WriteCollection(r) PROVE c \in links'
    <3>1. r \in inFlight /\ req[r].kind = "save" /\ req[r].pc = "write"
      BY <2>2 DEF WriteCollection, at, inFlight
    <3>2. req[r].home # c
      BY <2>1, <3>1 DEF FenceInv, FenceHolds, Holds, SaveHolds
    <3> QED
      BY <2>2, <3>2 DEF WriteCollection, written
  <2>3. ASSUME NEW r \in Requests, Drop(r) PROVE c \in links'
    BY <2>1, <2>3 DEF Drop, Typed
  <2>4. ASSUME NEW r \in Requests, CreatePost(r) PROVE c \in links'
    BY <2>4 DEF CreatePost
  <2>5. ASSUME NEW r \in Requests, LinkPost(r) PROVE c \in links'
    BY <2>1, <2>5, LinkPostSets
  <2> QED
    BY <2>2, <2>3, <2>4, <2>5, LinkWriters
<1> QED
  BY <1>1, FenceIsKept, PTL DEF Spec, PostStaysLinked

-----------------------------------------------------------------------------
(* The owners of the items, when requests do not overlap.                  *)

IsDeleting(r, c) == req[r].kind = "drop" /\ req[r].pc = "delete" /\ req[r].home = c

\* An item without its collection is about to be deleted after it.
ItemsAreOwned ==
    \A i \in Items : \A c \in Collections :
        items[i] # None /\ items[i].place = c =>
            /\ collections[c] # None => collections[c].owner = items[i].owner
            /\ collections[c] = None => \E r \in inFlight : IsDeleting(r, c)

HasOwnerOf(row, c) == row # None /\ collections[c] # None /\ collections[c].owner = row.owner

\* What an edit has read is as it is stored, so what it was checked for holds.
PutIsOwned(r) ==
    req[r].kind = "put" =>
        /\ req[r].was = items[req[r].item]
        /\ req[r].pc = "check" =>
              /\ req[r].home # None => HasOwnerOf(req[r].row, req[r].home)
              /\ hasDest(r) => HasOwnerOf(req[r].dest, req[r].place)
        /\ req[r].pc = "write" /\ req[r].place # None =>
              /\ collections[req[r].place] # None
              /\ collections[req[r].place].owner = ownerOf(r)
SaveIsOwned(r) ==
    req[r].kind = "save" /\ collections[req[r].home] # None =>
        collections[req[r].home].owner = req[r].user
DropIsDone(r) ==
    IsDeleting(r, req[r].home) /\ "items" \notin req[r].todo => itemsIn(req[r].home) = {}

OwnersHold ==
    Alone /\ ~MayFail =>
        /\ ItemsAreOwned
        /\ \A r \in inFlight : PutIsOwned(r) /\ SaveIsOwned(r) /\ DropIsDone(r)

LEMMA OneRequest == ASSUME Alone, NEW r \in Requests PROVE Requests = {r}
<1>1. PICK q : Requests = {q}
  BY FS_Singleton, StoredAssumption DEF Alone
<1> QED
  BY <1>1

\* Alone, a request moves by its own steps or not at all.
LEMMA AloneMoves ==
    ASSUME Typed, Alone, [Next]_vars, NEW r \in Requests
    PROVE  Start(r) \/ Step(r) \/ UNCHANGED <<items, clock, req>>
  BY OneRequest, OutsideLeavesItems DEF Next, vars

LEMMA OwnersStayOwners ==
    ASSUME Typed, \A r \in inFlight : SaveIsOwned(r), [Next]_vars, NEW c \in Collections,
           collections[c] # None, collections'[c] # None
    PROVE  collections'[c].owner = collections[c].owner
<1>1. ASSUME NEW r \in Requests, WriteCollection(r)
      PROVE  collections'[c].owner = collections[c].owner
  <2>1. r \in inFlight /\ req[r].kind = "save"
    BY <1>1 DEF WriteCollection, at, inFlight
  <2>2. CASE req[r].home = c
    <3>1. collections'[c].owner = req[r].user
      BY <1>1, <2>2 DEF WriteCollection, Typed
    <3> QED
      BY <2>1, <2>2, <3>1 DEF SaveIsOwned
  <2>3. CASE req[r].home # c
    BY <1>1, <2>3 DEF WriteCollection, Typed
  <2> QED
    BY <2>2, <2>3
<1>2. ASSUME NEW r \in Requests, Drop(r)
      PROVE  collections'[c].owner = collections[c].owner
  BY <1>2 DEF Drop, Typed
<1>3. ASSUME NEW d \in Deployable, Lock(d) \/ Expire(d)
      PROVE  collections'[c].owner = collections[c].owner
  <2>1. d \in Collections /\ collections[d] # None
    BY <1>3, StandardAssumption DEF Lock, Expire
  <2>2. PICK lock \in {"active", "expired"} :
            collections' = [collections EXCEPT ![d].lock = lock]
    BY <1>3 DEF Lock, Expire
  <2> QED
    BY <2>1, <2>2, SetLockSets
<1> QED
  BY <1>1, <1>2, <1>3, CollectionWriters

LEMMA OnlyDropsTakeRows ==
    ASSUME Typed, [Next]_vars, NEW c \in Collections, collections[c] # None,
           collections'[c] = None
    PROVE  \E r \in Requests : Drop(r) /\ IsDeleting(r, c)
<1>1. ASSUME NEW r \in Requests, WriteCollection(r) PROVE FALSE
  <2>1. req[r].user \in Users /\ req[r].data \in Data /\ req[r].home \in Collections
    BY <1>1 DEF WriteCollection, at, Typed, LocalsFit, inFlight, IsShaped, SaveIsShaped
  <2>2. keptLock(req[r].home) \in {"none", "active", "expired"}
    BY <2>1 DEF keptLock, Typed, OrNone, CollectionRows
  <2>3. [owner |-> req[r].user, lock |-> keptLock(req[r].home), data |-> req[r].data]
        \in CollectionRows
    BY <2>1, <2>2 DEF CollectionRows
  <2> QED
    BY <1>1, <2>3, StoredAssumption DEF WriteCollection, Typed
<1>2. ASSUME NEW r \in Requests, Drop(r) PROVE IsDeleting(r, c)
  BY <1>2 DEF Drop, IsDeleting, at, Typed
<1>3. ASSUME NEW d \in Deployable, Lock(d) \/ Expire(d) PROVE FALSE
  <2>1. d \in Collections /\ collections[d] # None
    BY <1>3, StandardAssumption DEF Lock, Expire
  <2>2. PICK lock \in {"active", "expired"} :
            collections' = [collections EXCEPT ![d].lock = lock]
    BY <1>3 DEF Lock, Expire
  <2> QED
    BY <2>1, <2>2, SetLockSets
<1> QED
  BY <1>1, <1>2, <1>3, CollectionWriters

\* As long as an item is left, the deletion of its collection goes on.
LEMMA DeletionGoesOn ==
    ASSUME Typed, ~MayFail, NEW r \in Requests, Drop(r), NEW c \in Collections,
           IsDeleting(r, c), DropIsDone(r), NEW i \in itemsIn(c), items'[i] # None
    PROVE  r \in inFlight' /\ IsDeleting(r, c)'
<1>1. /\ req[r] \in Locals /\ req \in [Requests -> Locals] /\ r \in inFlight
      /\ req[r].todo \in SUBSET Deletes
  BY DEF Typed, LocalsFit, Drop, at, inFlight, IsShaped, DropIsShaped, Deletes
<1>2. "items" \in req[r].todo
  BY DEF DropIsDone, IsDeleting
<1>3. PICK what \in req[r].todo :
          /\ IF req[r].todo = {what} THEN answer(r)
             ELSE req' = [req EXCEPT ![r].todo = @ \ {what}]
          /\ \/ what = "collection"
             \/ /\ what = "items"
                /\ items' = [j \in Items |-> IF j \in itemsIn(req[r].home) THEN None
                                             ELSE items[j]]
  BY DEF Drop
<1>4. what # "items"
  BY <1>3 DEF IsDeleting, itemsIn
<1>5. req' = [req EXCEPT ![r].todo = @ \ {what}]
  BY <1>2, <1>3, <1>4
<1>6. req'[r].kind = req[r].kind /\ req'[r].pc = req[r].pc /\ req'[r].home = req[r].home
  BY <1>1, <1>5 DEF Locals
<1> QED
  BY <1>6 DEF IsDeleting, inFlight

\* An item that is not written anew keeps its owner and its place.
LEMMA OthersKeepOwner ==
    ASSUME Typed, [Next]_vars, NEW i \in Items, items'[i] # None
    PROVE  \/ /\ items[i] # None /\ items'[i].owner = items[i].owner
              /\ items'[i].place = items[i].place
           \/ \E r \in Requests : WriteItem(r) /\ i = req[r].item
<1>1. CASE items'[i] = items[i]
  BY <1>1
<1>2. ASSUME NEW r \in Requests, UpdateItem(r), items'[i] # items[i]
      PROVE  /\ items[i] # None /\ items'[i].owner = items[i].owner
             /\ items'[i].place = items[i].place
  <2>1. PICK u \in req[r].todo :
            /\ u[1] \in Items /\ items[u[1]] # None
            /\ items' = [items EXCEPT ![u[1]].chainId = u[2]]
    BY <1>2, UpdateItemWrites
  <2>2. i = u[1] /\ items[i] \in ItemRows
    BY <1>2, <2>1 DEF Typed, OrNone
  <2> QED
    BY <2>1, <2>2 DEF Typed, ItemRows
<1> QED
  BY <1>1, <1>2, OneItemWritten, StartReads, OutsideLeavesItems DEF Next, vars

LEMMA OwnedItemsStay ==
    ASSUME TypeInv, OwnersHold, Alone, ~MayFail, [Next]_vars
    PROVE  ItemsAreOwned'
<1> USE DEF TypeInv
<1> SUFFICES ASSUME NEW i \in Items, NEW c \in Collections, items'[i] # None,
                    items'[i].place = c
             PROVE  /\ collections'[c] # None => collections'[c].owner = items'[i].owner
                    /\ collections'[c] = None => \E r \in inFlight' : IsDeleting(r, c)'
  BY DEF ItemsAreOwned
<1>1. c # None
  BY StandardAssumption
<1>2. ASSUME NEW r \in Requests, WriteItem(r), i = req[r].item
      PROVE  collections'[c] # None /\ collections'[c].owner = items'[i].owner
  <2>1. /\ r \in inFlight /\ req[r].kind = "put" /\ req[r].pc = "write"
        /\ UNCHANGED collections
        /\ items'[i].owner = ownerOf(r) /\ items'[i].place = req[r].place
    BY <1>2 DEF WriteItem, at, inFlight, Typed
  <2>2. collections[c] # None /\ collections[c].owner = ownerOf(r)
    BY <1>1, <2>1 DEF OwnersHold, PutIsOwned
  <2> QED
    BY <2>1, <2>2
<1>3. ASSUME items[i] # None, items[i].place = c, items'[i].owner = items[i].owner,
             collections[c] # None
      PROVE  /\ collections'[c] # None => collections'[c].owner = items'[i].owner
             /\ collections'[c] = None => \E r \in inFlight' : IsDeleting(r, c)'
  <2>1. collections[c].owner = items[i].owner
    BY <1>3 DEF OwnersHold, ItemsAreOwned
  <2>2. collections'[c] # None => collections'[c].owner = collections[c].owner
    BY <1>3, OwnersStayOwners DEF OwnersHold
  <2>3. ASSUME collections'[c] = None PROVE \E r \in inFlight' : IsDeleting(r, c)'
    <3>1. PICK r \in Requests : Drop(r) /\ IsDeleting(r, c)
      BY <1>3, <2>3, OnlyDropsTakeRows
    <3>2. r \in inFlight
      BY <3>1 DEF IsDeleting, inFlight
    <3>3. DropIsDone(r) /\ i \in itemsIn(c)
      BY <1>3, <3>2 DEF OwnersHold, itemsIn
    <3> QED
      BY <3>1, <3>3, DeletionGoesOn
  <2> QED
    BY <1>3, <2>1, <2>2, <2>3
<1>4. ASSUME items[i] # None, items[i].place = c, collections[c] = None
      PROVE  collections'[c] = None /\ \E r \in inFlight' : IsDeleting(r, c)'
  <2>1. PICK r \in inFlight : IsDeleting(r, c)
    BY <1>4 DEF OwnersHold, ItemsAreOwned
  <2>2. r \in Requests /\ Requests = {r}
    BY <2>1, OneRequest DEF inFlight
  <2>3. collections'[c] = None
    <3> SUFFICES ASSUME collections'[c] # None PROVE FALSE
      OBVIOUS
    <3>1. WriteCollection(r)
      BY <1>4, <2>2, NoneIsStoredAlone
    <3> QED
      BY <2>1, <3>1 DEF WriteCollection, at, IsDeleting
  <2>4. CASE r \in inFlight' /\ req'[r] = req[r]
    BY <2>1, <2>3, <2>4 DEF IsDeleting
  <2>5. CASE Step(r)
    <3>1. Drop(r)
      BY <2>1, <2>5 DEF IsDeleting, Step, ReadSaved, CheckSaved, WriteCollection, CheckDrop,
            ReadRemoved, CheckRemoved, RemoveItem, ReadCollections, CheckPut, WriteItem,
            FindItems, AskGraph, UpdateItem, CreatePost, LinkPost, at
    <3>2. DropIsDone(r) /\ i \in itemsIn(c)
      BY <1>4, <2>1 DEF OwnersHold, itemsIn
    <3> QED
      BY <2>1, <2>2, <2>3, <3>1, <3>2, DeletionGoesOn
  <2> QED
    BY <2>4, <2>5, OthersWait
<1> QED
  BY <1>2, <1>3, <1>4, OthersKeepOwner

LEMMA SaveStaysOwned ==
    ASSUME TypeInv, OwnersHold, Alone, ~MayFail, [Next]_vars, NEW r \in inFlight',
           req'[r].kind = "save"
    PROVE  SaveIsOwned(r)'
<1> USE DEF TypeInv
<1>1. r \in Requests /\ r \in inFlight' /\ req'[r].pc # "idle" /\ Requests = {r}
  BY OneRequest DEF inFlight
<1>2. CASE Start(r)
  <2>1. UNCHANGED collections /\ IsStarted(req'[r])
    BY <1>1, <1>2, StartReads, StartSets
  <2> QED
    BY <2>1 DEF IsStarted, SaveIsOwned
<1>3. CASE Step(r) \/ UNCHANGED <<items, clock, req>>
  <2>1. /\ r \in inFlight /\ req[r] \in Locals /\ req \in [Requests -> Locals]
        /\ req[r].kind = "save" /\ req'[r].user = req[r].user
    BY <1>1, <1>3, StepKeeps DEF Typed, LocalsFit, inFlight
  <2>2. ~answer(r)
    BY <1>1, <2>1, IdleIsLocals DEF answer
  <2>3. req'[r].home = req[r].home /\ ~WriteCollection(r)
    <3>1. CASE ReadSaved(r)
      BY <2>1, <3>1 DEF ReadSaved, WriteCollection, at, Locals
    <3>2. CASE CheckSaved(r)
      <4> DEFINE here == [[req[r] EXCEPT !.row = None] EXCEPT !.pc = "write"]
      <4>1. req' = [req EXCEPT ![r] = here]
        BY <2>2, <3>2 DEF CheckSaved, goOnIf
      <4>2. here.home = req[r].home
        BY <2>1 DEF Locals
      <4> QED
        BY <2>1, <2>2, <4>1, <4>2 DEF WriteCollection
    <3>3. CASE UNCHANGED <<items, clock, req>>
      BY <1>1, <2>1, <2>2, <3>3 DEF WriteCollection
    <3> QED
      BY <1>3, <2>1, <2>2, <3>1, <3>2, <3>3 DEF Step, WriteCollection, CheckDrop, Drop,
         ReadRemoved, CheckRemoved, RemoveItem, ReadCollections, CheckPut, WriteItem,
         FindItems, AskGraph, UpdateItem, CreatePost, LinkPost, at
  <2>4. PICK c \in Collections : c = req[r].home
    BY <2>1 DEF Typed, LocalsFit, IsShaped, SaveIsShaped
  <2>5. collections'[c] # None => collections[c] # None
    BY <1>1, <2>3, NoneIsStoredAlone
  <2>6. collections'[c] # None => collections'[c].owner = req[r].user
    BY <2>1, <2>4, <2>5, OwnersStayOwners DEF OwnersHold, SaveIsOwned
  <2> QED
    BY <2>1, <2>3, <2>4, <2>6 DEF SaveIsOwned
<1> QED
  BY <1>1, <1>2, <1>3, AloneMoves

LEMMA DropStaysDone ==
    ASSUME TypeInv, OwnersHold, Alone, ~MayFail, [Next]_vars, NEW r \in inFlight',
           req'[r].kind = "drop", req'[r].pc = "delete"
    PROVE  DropIsDone(r)'
<1> USE DEF TypeInv
<1>1. r \in Requests /\ r \in inFlight' /\ Requests = {r}
  BY OneRequest DEF inFlight
<1>2. CASE UNCHANGED <<items, clock, req>>
  <2>1. DropIsDone(r)
    BY <1>1, <1>2 DEF OwnersHold, inFlight
  <2> QED
    BY <1>2, <2>1 DEF DropIsDone, IsDeleting, itemsIn
<1>3. ~Start(r)
  BY <1>1, StartSets DEF IsStarted
<1>4. CASE Step(r)
  <2>1. /\ r \in inFlight /\ req[r] \in Locals /\ req \in [Requests -> Locals]
        /\ req[r].kind = "drop"
    BY <1>1, <1>4, StepKeeps DEF Typed, LocalsFit, inFlight
  <2>2. ~answer(r)
    BY <1>1, <2>1, IdleIsLocals DEF answer, inFlight
  <2>3. DropIsDone(r)
    BY <2>1 DEF OwnersHold
  <2>4. CASE CheckDrop(r)
    <3>1. req' = [req EXCEPT ![r].pc = "delete", ![r].todo = {"collection", "items"}]
      BY <2>2, <2>4 DEF CheckDrop
    <3>2. req'[r].todo = {"collection", "items"}
      BY <1>1, <2>1, <3>1 DEF Locals
    <3> QED
      BY <3>2 DEF DropIsDone
  <2>5. CASE Drop(r)
    <3>1. PICK what \in req[r].todo :
              /\ req' = [req EXCEPT ![r].todo = @ \ {what}]
              /\ \/ what = "collection" /\ UNCHANGED items
                 \/ /\ what = "items"
                    /\ items' = [j \in Items |-> IF j \in itemsIn(req[r].home) THEN None
                                                 ELSE items[j]]
      BY <2>2, <2>5 DEF Drop
    <3>2. req'[r].home = req[r].home /\ req'[r].todo = req[r].todo \ {what}
      BY <1>1, <2>1, <3>1 DEF Locals
    <3>3. CASE what = "collection"
      <4>1. IsDeleting(r, req[r].home)
        BY <2>1, <2>5 DEF IsDeleting, Drop, at
      <4>2. "items" \notin req'[r].todo => itemsIn(req[r].home) = {}
        BY <2>3, <3>2, <3>3, <4>1 DEF DropIsDone
      <4>3. UNCHANGED items
        BY <3>1, <3>3
      <4> QED
        BY <3>2, <4>2, <4>3 DEF DropIsDone, itemsIn
    <3>4. CASE what = "items"
      <4>1. \A j \in Items : items'[j] # None => items'[j].place # req[r].home
        BY <3>1, <3>4 DEF itemsIn, Typed
      <4> QED
        BY <3>2, <4>1 DEF DropIsDone, itemsIn
    <3> QED
      BY <3>1, <3>3, <3>4
  <2> QED
    BY <1>4, <2>1, <2>4, <2>5 DEF Step, ReadSaved, CheckSaved, WriteCollection, ReadRemoved,
       CheckRemoved, RemoveItem, ReadCollections, CheckPut, WriteItem, FindItems, AskGraph,
       UpdateItem, CreatePost, LinkPost, at
<1> QED
  BY <1>1, <1>2, <1>3, <1>4, AloneMoves

\* What the checks of an edit come to: the item is its collection's owner's.
LEMMA CheckedIsOwned ==
    ASSUME TypeInv, OwnersHold, Alone, ~MayFail, NEW r \in inFlight, CheckPut(r), mayPut(r),
           NEW c \in Collections, req[r].place = c
    PROVE  collections[c] # None /\ collections[c].owner = ownerOf(r)
<1> USE DEF TypeInv
<1>1. /\ r \in Requests /\ req[r] \in Locals /\ req[r].kind = "put" /\ req[r].pc = "check"
      /\ req[r].item \in Items
      /\ req[r].home = IF req[r].was # None /\ req[r].was.place # None THEN req[r].was.place
                       ELSE c
      /\ c # None
  BY StandardAssumption DEF Typed, LocalsFit, inFlight, CheckPut, at, IsShaped, PutIsShaped
<1>2. /\ req[r].was = items[req[r].item]
      /\ req[r].home # None => HasOwnerOf(req[r].row, req[r].home)
      /\ hasDest(r) => HasOwnerOf(req[r].dest, c)
  BY <1>1 DEF OwnersHold, PutIsOwned
<1>3. req[r].was # None => req[r].was.place \in OrNone(Collections)
  BY <1>1 DEF Locals, OrNone, ItemRows
<1>4. HasOwnerOf(req[r].row, req[r].home) /\ req[r].home \in Collections
  BY <1>1, <1>2, <1>3 DEF OrNone
<1>5. \/ req[r].row.owner = req[r].user
      \/ mayChangePublished(r)
  BY <1>4 DEF mayPut, HasOwnerOf
<1>6. CASE isInsert(r)
  BY <1>1, <1>4, <1>5, <1>6 DEF isInsert, mayChangePublished, HasOwnerOf, ownerOf
<1>7. CASE isOrphan(r)
  <2>1. req[r].home = c /\ req[r].row.owner = req[r].user
    BY <1>1, <1>5, <1>7 DEF isOrphan, mayChangePublished
  <2>2. req[r].was.owner = req[r].user /\ req[r].was # None
    BY <1>2, <1>7 DEF isOrphan, isInsert, mayPut
  <2> QED
    BY <1>4, <2>1, <2>2 DEF HasOwnerOf, ownerOf, isInsert
<1>8. CASE ~isInsert(r) /\ ~isOrphan(r)
  <2>1. /\ req[r].was # None /\ req[r].was.place # None /\ ownerOf(r) = req[r].was.owner
        /\ req[r].home = req[r].was.place
    BY <1>1, <1>8 DEF isInsert, isOrphan, ownerOf
  <2>2. PICK d \in Collections : d = req[r].home
    BY <1>4
  <2>3. collections[d] # None /\ collections[d].owner = req[r].was.owner
    BY <1>1, <1>2, <1>4, <2>1, <2>2 DEF OwnersHold, ItemsAreOwned, HasOwnerOf
  <2>4. CASE c = d
    BY <2>1, <2>3, <2>4
  <2>5. CASE c # d
    <3>1. isMovingItemBetweenCollections(r)
      BY <1>1, <1>8, <2>1, <2>2, <2>5 DEF isMovingItemBetweenCollections
    <3>2. req[r].row.owner = req[r].user
      BY <1>5, <3>1 DEF mayChangePublished
    <3>3. HasOwnerOf(req[r].dest, c)
      BY <1>2, <3>1 DEF hasDest
    <3>4. req[r].dest.owner = req[r].user
      BY <3>3 DEF mayPut, HasOwnerOf
    <3> QED
      BY <1>4, <2>1, <2>2, <2>3, <3>2, <3>3, <3>4 DEF HasOwnerOf
  <2> QED
    BY <2>4, <2>5
<1> QED
  BY <1>6, <1>7, <1>8

LEMMA PutStaysOwned ==
    ASSUME TypeInv, OwnersHold, Alone, ~MayFail, [Next]_vars, NEW r \in inFlight',
           req'[r].kind = "put"
    PROVE  PutIsOwned(r)'
<1> USE DEF TypeInv
<1>1. r \in Requests /\ r \in inFlight' /\ Requests = {r}
  BY OneRequest DEF inFlight
<1>2. CASE UNCHANGED <<items, clock, req>>
  <2>1. r \in inFlight /\ req[r].kind = "put" /\ PutIsOwned(r) /\ req[r] \in Locals
    BY <1>1, <1>2 DEF OwnersHold, inFlight, Typed, LocalsFit
  <2>2. \A c \in Collections :
            collections[c] # None =>
                collections'[c] # None /\ collections'[c].owner = collections[c].owner
    BY <2>1, AloneRowStays
  <2>3. hasDest(r)' <=> hasDest(r)
    BY <1>2 DEF hasDest, isMovingItemBetweenCollections, isMovingOrphanItemIntoACollection,
                isOrphan, isInsert
  <2>4. {req[r].home, req[r].place} \subseteq OrNone(Collections)
    BY <2>1 DEF Locals
  <2>5. hasDest(r) => req[r].place # None
    BY DEF hasDest, isMovingItemBetweenCollections, isMovingOrphanItemIntoACollection
  <2> QED
    BY <1>2, <2>1, <2>2, <2>3, <2>4, <2>5 DEF PutIsOwned, HasOwnerOf, ownerOf, isInsert, OrNone
<1>3. CASE Start(r)
  <2>1. UNCHANGED items /\ IsStarted(req'[r])
    BY <1>1, <1>3, StartReads, StartSets
  <2> QED
    BY <2>1 DEF IsStarted, PutIsOwned
<1>4. CASE Step(r)
  <2>1. /\ r \in inFlight /\ req[r] \in Locals /\ req \in [Requests -> Locals]
        /\ req[r].kind = "put" /\ IsShaped(req[r])
        /\ req'[r].was = req[r].was /\ req'[r].item = req[r].item
        /\ req'[r].place = req[r].place /\ req'[r].user = req[r].user
    BY <1>1, <1>4, StepKeeps DEF Typed, LocalsFit, inFlight
  <2>2. ~answer(r)
    BY <1>1, <2>1, IdleIsLocals DEF answer, inFlight
  <2>3. req[r].was = items[req[r].item]
    BY <2>1 DEF OwnersHold, PutIsOwned
  <2>4. CASE ReadCollections(r)
    <3> DEFINE rowOf(c) == IF c = None THEN None ELSE collections[c]
    <3>1. PICK row, dest, manages :
              /\ row = rowOf(req[r].home)
              /\ dest = IF hasDest(r) THEN rowOf(req[r].place) ELSE None
              /\ req' = [req EXCEPT ![r].pc = "check", ![r].row = row, ![r].dest = dest,
                                    ![r].manages = manages]
      BY <2>2, <2>4 DEF ReadCollections
    <3>2. /\ req'[r].home = req[r].home /\ req'[r].pc = "check"
          /\ req'[r].row = row /\ req'[r].dest = dest
      BY <1>1, <2>1, <3>1 DEF Locals
    <3>3. /\ req[r].home = None \/ collections[req[r].home] # None
          /\ hasDest(r) => req[r].place = None \/ collections[req[r].place] # None
      BY <2>2, <2>4 DEF ReadCollections
    <3>4. hasDest(r) => req[r].place # None
      BY DEF hasDest, isMovingItemBetweenCollections, isMovingOrphanItemIntoACollection
    <3>5. hasDest(r)' <=> hasDest(r)
      BY <2>1 DEF hasDest, isMovingItemBetweenCollections, isMovingOrphanItemIntoACollection,
                  isOrphan, isInsert
    <3>6. UNCHANGED <<collections, items>>
      BY <2>4 DEF ReadCollections, rows
    <3> QED
      BY <2>1, <2>3, <3>1, <3>2, <3>3, <3>4, <3>5, <3>6 DEF PutIsOwned, HasOwnerOf
  <2>5. CASE CheckPut(r)
    <3> DEFINE here == [[req[r] EXCEPT !.home = None, !.row = None, !.dest = None,
                                       !.manages = FALSE] EXCEPT !.pc = "write"]
    <3>1. req' = [req EXCEPT ![r] = here] /\ mayPut(r)
      BY <2>2, <2>5 DEF CheckPut, goOnIf
    <3>2. here.pc = "write"
      BY <2>1 DEF Locals
    <3>3. req'[r].pc = "write"
      BY <1>1, <2>1, <3>1, <3>2
    <3>4. ownerOf(r)' = ownerOf(r)
      BY <2>1 DEF ownerOf, isInsert
    <3>5. UNCHANGED <<collections, items>>
      BY <2>5 DEF CheckPut, rows
    <3>6. req[r].place # None =>
              /\ collections[req[r].place] # None
              /\ collections[req[r].place].owner = ownerOf(r)
      <4>1. req[r].place \in OrNone(Collections)
        BY <2>1 DEF Locals
      <4> QED
        BY <2>1, <2>5, <3>1, <4>1, CheckedIsOwned DEF OrNone
    <3> QED
      BY <2>1, <2>3, <3>3, <3>4, <3>5, <3>6 DEF PutIsOwned
  <2> QED
    BY <1>4, <2>1, <2>2, <2>4, <2>5 DEF Step, ReadSaved, CheckSaved, WriteCollection,
       CheckDrop, Drop, ReadRemoved, CheckRemoved, RemoveItem, WriteItem, FindItems, AskGraph,
       UpdateItem, CreatePost, LinkPost, at
<1> QED
  BY <1>1, <1>2, <1>3, <1>4, AloneMoves

LEMMA OwnersStay ==
    ASSUME TypeInv, OwnersHold, [Next]_vars
    PROVE  OwnersHold'
<1> SUFFICES ASSUME Alone, ~MayFail
             PROVE  /\ ItemsAreOwned'
                    /\ \A r \in inFlight' :
                          PutIsOwned(r)' /\ SaveIsOwned(r)' /\ DropIsDone(r)'
  BY DEF OwnersHold, Alone
<1>1. ASSUME NEW r \in inFlight' PROVE PutIsOwned(r)'
  BY PutStaysOwned DEF PutIsOwned
<1>2. ASSUME NEW r \in inFlight' PROVE SaveIsOwned(r)'
  BY SaveStaysOwned DEF SaveIsOwned
<1>3. ASSUME NEW r \in inFlight' PROVE DropIsDone(r)'
  BY DropStaysDone DEF DropIsDone, IsDeleting
<1> QED
  BY <1>1, <1>2, <1>3, OwnedItemsStay

LEMMA OwnersAreKept == Spec => []OwnersHold
<1>1. Init => OwnersHold
  <2> SUFFICES ASSUME Init PROVE OwnersHold
    OBVIOUS
  <2>1. inFlight = {}
    BY IdleIsLocals DEF Init, inFlight
  <2>2. ItemsAreOwned
    BY StandardAssumption, StoredAssumption DEF Init, ItemsAreOwned
  <2> QED
    BY <2>1, <2>2 DEF OwnersHold
<1>2. TypeInv /\ OwnersHold /\ [Next]_vars => OwnersHold'
  BY OwnersStay
<1> QED
  BY <1>1, <1>2, TypesHold, PTL DEF Spec

\* The items of a collection are its owner's, and none is left in a collection that
\* is gone, as long as no requests overlap and no statement fails (mayPut,
\* deleteCollection).
THEOREM ItemsAreOwners == Spec => []ItemsAreTheirCollectionsOwners
<1>1. OwnersHold => ItemsAreTheirCollectionsOwners
  BY DEF OwnersHold, ItemsAreOwned, ItemsAreTheirCollectionsOwners, itemsIn, Alone
<1> QED
  BY <1>1, OwnersAreKept, PTL

-----------------------------------------------------------------------------
(* What the reads tell of the items.                                       *)

\* An item with an id is the item that its contract has at that place.
LEMMA NumberedIsToken ==
    ASSUME TypeInv, ChainHolds, IdsAreIndexes, never({"straddle", "late"}),
           NEW c \in Collections, NEW i \in itemsIn(c), items[i].chainId # None
    PROVE  c \in remotes /\ remoteItem(c, items[i].chainId) = {i}
<1>1. i \in Items /\ items[i] \in ItemRows /\ items[i].place = c
  BY DEF itemsIn, TypeInv, Typed, OrNone
<1>2. PICK id \in Nat : items[i].chainId = id
  BY <1>1 DEF ItemRows
<1>3. IsIdOf(i, id, c)
  BY <1>1, <1>2 DEF IdsAreIndexes, itemsIn
<1>4. /\ tx[c] # None /\ tx[c].status = "indexed"
      /\ id + 1 \in DOMAIN tx[c].items /\ tx[c].items[id + 1] = i
  BY <1>3 DEF IsIdOf, indexIn
<1>5. collections[c] # None /\ collections[c].data = tx[c].data
  BY <1>4 DEF ChainHolds, Fenced
<1>6. c \in remotes
  BY <1>4, <1>5 DEF remotes, stored, isIndexed, isDeployed
<1>7. id # None
  BY <1>2
<1> QED
  BY <1>2, <1>4, <1>6, <1>7 DEF remoteItem

LEMMA TokenIsOfOne ==
    ASSUME TypeInv, ChainHolds, IdsAreIndexes, never({"straddle", "late"}),
           NEW c \in stored, NEW i \in itemsIn(c), items[i].chainId # None
    PROVE  findByToken(c, items[i].chainId) = {i}
<1>1. c \in Collections
  BY DEF stored
<1>2. ASSUME NEW j \in findByToken(c, items[i].chainId) PROVE j = i
  <2>1. j \in itemsIn(c) /\ items[j].chainId = items[i].chainId
    BY <1>2 DEF findByToken
  <2>2. {j} = {i}
    BY <1>1, <2>1, NumberedIsToken
  <2> QED
    BY <2>2
<1> QED
  BY <1>2 DEF findByToken

\* An item with an id is merged with itself, one without is told as its row is.
LEMMA MergedByNumber ==
    ASSUME TypeInv, ChainHolds, IdsAreIndexes, never({"straddle", "late"}),
           NEW c \in stored, NEW i \in itemsIn(c), NEW found, NEW approved,
           c \in found <=> c \in remotes
    PROVE  /\ mergedItem(i, found, approved) = IF items[i].chainId # None
                                               THEN mergeItem(i, i, approved)
                                               ELSE toFullItem(i)
           /\ mergedItem(i, found, approved).id = i
           /\ mergedItem(i, found, approved).is_published <=> items[i].chainId # None
           /\ mergedItem(i, found, approved).blockchain_item_id = items[i].chainId
           /\ items[i].chainId # None => mergedItem(i, found, approved).token = i
<1>1. c \in Collections /\ items[i].place = c
  BY DEF stored, itemsIn
<1>2. CASE items[i].chainId # None
  <2>1. c \in found /\ remoteItem(c, items[i].chainId) = {i}
    BY <1>1, <1>2, NumberedIsToken
  <2>2. (CHOOSE j \in {i} : TRUE) = i
    OBVIOUS
  <2>3. mergedItem(i, found, approved) = mergeItem(i, i, approved)
    BY <1>1, <2>1, <2>2 DEF mergedItem
  <2>4. /\ mergeItem(i, i, approved).id = i
        /\ mergeItem(i, i, approved).is_published = TRUE
        /\ mergeItem(i, i, approved).blockchain_item_id = items[i].chainId
        /\ mergeItem(i, i, approved).token = i
    BY DEF mergeItem, toFullItem
  <2> QED
    BY <1>2, <2>3, <2>4
<1>3. CASE items[i].chainId = None
  <2>1. mergedItem(i, found, approved) = toFullItem(i)
    BY <1>1, <1>3 DEF mergedItem, remoteItem
  <2>2. /\ toFullItem(i).id = i /\ toFullItem(i).is_published = FALSE
        /\ toFullItem(i).blockchain_item_id = items[i].chainId
    BY DEF toFullItem
  <2> QED
    BY <1>3, <2>1, <2>2
<1> QED
  BY <1>2, <1>3

\* The listing of a collection's items, to the public and to its owner.
LEMMA ListedItems ==
    ASSUME NEW c \in stored, NEW approved
    PROVE  LET listed == getCollectionItems({"owner"}, c, approved)
               public == getCollectionItems(visitor, c, approved)
               merged(i) == mergedItem(i, remotes, approved)
           IN  /\ listed.body = {merged(i) : i \in itemsIn(c)}
               /\ isOk(public) =>
                      public.body = {merged(i) : i \in {i \in itemsIn(c) : items[i].chainId # None}}
<1> DEFINE collection == getDCLCollection(c, approved)
<1>1. canSeeCollection({"owner"}, collection) /\ hasPublicAccess({"owner"}, collection)
  BY DEF canSeeCollection, hasPublicAccess, hasAccess
<1>2. ~canSeeCollection(visitor, collection)
  BY DEF canSeeCollection, isMinter, hasAccess, isManager, visitor
<1> HIDE DEF collection
<1>3. getCollectionItems({"owner"}, c, approved)
        = ok(consolidateItems(itemsIn(c), remotes, approved))
  BY <1>1 DEF getCollectionItems, collection
<1>4. isOk(getCollectionItems(visitor, c, approved)) =>
          getCollectionItems(visitor, c, approved)
            = ok(consolidateItems({i \in itemsIn(c) : items[i].chainId # None}, remotes, approved))
  BY <1>2 DEF getCollectionItems, collection, isOk, failed
<1> QED
  BY <1>3, <1>4 DEF ok, consolidateItems

ItemsToldInv == TypeInv /\ ChainHolds /\ IdsAreIndexes /\ OwnersHold

\* All reads of an item of a collection, against the listing of the collection.
LEMMA ItemViewsAgreeOn ==
    ASSUME ItemsToldInv, Alone, ~MayFail, never({"straddle", "late"}), NEW c \in stored,
           NEW approved \in {{}, {c}}
    PROVE  LET listed == getCollectionItems({"owner"}, c, approved).body
               public == getCollectionItems(visitor, c, approved)
           IN  /\ isOk(public) => public.body = {item \in listed : item.is_published}
               /\ listed \subseteq getItems(reviewer, approved).body
               /\ listed \subseteq getAddressItems(collections[c].owner, approved).body
               /\ \A item \in listed :
                      /\ getItem(reviewer, item.id, approved).body.item = item
                      /\ item.is_published =>
                             /\ item.token = item.id
                             /\ getItemUtility(c, item.blockchain_item_id) = ok(item.id)
                             /\ getItemContents(c, item.blockchain_item_id, approved) = ok(item)
                      /\ ~item.is_published => item.blockchain_item_id = None
<1> USE DEF ItemsToldInv
<1> DEFINE listed == getCollectionItems({"owner"}, c, approved).body
           public == getCollectionItems(visitor, c, approved)
           merged(i) == mergedItem(i, remotes, approved)
<1>1. /\ listed = {merged(i) : i \in itemsIn(c)}
      /\ isOk(public) =>
             public.body = {merged(i) : i \in {i \in itemsIn(c) : items[i].chainId # None}}
  BY ListedItems
<1>2. \A i \in itemsIn(c) :
          /\ merged(i).id = i /\ (merged(i).is_published <=> items[i].chainId # None)
          /\ merged(i).blockchain_item_id = items[i].chainId
          /\ items[i].chainId # None => merged(i).token = i
          /\ items[i].chainId = None => merged(i) = toFullItem(i)
  BY MergedByNumber
<1>3. /\ c \in Collections /\ collections[c] # None /\ c # None
      /\ \A i \in itemsIn(c) : i \in Items /\ items[i] # None /\ items[i].place = c
  BY StandardAssumption DEF stored, itemsIn
<1>4. isOk(public) => public.body = {item \in listed : item.is_published}
  <2> HIDE DEF merged, listed, public
  <2> QED
    BY <1>1, <1>2
<1>5. listed \subseteq getItems(reviewer, approved).body
  BY <1>1, <1>3 DEF getItems, reviewer, ok, consolidateItems
<1>6. listed \subseteq getAddressItems(collections[c].owner, approved).body
  <2> DEFINE user == collections[c].owner
             fetched == fetchCollectionsByAuthorizedUser(user)
  <2>1. c \in fetched <=> c \in remotes
    BY DEF fetchCollectionsByAuthorizedUser
  <2> HIDE DEF fetched
  <2>2. \A i \in itemsIn(c) : merged(i) = mergedItem(i, fetched, approved)
    <3> SUFFICES ASSUME NEW i \in itemsIn(c) PROVE merged(i) = mergedItem(i, fetched, approved)
      OBVIOUS
    <3>1. mergedItem(i, fetched, approved) = IF items[i].chainId # None
                                             THEN mergeItem(i, i, approved) ELSE toFullItem(i)
      BY <2>1, MergedByNumber
    <3>2. mergedItem(i, remotes, approved) = IF items[i].chainId # None
                                             THEN mergeItem(i, i, approved) ELSE toFullItem(i)
      BY MergedByNumber
    <3> QED
      BY <3>1, <3>2
  <2>3. \A i \in itemsIn(c) : items[i].owner = user
    BY <1>3 DEF OwnersHold, ItemsAreOwned
  <2> QED
    BY <1>1, <1>3, <2>2, <2>3 DEF getAddressItems, ok, consolidateItems, fetched
<1>7. ASSUME NEW i \in itemsIn(c) PROVE getDCLItem(i, approved).item = merged(i)
  BY <1>2, <1>3 DEF getDCLItem
<1>8. ASSUME NEW i \in itemsIn(c) PROVE getItem(reviewer, i, approved).body.item = merged(i)
  <2> DEFINE read == getDCLItem(i, approved)
  <2>1. hasPublicItemAccess(reviewer, read.item, read.found)
    BY DEF hasPublicItemAccess, hasItemAccess, reviewer
  <2>2. ~isInconsistent(i) /\ items[i] # None
    BY <1>3 DEF isInconsistent
  <2> HIDE DEF read
  <2>3. getItem(reviewer, i, approved)
          = ok([item |-> read.item, full |-> canSeeItem(reviewer, read.found)])
    BY <2>1, <2>2 DEF getItem, read
  <2> QED
    BY <1>7, <2>3 DEF ok, read
<1>9. ASSUME NEW i \in itemsIn(c), items[i].chainId # None
      PROVE  /\ getItemUtility(c, items[i].chainId) = ok(i)
             /\ getItemContents(c, items[i].chainId, approved) = ok(merged(i))
  <2>1. findByToken(c, items[i].chainId) = {i}
    BY <1>9, TokenIsOfOne
  <2>2. itemByToken(c, items[i].chainId) = i
    BY <2>1 DEF itemByToken
  <2> QED
    BY <1>7, <2>1, <2>2 DEF getItemUtility, getItemContents
<1> HIDE DEF listed, public, merged
<1>10. \A item \in listed : \E i \in itemsIn(c) : item = merged(i)
  BY <1>1
<1>11. \A item \in listed :
          /\ getItem(reviewer, item.id, approved).body.item = item
          /\ item.is_published =>
                 /\ item.token = item.id
                 /\ getItemUtility(c, item.blockchain_item_id) = ok(item.id)
                 /\ getItemContents(c, item.blockchain_item_id, approved) = ok(item)
          /\ ~item.is_published => item.blockchain_item_id = None
  BY <1>2, <1>8, <1>9, <1>10
<1> QED
  BY <1>4, <1>5, <1>6, <1>11 DEF listed, public

\* However an item is read, the answers agree, and what is told of it from the chain is
\* of itself (ItemViewsAgree): the place of an item in the contract, which the server
\* gives it later, is the key of every merge (mergedItem, remoteItem).  As for the
\* owners, requests do not overlap and no statement fails.
THEOREM ItemsAreTold ==
    ASSUME Cardinality(Requests) = 1, ~MayFail PROVE Spec => []ItemViewsAgree
<1>1. IdsInv /\ IdsAreIndexes /\ OwnersHold => ItemViewsAgree
  BY ItemViewsAgreeOn DEF ItemViewsAgree, ItemsToldInv, IdsInv, FenceInv, Alone
<1> QED
  BY <1>1, NumberedItemsAreSettled, IdsAreKept, OwnersAreKept, PTL

-----------------------------------------------------------------------------
(* What the reads tell of the collections.                                 *)

\* A publication gives an id to each item of its collection, and to all of them
\* before it answers: the listings, which go by the ids, may trust any of them.
NumberedTogether(c) ==
    \A i, j \in itemsIn(c) : items[i].chainId # None => items[j].chainId # None
IsNumbering(r, c) ==
    req[r].kind = "publish" /\ req[r].pc = "updates" /\ req[r].home = c
CoversItems(r, c) ==
    \A i \in itemsIn(c) : items[i].chainId = None => \E u \in req[r].todo : u[1] = i

Orderly == Alone /\ ~MayFail /\ never({"straddle", "late"})

NumberedAsOne ==
    Orderly =>
        \A c \in Collections :
            /\ NumberedTogether(c) \/ \E r \in inFlight : IsNumbering(r, c)
            /\ \A r \in inFlight : IsNumbering(r, c) => CoversItems(r, c)

\* An item that is brought to a collection has no id, nor has any item there.
LEMMA WriteStaysTogether ==
    ASSUME TypeInv, FenceHolds, NumberedAreSettled, OwnersHold, Orderly, NEW r \in Requests,
           WriteItem(r), NEW c \in Collections, NumberedTogether(c)
    PROVE  NumberedTogether(c)'
<1> USE DEF TypeInv
<1>1. /\ r \in inFlight /\ req[r].kind = "put" /\ req[r].pc = "write"
      /\ req[r].item \in Items /\ Regular /\ c # None
  BY WriteItemWrites, StandardAssumption DEF WriteItem, at, Orderly, Regular, never
<1>2. PICK row \in ItemRows :
          /\ items' = [items EXCEPT ![req[r].item] = row]
          /\ row.place = req[r].place
          /\ req[r].was = None => row.chainId = None
          /\ req[r].was # None => row.chainId = req[r].was.chainId
  BY WriteItemWrites
<1>3. /\ items'[req[r].item] = row
      /\ \A j \in Items : j # req[r].item => items'[j] = items[j]
  BY <1>1, <1>2 DEF Typed
<1>4. req[r].was = items[req[r].item]
  BY <1>1 DEF OwnersHold, Orderly, PutIsOwned
<1>5. CASE row.place # c \/ wasIn(r, c)
  <2>1. \A j \in Items : items'[j] # None /\ items'[j].place = c =>
            j \in itemsIn(c) /\ items'[j].chainId = items[j].chainId
    BY <1>1, <1>2, <1>3, <1>4, <1>5 DEF itemsIn, wasIn
  <2> QED
    BY <2>1 DEF NumberedTogether, itemsIn
<1>6. CASE row.place = c /\ ~wasIn(r, c)
  <2>1. ~Fenced(c)
    BY <1>1, <1>2, <1>6 DEF FenceHolds, Holds, PutHolds
  <2>2. \A j \in itemsIn(c) : items[j].chainId = None
    BY <1>1, <2>1, SettledIsFenced DEF NumberedAreSettled, itemsIn
  <2>3. row.chainId = None
    BY <1>1, <1>3, <1>6, WriteKeepsNumber DEF wasIn
  <2>4. \A j \in Items : items'[j] # None /\ items'[j].place = c => items'[j].chainId = None
    BY <1>3, <2>2, <2>3 DEF itemsIn
  <2> QED
    BY <2>4 DEF NumberedTogether, itemsIn
<1> QED
  BY <1>5, <1>6

\* An update takes its item off the list as it gives it its id.
LEMMA UpdateStaysTogether ==
    ASSUME TypeInv, NumberedAreSettled, NumberedAsOne, Orderly, NEW r \in Requests,
           UpdateItem(r), Requests = {r}, NEW c \in Collections
    PROVE  /\ NumberedTogether(c)' \/ (r \in inFlight' /\ IsNumbering(r, c)')
           /\ r \in inFlight' /\ IsNumbering(r, c)' => CoversItems(r, c)'
<1> USE DEF TypeInv
<1>1. /\ r \in inFlight /\ req[r].kind = "publish" /\ req[r].pc = "updates" /\ Regular
      /\ req[r] \in Locals /\ req \in [Requests -> Locals]
  BY UpdateItemWrites DEF Orderly, Regular, never, Typed, LocalsFit
<1>2. PICK h \in Collections : h = req[r].home
  BY <1>1 DEF Typed, LocalsFit, IsShaped, PublishIsShaped
<1>3. req[r].todo \subseteq Items \X Nat
  BY <1>1 DEF Typed, LocalsFit, IsShaped, PublishIsShaped
<1>4. PICK u \in req[r].todo :
          /\ IF req[r].todo = {u} THEN answer(r)
             ELSE req' = [req EXCEPT ![r].todo = @ \ {u}]
          /\ \/ items[u[1]] # None /\ items' = [items EXCEPT ![u[1]].chainId = u[2]]
             \/ items[u[1]] = None \/ MayFail
  BY DEF UpdateItem
<1>5. u[1] \in Items /\ u[2] \in Nat /\ u[1] \in itemsIn(h)
  BY <1>1, <1>2, <1>3, <1>4 DEF NumberedAreSettled, PublishIsSettled
<1>6. items' = [items EXCEPT ![u[1]].chainId = u[2]] /\ items[u[1]] \in ItemRows
  BY <1>4, <1>5 DEF itemsIn, Orderly, Typed, OrNone
<1>7. /\ items'[u[1]].place = h /\ items'[u[1]].chainId = u[2] /\ items'[u[1]].chainId # None
      /\ \A j \in Items : j # u[1] => items'[j] = items[j]
  <2>1. items'[u[1]].place = items[u[1]].place /\ items'[u[1]].chainId = u[2]
    BY <1>5, <1>6 DEF Typed, ItemRows
  <2>2. u[2] # None
    BY <1>5, StandardAssumption
  <2> QED
    BY <1>5, <1>6, <2>1, <2>2 DEF itemsIn, Typed
<1>8. CASE c # h
  <2>1. \A j \in Items : items'[j] # None /\ items'[j].place = c =>
            j \in itemsIn(c) /\ items'[j] = items[j]
    BY <1>7, <1>8 DEF itemsIn
  <2>2. NumberedTogether(c)
    BY <1>1, <1>2, <1>8 DEF NumberedAsOne, IsNumbering, inFlight
  <2>3. NumberedTogether(c)'
    BY <2>1, <2>2 DEF NumberedTogether, itemsIn
  <2>4. ~(r \in inFlight' /\ IsNumbering(r, c)')
    <3>1. req'[r].pc # "idle" => req'[r].home = h
      BY <1>1, <1>2, <1>4, IdleIsLocals DEF answer, Locals
    <3> QED
      BY <1>8, <3>1 DEF inFlight, IsNumbering
  <2> QED
    BY <2>3, <2>4
<1>9. CASE c = h
  <2>1. CoversItems(r, c)
    BY <1>1, <1>2, <1>9 DEF NumberedAsOne, IsNumbering
  <2>2. \A j \in Items : items'[j] # None /\ items'[j].place = c /\ items'[j].chainId = None =>
            /\ j # u[1]
            /\ \E other \in req[r].todo \ {u} : other[1] = j
    BY <1>7, <2>1 DEF CoversItems, itemsIn
  <2>3. CASE req[r].todo = {u}
    <3>1. \A j \in Items : items'[j] # None /\ items'[j].place = c => items'[j].chainId # None
      BY <2>2, <2>3
    <3>2. r \notin inFlight'
      BY <1>1, <1>4, <2>3, IdleIsLocals DEF answer, inFlight
    <3> QED
      BY <3>1, <3>2 DEF NumberedTogether, itemsIn
  <2>4. CASE req[r].todo # {u}
    <3>1. /\ req'[r].kind = "publish" /\ req'[r].pc = "updates" /\ req'[r].home = c
          /\ req'[r].todo = req[r].todo \ {u}
      BY <1>1, <1>2, <1>4, <1>9, <2>4 DEF Locals
    <3> QED
      BY <2>2, <3>1 DEF IsNumbering, CoversItems, inFlight, itemsIn
  <2> QED
    BY <2>3, <2>4
<1> QED
  BY <1>8, <1>9

\* The items that the graph is asked about are all those of the contract.
LEMMA AskGraphCovers ==
    ASSUME TypeInv, FenceHolds, ChainHolds, NumberedAreSettled, Orderly, NEW r \in Requests,
           AskGraph(r), r \in inFlight', NEW c \in Collections, IsNumbering(r, c)'
    PROVE  CoversItems(r, c)'
<1> DEFINE order == findOrderedByCollectionId(c)
<1>1. /\ req[r] \in Locals /\ req \in [Requests -> Locals] /\ req[r].kind = "publish"
      /\ req[r].pc = "graph" /\ r \in inFlight /\ Regular
  BY DEF TypeInv, Typed, LocalsFit, AskGraph, at, inFlight, Orderly, Regular, never
<1>2. req[r].home = c /\ Settled(c)
  BY <1>1, AskGraphNumbers DEF IsNumbering
<1>3. ~answer(r)
  BY <1>1, IdleIsLocals DEF answer, inFlight
<1>4. req'[r].todo = updatesOf(req[r].order, tx[c].items)
  <2>1. req' = [req EXCEPT ![r].pc = "updates",
                           ![r].todo = updatesOf(req[r].order, tx[c].items),
                           ![r].order = <<>>, ![r].data = None]
    BY <1>2, <1>3 DEF AskGraph
  <2> QED
    BY <1>1, <2>1 DEF Locals
<1>5. /\ Len(req[r].order) = Len(order)
      /\ \A k \in 1..Len(order) : req[r].order[k][1] = order[k]
  BY <1>1, <1>2, SettledIsFenced DEF FenceHolds, Holds, PublishHolds
<1>6. tx[c].items = order
  BY <1>2 DEF ChainHolds, Orderly, Settled, isDeployed
<1>7. /\ Len(order) = Cardinality(itemsIn(c))
      /\ \A i \in itemsIn(c) : \E k \in 1..Cardinality(itemsIn(c)) : order[k] = i
  BY OrderHasItems DEF TypeInv
<1> HIDE DEF order
<1>8. \A k \in 1..Len(order) : <<order[k], k - 1>> \in updatesOf(req[r].order, tx[c].items)
  BY <1>5, <1>6 DEF updatesOf
<1>9. ASSUME NEW i \in itemsIn(c) PROVE \E u \in req'[r].todo : u[1] = i
  <2>1. PICK k \in 1..Len(order) : order[k] = i
    BY <1>7
  <2>2. <<i, k - 1>> \in req'[r].todo
    BY <1>4, <1>8, <2>1
  <2> QED
    BY <2>2
<1>10. UNCHANGED items
  BY DEF AskGraph, rows
<1> QED
  BY <1>9, <1>10 DEF CoversItems, itemsIn

LEMMA NumberedStayAsOne ==
    ASSUME TypeInv, FenceHolds, ChainHolds, NumberedAreSettled, OwnersHold, NumberedAsOne,
           [Next]_vars
    PROVE  NumberedAsOne'
<1> USE DEF TypeInv
<1> SUFFICES ASSUME Orderly', NEW c \in Collections
             PROVE  /\ NumberedTogether(c)' \/ \E r \in inFlight' : IsNumbering(r, c)'
                    /\ \A r \in inFlight' : IsNumbering(r, c)' => CoversItems(r, c)'
  BY DEF NumberedAsOne, IsNumbering, CoversItems
<1>1. Orderly
  BY RegularBefore DEF Orderly, Alone
<1>2. PICK r : Requests = {r}
  BY <1>1, FS_Singleton, StoredAssumption DEF Orderly, Alone
<1>3. /\ NumberedTogether(c) \/ (r \in inFlight /\ IsNumbering(r, c))
      /\ r \in inFlight /\ IsNumbering(r, c) => CoversItems(r, c)
  BY <1>1, <1>2 DEF NumberedAsOne, inFlight
<1> SUFFICES /\ NumberedTogether(c)' \/ (r \in inFlight' /\ IsNumbering(r, c)')
             /\ r \in inFlight' /\ IsNumbering(r, c)' => CoversItems(r, c)'
  BY <1>2 DEF inFlight
<1>4. CASE UNCHANGED <<items, clock, req>>
  BY <1>3, <1>4 DEF NumberedTogether, IsNumbering, CoversItems, inFlight, itemsIn
<1>5. CASE Start(r)
  <2>1. UNCHANGED items /\ r \notin inFlight
    BY <1>2, <1>5, StartReads, StartSets DEF inFlight
  <2>2. NumberedTogether(c)
    BY <1>3, <2>1
  <2>3. NumberedTogether(c)'
    BY <2>1, <2>2 DEF NumberedTogether, itemsIn
  <2>4. ~IsNumbering(r, c)'
    BY <1>2, <1>5, StartSets DEF IsStarted, IsNumbering
  <2> QED
    BY <2>3, <2>4
<1>6. CASE Step(r) /\ UpdateItem(r)
  BY <1>1, <1>2, <1>6, UpdateStaysTogether
<1>7. CASE Step(r) /\ ~UpdateItem(r)
  <2>1. ~(r \in inFlight /\ IsNumbering(r, c))
    BY <1>7 DEF Step, ReadSaved, CheckSaved, WriteCollection, CheckDrop, Drop, ReadRemoved,
       CheckRemoved, RemoveItem, ReadCollections, CheckPut, WriteItem, FindItems, AskGraph,
       CreatePost, LinkPost, at, IsNumbering
  <2>2. NumberedTogether(c)
    BY <1>3, <2>1
  <2>3. NumberedTogether(c)'
    <3>1. CASE WriteItem(r)
      BY <1>1, <1>2, <2>2, <3>1, WriteStaysTogether
    <3>2. CASE UNCHANGED items \/ Drop(r) \/ RemoveItem(r)
      <4>1. \A j \in Items : items'[j] # None => items'[j] = items[j]
        BY <3>2 DEF Drop, RemoveItem, Typed
      <4> QED
        BY <2>2, <4>1 DEF NumberedTogether, itemsIn
    <3> QED
      BY <1>2, <1>7, <3>1, <3>2, ItemWriters
  <2>4. ASSUME r \in inFlight', IsNumbering(r, c)' PROVE CoversItems(r, c)'
    <3>1. AskGraph(r)
      <4>1. req'[r].kind = "publish" /\ req'[r].pc = "updates"
        BY <2>4 DEF IsNumbering
      <4> QED
        BY <1>2, <1>7, <2>4, <4>1, PublishSteps
    <3> QED
      BY <1>1, <1>2, <2>4, <3>1, AskGraphCovers
  <2> QED
    BY <2>3, <2>4
<1> QED
  BY <1>1, <1>2, <1>4, <1>5, <1>6, <1>7, AloneMoves DEF Orderly

\* As long as requests do not overlap and none fails, all items of a collection have
\* their id or none has, but for a publication that is giving them (UpdateItem).
THEOREM ItemsAreNumberedAsOne == Spec => []NumberedAsOne
<1>1. Init => NumberedAsOne
  <2> SUFFICES ASSUME Init PROVE NumberedAsOne
    OBVIOUS
  <2>1. inFlight = {}
    BY IdleIsLocals DEF Init, inFlight
  <2>2. \A i \in Items : items[i] # None => items[i].chainId = None
    BY StoredAssumption DEF Init
  <2> QED
    BY <2>1, <2>2 DEF NumberedAsOne, NumberedTogether, itemsIn
<1>2. IdsInv /\ OwnersHold /\ NumberedAsOne /\ [Next]_vars => NumberedAsOne'
  BY NumberedStayAsOne DEF IdsInv, FenceInv
<1> QED
  BY <1>1, <1>2, NumberedItemsAreSettled, OwnersAreKept, PTL DEF Spec

\* All reads of a collection: those that go by the ids of its items, and those that go
\* by the graph.
LEMMA CollectionViewsAgreeOn ==
    ASSUME TypeInv, ChainHolds, IdsAreIndexes, NumberedAsOne, Orderly, NEW c \in stored,
           NEW approved \in {{}, {c}}
    PROVE  LET listed(isPublished) == idsIn(getCollections(reviewer, isPublished, FALSE, approved))
               found(curation) ==
                   {status \in {"pending", "approved", "rejected", "to_review"} :
                       c \in idsIn(getCollectionsByStatus(reviewer, status, approved,
                                       [x \in Collections |-> curation]))}
           IN  /\ c \in listed(TRUE) => isOk(getCollection(visitor, c, approved))
               /\ inFlight = {} => (c \in listed(TRUE) <=> c \notin listed(FALSE))
               /\ \A user \in Users :
                      c \in idsIn(getAddressCollections(user, approved)) <=>
                          canSeeCollection(rolesOf(user, c), getDCLCollection(c, approved))
               /\ isOk(getCollection(visitor, c, approved)) /\ approved = {} => found({}) # {}
<1> DEFINE read == getDCLCollection(c, approved)
<1>1. c \in Collections
  BY DEF stored
<1>2. \A d, found : /\ mergedFrom(d, found, approved).id = d
                    /\ mergedFrom(d, found, approved).is_published <=> d \in found
                    /\ mergedFrom(d, found, approved).tp = FALSE
  BY DEF mergedFrom, mergeCollection, collectionRow
<1>3. \A wanted, found :
          idsIn(ok(consolidateAllCollections(wanted, found, approved))) = wanted
  <2> SUFFICES ASSUME NEW wanted, NEW found
               PROVE  idsIn(ok(consolidateAllCollections(wanted, found, approved))) = wanted
    OBVIOUS
  <2>1. {body.id : body \in {mergedFrom(d, found, approved) : d \in wanted}} = wanted
    BY <1>2
  <2>2. \A bodies : ok(bodies).body = bodies
    BY DEF ok
  <2> QED
    BY <2>1, <2>2 DEF idsIn, consolidateAllCollections
<1>4. (read.is_published <=> c \in remotes) /\ read.tp = FALSE
  BY <1>2 DEF getDCLCollection
<1> HIDE DEF read
<1>5. isOk(getCollection(visitor, c, approved)) <=> c \in remotes
  BY <1>4 DEF getCollection, hasPublicAccess, hasAccess, isManager, visitor, isOk, ok, failed, read
<1>6. ASSUME NEW isPublished \in BOOLEAN
      PROVE  c \in idsIn(getCollections(reviewer, isPublished, FALSE, approved))
                <=> isInPublishedJoin(c, isPublished)
  <2>1. getCollections(reviewer, isPublished, FALSE, approved)
          = ok(consolidateAllCollections(findAllPublished(isPublished), remotes, approved))
    BY DEF getCollections, reviewer
  <2>2. idsIn(getCollections(reviewer, isPublished, FALSE, approved))
          = findAllPublished(isPublished)
    BY <1>3, <2>1
  <2> QED
    BY <2>2 DEF findAllPublished
<1>7. isInPublishedJoin(c, TRUE) => c \in remotes
  BY <1>1, NumberedIsToken DEF isInPublishedJoin, Orderly
<1>8. inFlight = {} => (isInPublishedJoin(c, TRUE) <=> ~isInPublishedJoin(c, FALSE))
  <2> SUFFICES ASSUME inFlight = {}
               PROVE  isInPublishedJoin(c, TRUE) <=> ~isInPublishedJoin(c, FALSE)
    OBVIOUS
  <2>1. NumberedTogether(c)
    BY <1>1 DEF NumberedAsOne
  <2> QED
    BY <2>1 DEF isInPublishedJoin, NumberedTogether
<1>9. ASSUME NEW user \in Users
      PROVE  c \in idsIn(getAddressCollections(user, approved)) <=>
                 canSeeCollection(rolesOf(user, c), getDCLCollection(c, approved))
  <2>1. idsIn(getAddressCollections(user, approved)) = ownedOrRemote(user)
    BY <1>3 DEF getAddressCollections
  <2>2. c \in ownedOrRemote(user) <=>
            collections[c].owner = user \/ (c \in remotes /\ user \in Managers)
    BY DEF ownedOrRemote, fetchCollectionsByAuthorizedUser, rolesOf
  <2>3. canSeeCollection(rolesOf(user, c), read) <=>
            collections[c].owner = user \/ (c \in remotes /\ user \in Managers)
    BY <1>4 DEF canSeeCollection, isMinter, hasAccess, isManager, rolesOf
  <2> QED
    BY <2>1, <2>2, <2>3 DEF read
<1>10. ASSUME c \in remotes, approved = {}
       PROVE  c \in idsIn(getCollectionsByStatus(reviewer, "pending", approved,
                                                 [x \in Collections |-> {}]))
  <2>1. hasStatus(c, "pending", approved, {})
    BY <1>10 DEF hasStatus, remoteIds
  <2>2. [x \in Collections |-> {}][c] = {}
    BY <1>1
  <2>3. c \in {d \in stored : hasStatus(d, "pending", approved, [x \in Collections |-> {}][d])}
    BY <2>1, <2>2
  <2>4. getCollectionsByStatus(reviewer, "pending", approved, [x \in Collections |-> {}])
          = ok(consolidateAllCollections(
                  {d \in stored : hasStatus(d, "pending", approved, [x \in Collections |-> {}][d])},
                  remoteIds("pending", approved), approved))
    BY DEF getCollectionsByStatus, reviewer
  <2> QED
    BY <1>3, <2>3, <2>4
<1> QED
  BY <1>5, <1>6, <1>7, <1>8, <1>9, <1>10

\* The listings, which go by the ids of the items, agree with the collections as they
\* are read alone, which go by the graph (CollectionViewsAgree): the ids of a collection
\* are given as one, after the graph has it.  With requests that overlap an edit may
\* take back an id that was given while it was served.
THEOREM CollectionsAreTold ==
    ASSUME Cardinality(Requests) = 1 PROVE Spec => []CollectionViewsAgree
<1>1. IdsInv /\ IdsAreIndexes /\ NumberedAsOne => CollectionViewsAgree
  BY CollectionViewsAgreeOn DEF CollectionViewsAgree, Orderly, IdsInv, FenceInv, Alone
<1> QED
  BY <1>1, NumberedItemsAreSettled, IdsAreKept, ItemsAreNumberedAsOne, PTL

=============================================================================
