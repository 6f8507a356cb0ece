--------------------- MODULE ThirdPartyWorkflow_proofs ---------------------
(***************************************************************************)
(* Theorems about the third party workflow, for any number of collections, *)
(* items and requests of each kind, any bound and any set of faults.       *)
(***************************************************************************)
EXTENDS ThirdPartyWorkflow, FiniteSetTheorems, TLAPS

-----------------------------------------------------------------------------
(* Type correctness.                                                       *)

LEMMA SomeMembers ==
    /\ someCollection \in Collections
    /\ someItem \in Items
    /\ someHash \in Hashes
    /\ someRequest \in Requests
BY NonEmptyAssumption DEF someCollection, someItem, someHash, someRequest

LEMMA InitTypeOK == Init => TypeOK
<1> SUFFICES ASSUME Init PROVE TypeOK
    OBVIOUS
<1> USE SomeMembers, CollectionOfAssumption
<1>1. TablesTypeOK
    BY DEF Init, TablesInit, TablesTypeOK
<1>2. PubTypeOK
    BY DEF Init, PubInit, PubTypeOK, PubStages, PubCall, noCall, noItems
<1>3. ItemsTypeOK
    BY DEF Init, ItemsInit, ItemsTypeOK, EdStages, RmStages, EdCall, noEdit
<1>4. ReviewTypeOK
    BY DEF Init, ReviewInit, ReviewTypeOK, RvStages, SbStages, CurationStatus
<1> QED BY <1>1, <1>2, <1>3, <1>4 DEF TypeOK

\* What a failing publication forgets, it forgets to well typed values.
LEMMA PubFailTypeOK ==
    ASSUME PubTypeOK, NEW p \in Publishers, NEW stage \in PubStages,
           pubFail(p, stage), topics' = topics
    PROVE  PubTypeOK'
BY SomeMembers DEF PubTypeOK, pubFail, pubGoto, PubCall, noCall, noItems

LEMMA PublishTypeOK ==
    ASSUME TablesTypeOK, PubTypeOK, TodoWasFound, NEW p \in Publishers, Publish(p)
    PROVE  TablesTypeOK' /\ PubTypeOK'
<1> USE SomeMembers, CollectionOfAssumption, PublishersAssumption DEF pubGoto, pubAt
<1>1. ASSUME StartPublish(p) PROVE TablesTypeOK' /\ PubTypeOK'
  <2>1. TablesTypeOK' BY <1>1 DEF StartPublish, TablesTypeOK, tables
  <2>2. PICK c \in collections, ids \in SUBSET Items, qty \in 1..Cardinality(Items) :
            pubCall' = [pubCall EXCEPT ![p] =
               [collection |-> c, ids |-> ids, qty |-> qty, forum |-> forumId[c]]]
    BY <1>1 DEF StartPublish
  <2>3. [collection |-> c, ids |-> ids, qty |-> qty, forum |-> forumId[c]] \in PubCall
    BY <2>2 DEF PubCall, TablesTypeOK
  <2>4. PubTypeOK'
    BY <1>1, <2>2, <2>3 DEF StartPublish, PubTypeOK, PubStages, pubLocals
  <2> QED BY <2>1, <2>4
<1>2. ASSUME CheckSlots(p) PROVE TablesTypeOK' /\ PubTypeOK'
  <2>1. TablesTypeOK' BY <1>2 DEF CheckSlots, TablesTypeOK, tables
  <2>2. CASE pubReject(p)
    BY <1>2, <2>1, <2>2, PubFailTypeOK DEF CheckSlots, pubReject, PubStages, PubFinal
  <2>3. CASE pubGoto(p, "items") /\ UNCHANGED pubLocals
    BY <1>2, <2>1, <2>3 DEF CheckSlots, PubTypeOK, PubStages, pubLocals
  <2> QED BY <1>2, <2>2, <2>3 DEF CheckSlots
<1>3. ASSUME FindItems(p) PROVE TablesTypeOK' /\ PubTypeOK'
  <2>1. TablesTypeOK' BY <1>3 DEF FindItems, TablesTypeOK, tables
  <2>2. CASE pubReject(p)
    BY <1>3, <2>1, <2>2, PubFailTypeOK DEF FindItems, pubReject, PubStages, PubFinal
  <2>3. CASE ~pubReject(p)
    <3> DEFINE read == [i \in Items |-> IF i \in pubCall[p].ids \cap items
                                      THEN contentHash[i] ELSE NoHash]
    <3>1. read \in [Items -> Hashes \cup {NoHash}]
      BY DEF TablesTypeOK
    <3>2. /\ pubItems' = [pubItems EXCEPT ![p] = read]
          /\ pubPc' = [pubPc EXCEPT ![p] = "pending"]
          /\ UNCHANGED <<pubCall, pubTodo, pubError, pubCreated, topics>>
      BY <1>3, <2>3 DEF FindItems
    <3> HIDE DEF read
    <3> QED BY <2>1, <3>1, <3>2 DEF PubTypeOK, PubStages
  <2> QED BY <2>2, <2>3
<1>4. ASSUME CheckPending(p) PROVE TablesTypeOK' /\ PubTypeOK'
  <2>1. TablesTypeOK' BY <1>4 DEF CheckPending, TablesTypeOK, tables
  <2>2. CASE pubReject(p)
    BY <1>4, <2>1, <2>2, PubFailTypeOK DEF CheckPending, pubReject, PubStages, PubFinal
  <2>3. CASE ~pubReject(p)
    BY <1>4, <2>1, <2>3 DEF CheckPending, PubTypeOK, TablesTypeOK, PubStages
  <2> QED BY <2>2, <2>3
<1>5. ASSUME CreateCheque(p) PROVE TablesTypeOK' /\ PubTypeOK'
  <2>1. [by |-> p, collection |-> pubCall[p].collection, qty |-> pubCall[p].qty] \in Cheque
    BY DEF PubTypeOK, PubCall, Cheque
  <2>2. TablesTypeOK' BY <1>5, <2>1 DEF CreateCheque, TablesTypeOK
  <2>3. PubTypeOK' BY <1>5 DEF CreateCheque, PubTypeOK, PubStages, dbItems
  <2> QED BY <2>2, <2>3
<1>6. ASSUME CreateItemCuration(p) PROVE TablesTypeOK' /\ PubTypeOK'
  <2> DEFINE new(i) == [by |-> p, item |-> i, status |-> "pending",
                        hash |-> pubItems[p][i], created |-> pubCreated[p]]
  <2>1. PICK i \in pubTodo[p] :
            /\ pubTodo' = [pubTodo EXCEPT ![p] = @ \ {i}]
            /\ \/ itemCurations' = itemCurations \cup {new(i)} /\ UNCHANGED pubError
               \/ /\ pubError' = [pubError EXCEPT ![p] = TRUE]
                  /\ UNCHANGED itemCurations
    BY <1>6 DEF CreateItemCuration
  <2>2. new(i) \in ItemCuration
    BY <2>1 DEF PubTypeOK, TodoWasFound, dbItems, ItemCuration, CurationStatus
  <2>3. TablesTypeOK'
    BY <1>6, <2>1, <2>2 DEF CreateItemCuration, TablesTypeOK
  <2>4. PubTypeOK'
    BY <1>6, <2>1 DEF CreateItemCuration, PubTypeOK
  <2> QED BY <2>3, <2>4
<1>7. ASSUME FinishItemCurations(p) PROVE TablesTypeOK' /\ PubTypeOK'
  <2>1. TablesTypeOK' BY <1>7 DEF FinishItemCurations, TablesTypeOK, tables
  <2>2. PubTypeOK' BY <1>7 DEF FinishItemCurations, PubTypeOK, PubStages, pubLocals
  <2> QED BY <2>1, <2>2
<1>8. ASSUME CreateCollectionCuration(p) PROVE TablesTypeOK' /\ PubTypeOK'
  <2>1. [by |-> p, collection |-> pubCall[p].collection, status |-> "pending",
         created |-> pubCreated[p]] \in CollectionCuration
    BY DEF PubTypeOK, PubCall, CollectionCuration, CurationStatus
  <2>2. TablesTypeOK' BY <1>8, <2>1 DEF CreateCollectionCuration, TablesTypeOK
  <2>3. PubTypeOK' BY <1>8 DEF CreateCollectionCuration, PubTypeOK, PubStages, pubLocals
  <2> QED BY <2>2, <2>3
<1>9. ASSUME DeleteCheque(p) PROVE TablesTypeOK' /\ PubTypeOK'
  <2>1. TablesTypeOK' BY <1>9 DEF DeleteCheque, TablesTypeOK
  <2>2. PubTypeOK' BY <1>9 DEF DeleteCheque, PubTypeOK, PubStages, pubLocals
  <2> QED BY <2>1, <2>2
<1>10. ASSUME DeleteItemCurations(p) PROVE TablesTypeOK' /\ PubTypeOK'
  <2>1. TablesTypeOK' BY <1>10 DEF DeleteItemCurations, TablesTypeOK, curationsOfIds
  <2>2. \E stage \in PubStages : pubFail(p, stage)
    BY <1>10 DEF DeleteItemCurations, PubStages, PubFinal
  <2>3. topics' = topics BY <1>10 DEF DeleteItemCurations
  <2>4. PubTypeOK' BY <2>2, <2>3, PubFailTypeOK
  <2> QED BY <2>1, <2>4
<1>11. ASSUME CreatePost(p) PROVE TablesTypeOK' /\ PubTypeOK'
  <2>1. TablesTypeOK' BY <1>11 DEF CreatePost, TablesTypeOK, tables
  <2>2. PubTypeOK' BY <1>11 DEF CreatePost, PubTypeOK, PubStages, PubFinal, pubLocals
  <2> QED BY <2>1, <2>2
<1>12. ASSUME UpdatePost(p) PROVE TablesTypeOK' /\ PubTypeOK'
  <2>1. TablesTypeOK' BY <1>12 DEF UpdatePost, TablesTypeOK, tables
  <2>2. PubTypeOK' BY <1>12 DEF UpdatePost, PubTypeOK, PubStages, PubFinal, pubLocals
  <2> QED BY <2>1, <2>2
<1>13. ASSUME LinkPost(p) PROVE TablesTypeOK' /\ PubTypeOK'
  <2>1. TablesTypeOK' BY <1>13 DEF LinkPost, storedTopic, TablesTypeOK, PubTypeOK, PubCall
  <2>2. PubTypeOK' BY <1>13 DEF LinkPost, PubTypeOK, PubStages, PubFinal, pubLocals
  <2> QED BY <2>1, <2>2
<1>14. ASSUME CrashPublish(p) PROVE TablesTypeOK' /\ PubTypeOK'
  <2>1. TablesTypeOK' BY <1>14 DEF CrashPublish, TablesTypeOK, tables
  <2>2. PubTypeOK' BY <1>14 DEF CrashPublish, PubTypeOK, PubStages, PubFinal, pubLocals
  <2> QED BY <2>1, <2>2
<1> QED
    BY <1>1, <1>2, <1>3, <1>4, <1>5, <1>6, <1>7, <1>8, <1>9, <1>10, <1>11,
       <1>12, <1>13, <1>14 DEF Publish, PublishStep

LEMMA InitTodo == Init => TodoWasFound
BY DEF Init, PubInit, TodoWasFound, dbItems

\* A publication that fails keeps no create to run.
LEMMA PubFailTodo ==
    ASSUME PubTypeOK, TodoWasFound, NEW p \in Publishers, NEW stage, pubFail(p, stage)
    PROVE  TodoWasFound'
BY DEF PubTypeOK, TodoWasFound, dbItems, pubFail, pubGoto

LEMMA PublishTodo ==
    ASSUME PubTypeOK, TodoWasFound, NEW p \in Publishers, Publish(p)
    PROVE  TodoWasFound'
<1> USE DEF pubGoto, pubAt, PubTypeOK, TodoWasFound, dbItems
<1>1. CASE \E stage \in PubStages : pubFail(p, stage)
    BY <1>1, PubFailTodo
<1>2. CASE StartPublish(p) BY <1>2 DEF StartPublish
<1>3. CASE CheckSlots(p)
    BY <1>1, <1>3 DEF CheckSlots, pubReject, PubStages, PubFinal, pubLocals
<1>4. CASE FindItems(p)
    BY <1>1, <1>4 DEF FindItems, pubReject, PubStages, PubFinal
<1>5. CASE CheckPending(p)
    BY <1>1, <1>5 DEF CheckPending, pubReject, PubStages, PubFinal
<1>6. CASE CreateCheque(p) BY <1>6 DEF CreateCheque
<1>7. CASE CreateItemCuration(p) BY <1>7 DEF CreateItemCuration
<1>8. CASE FinishItemCurations(p) BY <1>8 DEF FinishItemCurations, pubLocals
<1>9. CASE CreateCollectionCuration(p)
    BY <1>9 DEF CreateCollectionCuration, pubLocals
<1>10. CASE DeleteCheque(p) BY <1>10 DEF DeleteCheque, pubLocals
<1>11. CASE DeleteItemCurations(p)
    BY <1>1, <1>11 DEF DeleteItemCurations, PubStages, PubFinal
<1>12. CASE CreatePost(p) BY <1>12 DEF CreatePost, pubLocals
<1>13. CASE UpdatePost(p) BY <1>13 DEF UpdatePost, pubLocals
<1>14. CASE LinkPost(p) BY <1>14 DEF LinkPost, pubLocals
<1>15. CASE CrashPublish(p) BY <1>15 DEF CrashPublish, pubLocals
<1> QED
    BY <1>2, <1>3, <1>4, <1>5, <1>6, <1>7, <1>8, <1>9, <1>10, <1>11, <1>12,
       <1>13, <1>14, <1>15 DEF Publish, PublishStep

EditAction(e) == StartUpsert(e) \/ EditStep(e) \/ AbortUpsert(e)
RemoveAction(d) ==
    StartDeleteItem(d) \/ StartDeleteCollection(d) \/ RemoveStep(d) \/ AbortDelete(d)
ReviewAction(v) == StartReview(v) \/ ReviewStep(v)
SubmitAction(s) == StartSubmit(s) \/ SubmitStep(s)

LEMMA EditTypeOK ==
    ASSUME TablesTypeOK, ItemsTypeOK, NEW e \in Editors, EditAction(e), UNCHANGED rmVars
    PROVE  TablesTypeOK' /\ ItemsTypeOK'
<1> USE SomeMembers DEF ItemsTypeOK, EdCall, EdStages, rmVars
<1>1. CASE StartUpsert(e)
  <2>1. TablesTypeOK' BY <1>1 DEF StartUpsert, TablesTypeOK, tables
  <2> QED BY <1>1, <2>1 DEF StartUpsert
<1>2. CASE UpsertItem(e)
  <2>1. TablesTypeOK' BY <1>2 DEF UpsertItem, TablesTypeOK
  <2>2. noEdit \in EdCall BY DEF noEdit
  <2>3. CASE edPc' = [edPc EXCEPT ![e] = "sync"] /\ UNCHANGED edCall
    BY <1>2, <2>1, <2>3 DEF UpsertItem
  <2>4. CASE edEnd(e, "done")
    BY <1>2, <2>1, <2>2, <2>4 DEF UpsertItem, edEnd
  <2> QED BY <1>2, <2>1, <2>3, <2>4 DEF UpsertItem
<1>3. CASE SyncPendingCurations(e)
  <2>1. ASSUME NEW cur \in itemCurations PROVE synced(e, cur) \in ItemCuration
    <3>1. cur \in ItemCuration BY DEF TablesTypeOK
    <3> QED BY <3>1 DEF synced, ItemCuration
  <2>2. TablesTypeOK' BY <1>3, <2>1 DEF SyncPendingCurations, TablesTypeOK
  <2> QED BY <1>3, <2>2 DEF SyncPendingCurations, edEnd, noEdit
<1>4. CASE AbortUpsert(e)
  <2>1. TablesTypeOK' BY <1>4 DEF AbortUpsert, TablesTypeOK, tables
  <2> QED BY <1>4, <2>1 DEF AbortUpsert, edEnd, noEdit
<1> QED BY <1>1, <1>2, <1>3, <1>4 DEF EditAction, EditStep

LEMMA RemoveTypeOK ==
    ASSUME TablesTypeOK, ItemsTypeOK, NEW d \in Removers, RemoveAction(d), UNCHANGED edVars
    PROVE  TablesTypeOK' /\ ItemsTypeOK'
<1> USE SomeMembers DEF ItemsTypeOK, RmStages, edVars
<1>1. CASE StartDeleteItem(d)
  <2>1. TablesTypeOK' BY <1>1 DEF StartDeleteItem, TablesTypeOK, tables
  <2> QED BY <1>1, <2>1 DEF StartDeleteItem, TablesTypeOK
<1>2. CASE StartDeleteCollection(d)
  <2>1. TablesTypeOK' BY <1>2 DEF StartDeleteCollection, TablesTypeOK, tables
  <2> QED BY <1>2, <2>1 DEF StartDeleteCollection, TablesTypeOK
<1>3. CASE DeleteItem(d)
  <2>1. TablesTypeOK' BY <1>3 DEF DeleteItem, deleteItems, TablesTypeOK
  <2> QED BY <1>3, <2>1 DEF DeleteItem
<1>4. CASE DeleteCollection(d)
  <2>1. TablesTypeOK' BY <1>4 DEF DeleteCollection, deleteCollection, TablesTypeOK
  <2> QED BY <1>4, <2>1 DEF DeleteCollection
<1>5. CASE DeleteItemsOfCollection(d)
  <2>1. TablesTypeOK' BY <1>5 DEF DeleteItemsOfCollection, deleteItems, TablesTypeOK
  <2> QED BY <1>5, <2>1 DEF DeleteItemsOfCollection
<1>6. CASE AbortDelete(d)
  <2>1. TablesTypeOK' BY <1>6 DEF AbortDelete, TablesTypeOK, tables
  <2> QED BY <1>6, <2>1 DEF AbortDelete
<1> QED BY <1>1, <1>2, <1>3, <1>4, <1>5, <1>6 DEF RemoveAction, RemoveStep

LEMMA ReviewActionTypeOK ==
    ASSUME TablesTypeOK, ReviewTypeOK, NEW v \in Reviewers, ReviewAction(v), UNCHANGED sbVars
    PROVE  TablesTypeOK' /\ ReviewTypeOK'
<1> USE SomeMembers DEF ReviewTypeOK, RvStages, rvGoto, rvEnd, rvLocals, sbVars,
                        sbLocals, CurationStatus
<1>1. CASE StartReview(v)
  <2>1. TablesTypeOK' BY <1>1 DEF StartReview, TablesTypeOK, tables
  <2>2. PICK t \in Items \cup Collections, status \in CurationStatus \cup {NoStatus} :
            /\ \E cur \in updatable(v, t, status) : rvBy' = [rvBy EXCEPT ![v] = cur.by]
            /\ rvTarget' = [rvTarget EXCEPT ![v] = t]
            /\ rvStatus' = [rvStatus EXCEPT ![v] = status]
            /\ rvGoto(v, IF t \in Items THEN "touch" ELSE "update")
    BY <1>1 DEF StartReview
  <2>3. \A cur \in updatable(v, t, status) : cur.by \in Requests
    BY DEF updatable, getLatestById, latestItemCurations, latestCollectionCurations,
           TablesTypeOK, ItemCuration, CollectionCuration
  <2> QED BY <1>1, <2>1, <2>2, <2>3 DEF StartReview
<1>2. CASE TouchCollectionCuration(v)
  <2>1. TablesTypeOK' BY <1>2 DEF TouchCollectionCuration, TablesTypeOK, tables
  <2> QED BY <1>2, <2>1 DEF TouchCollectionCuration
<1>3. CASE ReadReviewedItem(v)
  <2>1. TablesTypeOK' BY <1>3 DEF ReadReviewedItem, TablesTypeOK, tables
  <2> QED BY <1>3, <2>1 DEF ReadReviewedItem, TablesTypeOK
<1>4. CASE UpdateCuration(v)
  <2>1. ASSUME NEW cur \in itemCurations PROVE decidedItem(v, cur) \in ItemCuration
    <3>1. cur \in ItemCuration BY DEF TablesTypeOK
    <3> QED BY <3>1 DEF ItemCuration, decidedItem, decidedStatus
  <2>2. ASSUME NEW cur \in collectionCurations
        PROVE  decidedCollection(v, cur) \in CollectionCuration
    <3>1. cur \in CollectionCuration BY DEF TablesTypeOK
    <3> QED BY <3>1 DEF CollectionCuration, decidedCollection, decidedStatus
  <2>3. itemCurations' \subseteq ItemCuration
    BY <1>4, <2>1 DEF UpdateCuration
  <2>4. collectionCurations' \subseteq CollectionCuration
    BY <1>4, <2>2 DEF UpdateCuration
  <2>5. TablesTypeOK' BY <1>4, <2>3, <2>4 DEF UpdateCuration, TablesTypeOK
  <2> QED BY <1>4, <2>5 DEF UpdateCuration
<1> QED BY <1>1, <1>2, <1>3, <1>4 DEF ReviewAction, ReviewStep

LEMMA SubmitTypeOK ==
    ASSUME TablesTypeOK, ReviewTypeOK, NEW s \in Submitters, SubmitAction(s), UNCHANGED rvVars
    PROVE  TablesTypeOK' /\ ReviewTypeOK'
<1> USE SomeMembers, SubmittersAssumption
        DEF ReviewTypeOK, SbStages, sbGoto, sbEnd, rvVars, rvLocals
<1>1. CASE StartSubmit(s)
  <2>1. TablesTypeOK' BY <1>1 DEF StartSubmit, TablesTypeOK, tables
  <2> QED BY <1>1, <2>1 DEF StartSubmit, TablesTypeOK
<1>2. CASE ReadSubmittedItem(s)
  <2>1. TablesTypeOK' BY <1>2 DEF ReadSubmittedItem, TablesTypeOK, tables
  <2> QED BY <1>2, <2>1 DEF ReadSubmittedItem, TablesTypeOK
<1>3. CASE InsertCuration(s)
  <2>1. itemCurations' \subseteq ItemCuration
    <3>1. sbTarget[s] \in items =>
              [by |-> s, item |-> sbTarget[s], status |-> "pending",
               hash |-> sbHash[s], created |-> sbCreated[s]] \in ItemCuration
      BY DEF TablesTypeOK, ItemCuration, CurationStatus
    <3> QED BY <1>3, <3>1 DEF InsertCuration, TablesTypeOK
  <2>2. collectionCurations' \subseteq CollectionCuration
    <3>1. sbTarget[s] \in collections =>
              [by |-> s, collection |-> sbTarget[s], status |-> "pending",
               created |-> sbCreated[s]] \in CollectionCuration
      BY DEF TablesTypeOK, CollectionCuration, CurationStatus
    <3> QED BY <1>3, <3>1 DEF InsertCuration, TablesTypeOK
  <2>3. TablesTypeOK' BY <1>3, <2>1, <2>2 DEF InsertCuration, TablesTypeOK
  <2> QED BY <1>3, <2>3 DEF InsertCuration
<1> QED BY <1>1, <1>2, <1>3 DEF SubmitAction, SubmitStep

-----------------------------------------------------------------------------
(* Each kind of step of the system is an action of one request.            *)

LEMMA NextActions ==
    ASSUME Next
    PROVE  \/ \E p \in Publishers : Publish(p) /\ UNCHANGED otherThanPub
           \/ \E e \in Editors : EditAction(e) /\ UNCHANGED otherThanEd
           \/ \E d \in Removers : RemoveAction(d) /\ UNCHANGED otherThanRm
           \/ \E v \in Reviewers : ReviewAction(v) /\ UNCHANGED otherThanRv
           \/ \E s \in Submitters : SubmitAction(s) /\ UNCHANGED otherThanSb
<1>1. CASE Start
    BY <1>1 DEF Start, Publish, EditAction, RemoveAction, ReviewAction, SubmitAction
<1>2. CASE Step
    BY <1>2 DEF Step, Publish, EditAction, RemoveAction, ReviewAction, SubmitAction
<1>3. CASE Crash
    BY <1>3 DEF Crash, Publish, EditAction, RemoveAction
<1> QED BY <1>1, <1>2, <1>3 DEF Next

TypeInv == TypeOK /\ TodoWasFound

LEMMA PubUnchanged ==
    ASSUME PubTypeOK, TodoWasFound, UNCHANGED pubVars
    PROVE  PubTypeOK' /\ TodoWasFound'
BY DEF PubTypeOK, TodoWasFound, dbItems, pubVars, pubLocals

LEMMA ItemsUnchanged ==
    ASSUME ItemsTypeOK, UNCHANGED <<edVars, rmVars>>
    PROVE  ItemsTypeOK'
BY DEF ItemsTypeOK, edVars, rmVars

LEMMA ReviewUnchanged ==
    ASSUME ReviewTypeOK, UNCHANGED <<rvVars, sbVars>>
    PROVE  ReviewTypeOK'
BY DEF ReviewTypeOK, rvVars, sbVars, rvLocals, sbLocals

LEMMA TypeInvStep == TypeInv /\ [Next]_vars => TypeInv'
<1> SUFFICES ASSUME TypeInv, [Next]_vars PROVE TypeInv'
    OBVIOUS
<1> USE DEF TypeInv, TypeOK
<1>1. CASE UNCHANGED vars
  <2>1. TablesTypeOK' BY <1>1 DEF vars, tables, TablesTypeOK
  <2>2. UNCHANGED <<pubVars, edVars, rmVars, rvVars, sbVars>> BY <1>1 DEF vars
  <2> QED BY <2>1, <2>2, PubUnchanged, ItemsUnchanged, ReviewUnchanged
<1>2. CASE \E p \in Publishers : Publish(p) /\ UNCHANGED otherThanPub
  <2>1. UNCHANGED <<edVars, rmVars, rvVars, sbVars>> BY <1>2 DEF otherThanPub
  <2> QED BY <1>2, <2>1, PublishTypeOK, PublishTodo, ItemsUnchanged, ReviewUnchanged
<1>3. CASE \E e \in Editors : EditAction(e) /\ UNCHANGED otherThanEd
  <2>1. UNCHANGED <<pubVars, rmVars, rvVars, sbVars>> BY <1>3 DEF otherThanEd
  <2> QED BY <1>3, <2>1, EditTypeOK, PubUnchanged, ReviewUnchanged
<1>4. CASE \E d \in Removers : RemoveAction(d) /\ UNCHANGED otherThanRm
  <2>1. UNCHANGED <<pubVars, edVars, rvVars, sbVars>> BY <1>4 DEF otherThanRm
  <2> QED BY <1>4, <2>1, RemoveTypeOK, PubUnchanged, ReviewUnchanged
<1>5. CASE \E v \in Reviewers : ReviewAction(v) /\ UNCHANGED otherThanRv
  <2>1. UNCHANGED <<pubVars, edVars, rmVars, sbVars>> BY <1>5 DEF otherThanRv
  <2> QED BY <1>5, <2>1, ReviewActionTypeOK, PubUnchanged, ItemsUnchanged
<1>6. CASE \E s \in Submitters : SubmitAction(s) /\ UNCHANGED otherThanSb
  <2>1. UNCHANGED <<pubVars, edVars, rmVars, rvVars>> BY <1>6 DEF otherThanSb
  <2> QED BY <1>6, <2>1, SubmitTypeOK, PubUnchanged, ItemsUnchanged
<1> QED BY <1>1, <1>2, <1>3, <1>4, <1>5, <1>6, NextActions

\* The strengthening TypeCorrect rests on: a create waiting in the batch of a
\* publication is for an item that was found, and only while the batch runs.
THEOREM TypeInvariant == Spec => []TypeInv
<1>1. Init => TypeInv BY InitTypeOK, InitTodo DEF TypeInv
<1> QED BY <1>1, TypeInvStep, PTL DEF Spec

\* Every variable keeps its type (TypeOK): every row the handlers write has the
\* columns of its table, a content hash in particular, for only items that were
\* found are put under review.
THEOREM TypeCorrect == Spec => []TypeOK
BY TypeInvariant, PTL DEF TypeInv

-----------------------------------------------------------------------------
(* What a step leaves of the rows of a publication.                        *)

\* The rows of publication p are, but for status and hash, a part of what they
\* were, and no two of them became alike.
KeepsRowsOf(p) ==
    /\ chequesOf(p)' = chequesOf(p)
    /\ \A new \in itemCurationsOf(p)' :
           \E cur \in itemCurationsOf(p) : cur.item = new.item
    /\ \A new \in itemCurationsOf(p)', other \in itemCurationsOf(p)' :
           new.item = other.item =>
               \/ new = other
               \/ \E cur, old \in itemCurationsOf(p) : cur # old /\ cur.item = old.item
    /\ \A new \in collectionCurationsOf(p)' : collectionCurationsOf(p) # {}

KeepsLocalsOf(p) ==
    /\ pubPc'[p] = pubPc[p]
    /\ pubCall'[p] = pubCall[p]
    /\ pubItems'[p] = pubItems[p]
    /\ pubTodo'[p] = pubTodo[p]
    /\ pubError'[p] = pubError[p]

LEMMA KeptTrace ==
    ASSUME NEW p \in Publishers, TraceOf(p), KeepsRowsOf(p), KeepsLocalsOf(p)
    PROVE  TraceOf(p)'
BY DEF TraceOf, KeepsRowsOf, KeepsLocalsOf

LEMMA KeptLedger ==
    ASSUME NEW p \in Publishers, LedgerOf(p), KeepsRowsOf(p), KeepsLocalsOf(p)
    PROVE  LedgerOf(p)'
<1>1. dbItems(p)' = dbItems(p) BY DEF KeepsLocalsOf, dbItems
<1>2. hasPaid(p)' <=> hasPaid(p) BY <1>1 DEF hasPaid, KeepsRowsOf
<1> QED BY <1>1, <1>2 DEF LedgerOf, KeepsRowsOf, KeepsLocalsOf

LEMMA EditKeepsRows ==
    ASSUME TypeInv, NEW p \in Publishers, NEW e \in Editors, EditAction(e)
    PROVE  KeepsRowsOf(p)
<1> USE DEF KeepsRowsOf, chequesOf, itemCurationsOf, collectionCurationsOf
<1>1. CASE UNCHANGED <<itemCurations, collectionCurations, cheques>>
    BY <1>1
<1>2. CASE SyncPendingCurations(e)
  <2>1. ASSUME NEW cur \in itemCurations
        PROVE  synced(e, cur).by = cur.by /\ synced(e, cur).item = cur.item
    <3>1. cur \in ItemCuration BY DEF TypeInv, TypeOK, TablesTypeOK
    <3> QED BY <3>1 DEF synced, ItemCuration
  <2>2. itemCurations' = {synced(e, cur) : cur \in itemCurations}
    BY <1>2 DEF SyncPendingCurations
  <2>3. UNCHANGED <<collectionCurations, cheques>>
    BY <1>2 DEF SyncPendingCurations
  <2> QED BY <2>1, <2>2, <2>3
<1>3. CASE StartUpsert(e) BY <1>1, <1>3 DEF StartUpsert, tables
<1>4. CASE UpsertItem(e) BY <1>1, <1>4 DEF UpsertItem
<1>5. CASE AbortUpsert(e) BY <1>1, <1>5 DEF AbortUpsert, tables
<1> QED BY <1>2, <1>3, <1>4, <1>5 DEF EditAction, EditStep

LEMMA RemoveKeepsRows ==
    ASSUME TypeInv, NEW p \in Publishers, NEW d \in Removers, RemoveAction(d)
    PROVE  KeepsRowsOf(p)
<1> USE DEF KeepsRowsOf, chequesOf, itemCurationsOf, collectionCurationsOf
<1>1. CASE /\ itemCurations' \subseteq itemCurations
           /\ collectionCurations' \subseteq collectionCurations
           /\ cheques' = cheques
    BY <1>1
<1>2. CASE StartDeleteItem(d) BY <1>1, <1>2 DEF StartDeleteItem, tables
<1>3. CASE StartDeleteCollection(d) BY <1>1, <1>3 DEF StartDeleteCollection, tables
<1>4. CASE DeleteItem(d) BY <1>1, <1>4 DEF DeleteItem, deleteItems
<1>5. CASE DeleteCollection(d) BY <1>1, <1>5 DEF DeleteCollection, deleteCollection
<1>6. CASE DeleteItemsOfCollection(d)
    BY <1>1, <1>6 DEF DeleteItemsOfCollection, deleteItems
<1>7. CASE AbortDelete(d) BY <1>1, <1>7 DEF AbortDelete, tables
<1> QED BY <1>2, <1>3, <1>4, <1>5, <1>6, <1>7 DEF RemoveAction, RemoveStep

LEMMA ReviewKeepsRows ==
    ASSUME TypeInv, NEW p \in Publishers, NEW v \in Reviewers, ReviewAction(v)
    PROVE  KeepsRowsOf(p)
<1> USE DEF KeepsRowsOf, chequesOf, itemCurationsOf, collectionCurationsOf
<1>1. CASE UNCHANGED <<itemCurations, collectionCurations, cheques>>
    BY <1>1
<1>2. CASE UpdateCuration(v)
  <2>1. ASSUME NEW cur \in itemCurations
        PROVE  decidedItem(v, cur).by = cur.by /\ decidedItem(v, cur).item = cur.item
    <3>1. cur \in ItemCuration BY DEF TypeInv, TypeOK, TablesTypeOK
    <3> QED BY <3>1 DEF ItemCuration, decidedItem
  <2>2. ASSUME NEW cur \in collectionCurations PROVE decidedCollection(v, cur).by = cur.by
    <3>1. cur \in CollectionCuration BY DEF TypeInv, TypeOK, TablesTypeOK
    <3> QED BY <3>1 DEF CollectionCuration, decidedCollection
  <2>3. /\ itemCurations' = {decidedItem(v, cur) : cur \in itemCurations}
        /\ collectionCurations' = {decidedCollection(v, cur) : cur \in collectionCurations}
        /\ cheques' = cheques
    BY <1>2 DEF UpdateCuration
  <2> QED BY <2>1, <2>2, <2>3
<1>3. CASE StartReview(v) BY <1>1, <1>3 DEF StartReview, tables
<1>4. CASE TouchCollectionCuration(v) BY <1>1, <1>4 DEF TouchCollectionCuration, tables
<1>5. CASE ReadReviewedItem(v) BY <1>1, <1>5 DEF ReadReviewedItem, tables
<1> QED BY <1>2, <1>3, <1>4, <1>5 DEF ReviewAction, ReviewStep

LEMMA SubmitKeepsRows ==
    ASSUME TypeInv, NEW p \in Publishers, NEW s \in Submitters, SubmitAction(s)
    PROVE  KeepsRowsOf(p)
<1> USE RequestsAssumption DEF KeepsRowsOf, chequesOf, itemCurationsOf, collectionCurationsOf
<1>1. CASE UNCHANGED <<itemCurations, collectionCurations, cheques>>
    BY <1>1
<1>2. CASE StartSubmit(s) BY <1>1, <1>2 DEF StartSubmit, tables
<1>3. CASE ReadSubmittedItem(s) BY <1>1, <1>3 DEF ReadSubmittedItem, tables
<1>4. CASE InsertCuration(s)
  <2>1. /\ cheques' = cheques
        /\ \A new \in itemCurations' : new \in itemCurations \/ new.by = s
        /\ \A new \in collectionCurations' : new \in collectionCurations \/ new.by = s
    BY <1>4 DEF InsertCuration
  <2>2. s # p BY RequestsAssumption
  <2> QED BY <2>1, <2>2
<1> QED BY <1>2, <1>3, <1>4 DEF SubmitAction, SubmitStep

\* A publish request writes and deletes only rows of its own.
LEMMA PublishKeepsOthers ==
    ASSUME TypeInv, NEW p \in Publishers, NEW q \in Publishers, p # q, Publish(p)
    PROVE  /\ KeepsRowsOf(q) /\ KeepsLocalsOf(q)
           /\ itemCurationsOf(q)' = itemCurationsOf(q)
           /\ collectionCurationsOf(q)' = collectionCurationsOf(q)
<1>1. /\ {cheque \in cheques' : cheque.by = q} = chequesOf(q)
      /\ {cur \in itemCurations' : cur.by = q} = itemCurationsOf(q)
      /\ {cur \in collectionCurations' : cur.by = q} = collectionCurationsOf(q)
  <2> USE DEF chequesOf, itemCurationsOf, collectionCurationsOf
  <2>1. CASE UNCHANGED tables BY <2>1 DEF tables
  <2>2. CASE CreateCheque(p) BY <2>2 DEF CreateCheque
  <2>3. CASE CreateItemCuration(p) BY <2>3 DEF CreateItemCuration
  <2>4. CASE CreateCollectionCuration(p) BY <2>4 DEF CreateCollectionCuration
  <2>5. CASE DeleteCheque(p) BY <2>5 DEF DeleteCheque
  <2>6. CASE DeleteItemCurations(p) BY <2>6 DEF DeleteItemCurations, curationsOfIds
  <2>7. CASE LinkPost(p) BY <2>7 DEF LinkPost
  <2> QED
      BY <2>1, <2>2, <2>3, <2>4, <2>5, <2>6, <2>7
      DEF Publish, PublishStep, StartPublish, CheckSlots, FindItems, CheckPending,
          FinishItemCurations, CreatePost, UpdatePost, CrashPublish
<1>2. KeepsRowsOf(q)
  BY <1>1 DEF KeepsRowsOf, chequesOf, itemCurationsOf, collectionCurationsOf
<1>3. KeepsLocalsOf(q)
  <2> USE DEF TypeInv, TypeOK, PubTypeOK, KeepsLocalsOf, pubGoto, pubFail, pubLocals
  <2>1. CASE \E stage : pubFail(p, stage) BY <2>1
  <2>2. CASE UNCHANGED pubLocals /\ \E stage : pubGoto(p, stage) BY <2>2
  <2>3. CASE StartPublish(p) BY <2>3 DEF StartPublish
  <2>4. CASE CheckSlots(p) BY <2>1, <2>2, <2>4 DEF CheckSlots, pubReject
  <2>5. CASE FindItems(p) BY <2>1, <2>5 DEF FindItems, pubReject
  <2>6. CASE CheckPending(p) BY <2>1, <2>6 DEF CheckPending, pubReject
  <2>7. CASE CreateCheque(p) BY <2>7 DEF CreateCheque
  <2>8. CASE CreateItemCuration(p) BY <2>8 DEF CreateItemCuration
  <2>9. CASE DeleteItemCurations(p) BY <2>1, <2>9 DEF DeleteItemCurations
  <2>10. CASE FinishItemCurations(p) BY <2>2, <2>10 DEF FinishItemCurations
  <2>11. CASE CreateCollectionCuration(p) BY <2>2, <2>11 DEF CreateCollectionCuration
  <2>12. CASE DeleteCheque(p) BY <2>2, <2>12 DEF DeleteCheque
  <2>13. CASE CreatePost(p) BY <2>2, <2>13 DEF CreatePost
  <2>14. CASE UpdatePost(p) BY <2>2, <2>14 DEF UpdatePost
  <2>15. CASE LinkPost(p) BY <2>2, <2>15 DEF LinkPost
  <2>16. CASE CrashPublish(p) BY <2>2, <2>16 DEF CrashPublish
  <2> QED
      BY <2>3, <2>4, <2>5, <2>6, <2>7, <2>8, <2>9, <2>10, <2>11, <2>12, <2>13,
         <2>14, <2>15, <2>16 DEF Publish, PublishStep
<1> QED BY <1>1, <1>2, <1>3 DEF itemCurationsOf, collectionCurationsOf

\* The rows a publish request has at each of its stages.
LEMMA PublishTrace ==
    ASSUME TypeInv, NEW p \in Publishers, TraceOf(p), Publish(p)
    PROVE  TraceOf(p)'
<1> USE DEF TypeInv, TypeOK, PubTypeOK, TraceOf, BeforeCheque, pubGoto, pubAt, pubFail,
            pubReject, chequesOf, itemCurationsOf, collectionCurationsOf
<1>1. CASE StartPublish(p) BY <1>1 DEF StartPublish, tables
<1>2. CASE CheckSlots(p) BY <1>2 DEF CheckSlots, tables
<1>3. CASE FindItems(p) BY <1>3 DEF FindItems, tables
<1>4. CASE CheckPending(p) BY <1>4 DEF CheckPending, tables
<1>5. CASE CreateCheque(p) BY <1>5 DEF CreateCheque
<1>6. CASE CreateItemCuration(p) BY <1>6 DEF CreateItemCuration
<1>7. CASE FinishItemCurations(p) BY <1>7 DEF FinishItemCurations, tables
<1>8. CASE CreateCollectionCuration(p) BY <1>8 DEF CreateCollectionCuration
<1>9. CASE DeleteCheque(p) BY <1>9 DEF DeleteCheque
<1>10. CASE DeleteItemCurations(p)
    BY <1>10 DEF DeleteItemCurations, curationsOfIds
<1>11. CASE CreatePost(p) BY <1>11 DEF CreatePost, tables
<1>12. CASE UpdatePost(p) BY <1>12 DEF UpdatePost, tables
<1>13. CASE LinkPost(p) BY <1>13 DEF LinkPost
<1>14. CASE CrashPublish(p) BY <1>14 DEF CrashPublish, tables
<1> QED
    BY <1>1, <1>2, <1>3, <1>4, <1>5, <1>6, <1>7, <1>8, <1>9, <1>10, <1>11,
       <1>12, <1>13, <1>14 DEF Publish, PublishStep

LEMMA InitTrace == Init => TraceByStage
BY DEF Init, TablesInit, PubInit, TraceByStage, TraceOf, chequesOf,
       itemCurationsOf, collectionCurationsOf

\* Requests that are no publication keep the rows and the locals of all of them.
LEMMA OthersKeep ==
    ASSUME TypeInv, [Next]_vars, NEW q \in Publishers,
           ~ \E p \in Publishers : Publish(p) /\ UNCHANGED otherThanPub
    PROVE  KeepsRowsOf(q) /\ KeepsLocalsOf(q)
<1>1. CASE UNCHANGED vars
    BY <1>1 DEF vars, tables, pubVars, pubLocals, KeepsRowsOf, KeepsLocalsOf,
                chequesOf, itemCurationsOf, collectionCurationsOf
<1>2. ASSUME UNCHANGED pubVars PROVE KeepsLocalsOf(q)
    BY <1>2 DEF pubVars, pubLocals, KeepsLocalsOf
<1>3. CASE \E e \in Editors : EditAction(e) /\ UNCHANGED otherThanEd
    BY <1>2, <1>3, EditKeepsRows DEF otherThanEd
<1>4. CASE \E d \in Removers : RemoveAction(d) /\ UNCHANGED otherThanRm
    BY <1>2, <1>4, RemoveKeepsRows DEF otherThanRm
<1>5. CASE \E v \in Reviewers : ReviewAction(v) /\ UNCHANGED otherThanRv
    BY <1>2, <1>5, ReviewKeepsRows DEF otherThanRv
<1>6. CASE \E s \in Submitters : SubmitAction(s) /\ UNCHANGED otherThanSb
    BY <1>2, <1>6, SubmitKeepsRows DEF otherThanSb
<1> QED BY <1>1, <1>3, <1>4, <1>5, <1>6, NextActions

LEMMA TraceStep == TypeInv /\ TraceByStage /\ [Next]_vars => TraceByStage'
<1> SUFFICES ASSUME TypeInv, TraceByStage, [Next]_vars, NEW q \in Publishers
             PROVE  TraceOf(q)'
    BY DEF TraceByStage
<1>1. TraceOf(q) BY DEF TraceByStage
<1>2. CASE ~ \E p \in Publishers : Publish(p)
    BY <1>1, <1>2, OthersKeep, KeptTrace
<1>3. CASE \E p \in Publishers : Publish(p)
  <2>1. PICK p \in Publishers : Publish(p) BY <1>3
  <2>2. CASE p = q BY <1>1, <2>1, <2>2, PublishTrace
  <2>3. CASE p # q BY <1>1, <2>1, <2>3, PublishKeepsOthers, KeptTrace
  <2> QED BY <2>2, <2>3
<1> QED BY <1>2, <1>3

\* At each stage of a publication, which tables hold no row of it yet, or no
\* row any more: the inductive invariant behind RefusalIsClean.
THEOREM TraceInvariant == Spec => []TraceByStage
<1>1. TypeInv /\ TraceByStage /\ [Next]_vars => TraceByStage' BY TraceStep
<1> QED BY <1>1, InitTrace, TypeInvariant, PTL DEF Spec

\* A refused publish request leaves no cheque and no curation
\* (RefusedLeavesNoTrace), whatever the other requests do: the catch of
\* publishTPCollection undoes all that its try block wrote, as long as its own
\* deletes run.
THEOREM RefusalIsClean == Spec => []RefusedLeavesNoTrace
<1>1. TraceByStage => RefusedLeavesNoTrace
    BY DEF TraceByStage, TraceOf, RefusedLeavesNoTrace
<1> QED BY <1>1, TraceInvariant, PTL

-----------------------------------------------------------------------------
(* What a publication put under review is paid.                            *)

\* A publication keeps what it found and its cheque.
KeepsFound(p) ==
    /\ pubItems'[p] = pubItems[p]
    /\ chequesOf(p)' = chequesOf(p)

LEMMA FoundKeepsPaid ==
    ASSUME NEW p \in Publishers, KeepsFound(p)
    PROVE  dbItems(p)' = dbItems(p) /\ (hasPaid(p)' <=> hasPaid(p))
BY DEF KeepsFound, dbItems, hasPaid

\* The items a request found are of its collection and as many as it pays for.
LEMMA FindLedger ==
    ASSUME TypeInv, NEW p \in Publishers, TraceOf(p), LedgerOf(p), FindItems(p)
    PROVE  LedgerOf(p)'
<1> USE DEF TypeInv, TypeOK, PubTypeOK, pubGoto, pubAt, tables
<1>1. itemCurationsOf(p)' = {}
  BY DEF FindItems, TraceOf, BeforeCheque, itemCurationsOf
<1>2. CASE pubReject(p)
  BY <1>1, <1>2 DEF LedgerOf, pubReject, pubFail
<1>3. CASE ~pubReject(p)
  <2> DEFINE found == pubCall[p].ids \cap items
  <2>1. /\ pubPc'[p] = "pending"
        /\ pubCall' = pubCall
        /\ pubCall[p].qty = Cardinality(found)
        /\ \A i \in found : CollectionOf[i] = pubCall[p].collection
        /\ pubItems'[p] = [i \in Items |-> IF i \in found THEN contentHash[i] ELSE NoHash]
    BY <1>3 DEF FindItems, hasQuantityOf
  <2>2. dbItems(p)' = {i \in Items : i \in found}
    BY <2>1, NoHashAssumption DEF dbItems, TablesTypeOK
  <2>3. dbItems(p)' = found
    BY <2>2 DEF TablesTypeOK
  <2> HIDE DEF found
  <2> QED BY <1>1, <2>1, <2>3 DEF LedgerOf
<1> QED BY <1>2, <1>3

LEMMA ChequeLedger ==
    ASSUME TypeInv, NEW p \in Publishers, TraceOf(p), LedgerOf(p), CreateCheque(p)
    PROVE  LedgerOf(p)'
<1> USE DEF TypeInv, TypeOK, PubTypeOK, pubGoto, pubAt
<1>1. itemCurationsOf(p)' = {}
  BY DEF CreateCheque, TraceOf, BeforeCheque, itemCurationsOf
<1>2. CASE pubPc'[p] = "undoCurations"
  BY <1>1, <1>2 DEF LedgerOf
<1>3. CASE pubPc'[p] # "undoCurations"
  <2> DEFINE new == [by |-> p, collection |-> pubCall[p].collection, qty |-> pubCall[p].qty]
  <2>1. /\ pubPc'[p] = "curations"
        /\ cheques' = cheques \cup {new}
        /\ pubItems' = pubItems
    BY <1>3 DEF CreateCheque
  <2>2. /\ new \in chequesOf(p)'
        /\ new.qty = pubCall[p].qty
        /\ new.collection = pubCall[p].collection
    BY <2>1 DEF chequesOf
  <2>3. dbItems(p)' = dbItems(p) BY <2>1 DEF dbItems
  <2>4. /\ pubCall[p].qty = Cardinality(dbItems(p))
        /\ \A i \in dbItems(p) : CollectionOf[i] = pubCall[p].collection
    BY DEF CreateCheque, LedgerOf
  <2> HIDE DEF new
  <2>5. hasPaid(p)' BY <2>2, <2>3, <2>4 DEF hasPaid
  <2> QED BY <1>1, <2>1, <2>5 DEF LedgerOf
<1> QED BY <1>2, <1>3

\* The batch never creates two curations for one item.
LEMMA CurationLedger ==
    ASSUME TypeInv, NEW p \in Publishers, LedgerOf(p), CreateItemCuration(p)
    PROVE  LedgerOf(p)'
<1> USE DEF TypeInv, TypeOK, PubTypeOK, TodoWasFound, pubAt
<1> DEFINE new(i) == [by |-> p, item |-> i, status |-> "pending",
                      hash |-> pubItems[p][i], created |-> pubCreated[p]]
<1>1. PICK i \in pubTodo[p] :
          /\ pubTodo' = [pubTodo EXCEPT ![p] = @ \ {i}]
          /\ itemCurations' \in {itemCurations, itemCurations \cup {new(i)}}
  BY DEF CreateItemCuration
<1>2. /\ pubPc'[p] = "curations"
      /\ pubPc[p] = "curations"
      /\ KeepsFound(p)
  BY DEF CreateItemCuration, KeepsFound, chequesOf
<1>3. dbItems(p)' = dbItems(p) /\ hasPaid(p)'
  BY <1>2, FoundKeepsPaid DEF LedgerOf
<1>4. /\ i \in dbItems(p)
      /\ pubTodo'[p] = pubTodo[p] \ {i}
      /\ new(i).item = i
  BY <1>1
<1>5. \A cur \in itemCurationsOf(p)' : cur \in itemCurationsOf(p) \/ cur = new(i)
  BY <1>1 DEF itemCurationsOf
<1>6. \A cur \in itemCurationsOf(p) : cur.item \in dbItems(p) /\ cur.item \notin pubTodo[p]
  BY <1>2 DEF LedgerOf
<1> HIDE DEF new
<1>7. \A cur \in itemCurationsOf(p)' : cur.item \in dbItems(p)' \ pubTodo'[p]
  BY <1>3, <1>4, <1>5, <1>6
<1>8. \A cur \in itemCurationsOf(p)', other \in itemCurationsOf(p)' :
          other.item = cur.item => other = cur
  BY <1>1, <1>4, <1>5, <1>6 DEF LedgerOf
<1> QED BY <1>2, <1>3, <1>7, <1>8 DEF LedgerOf

LEMMA RollbackLedger ==
    ASSUME TypeInv, NEW p \in Publishers, LedgerOf(p), DeleteItemCurations(p)
    PROVE  LedgerOf(p)'
<1> USE DEF TypeInv, TypeOK, PubTypeOK, pubGoto, pubAt, pubFail
<1>1. CASE itemCurations' = itemCurations \ curationsOfIds(p)
  <2>1. itemCurationsOf(p)' = {} BY <1>1 DEF itemCurationsOf, curationsOfIds
  <2>2. pubPc'[p] \in {"dirty", "rejected"} BY DEF DeleteItemCurations
  <2> QED BY <2>1, <2>2 DEF LedgerOf
<1>2. CASE itemCurations' # itemCurations \ curationsOfIds(p)
  <2>1. itemCurations' = itemCurations /\ pubPc'[p] = "dirty"
    BY <1>2 DEF DeleteItemCurations
  <2> QED BY <2>1 DEF LedgerOf, itemCurationsOf
<1> QED BY <1>1, <1>2

\* The steps that change neither what was found nor the cheque, nor what is
\* under review, and that do not move to a stage with a stronger claim.
LEMMA QuietLedger ==
    ASSUME TypeInv, NEW p \in Publishers, LedgerOf(p), KeepsFound(p),
           pubCall' = pubCall, pubTodo' = pubTodo, itemCurations' = itemCurations,
           pubPc[p] # "undoCurations" \/ pubPc'[p] = "dirty",
           pubPc'[p] \in {"pending", "cheque"} => pubPc[p] \in {"pending", "cheque"},
           pubPc'[p] \in {"curations", "collection"} => pubPc[p] \in {"curations", "collection"},
           pubPc[p] # "dirty"
    PROVE  LedgerOf(p)'
<1>1. dbItems(p)' = dbItems(p) /\ (hasPaid(p)' <=> hasPaid(p))
  BY FoundKeepsPaid
<1>2. itemCurationsOf(p)' = itemCurationsOf(p) BY DEF itemCurationsOf
<1> QED BY <1>1, <1>2 DEF LedgerOf

LEMMA PublishLedger ==
    ASSUME TypeInv, NEW p \in Publishers, TraceOf(p), LedgerOf(p), Publish(p)
    PROVE  LedgerOf(p)'
<1> USE DEF TypeInv, TypeOK, PubTypeOK, pubGoto, pubAt
<1>1. CASE pubReject(p) /\ UNCHANGED tables /\ pubPc[p] \in BeforeCheque
  <2>1. itemCurationsOf(p)' = {} /\ pubPc'[p] = "rejected"
    BY <1>1 DEF TraceOf, itemCurationsOf, tables, pubReject, pubFail
  <2> QED BY <2>1 DEF LedgerOf
<1>2. CASE StartPublish(p)
  <2>1. itemCurationsOf(p)' = {} /\ pubPc'[p] = "slots"
    BY <1>2 DEF StartPublish, TraceOf, BeforeCheque, itemCurationsOf, tables
  <2> QED BY <2>1 DEF LedgerOf
<1>3. CASE CheckSlots(p)
  <2>1. CASE pubReject(p) BY <1>1, <1>3, <2>1 DEF CheckSlots, BeforeCheque
  <2>2. CASE ~pubReject(p)
    <3>1. /\ KeepsFound(p) /\ UNCHANGED <<pubCall, pubTodo, itemCurations>>
          /\ pubPc[p] = "slots" /\ pubPc'[p] = "items"
      BY <1>3, <2>2 DEF CheckSlots, tables, pubLocals, KeepsFound, chequesOf
    <3> QED BY <3>1, QuietLedger
  <2> QED BY <2>1, <2>2
<1>4. CASE FindItems(p) BY <1>4, FindLedger
<1>5. CASE CheckPending(p)
  <2>1. CASE pubReject(p) BY <1>1, <1>5, <2>1 DEF CheckPending, BeforeCheque
  <2>2. CASE ~pubReject(p)
    <3>1. /\ KeepsFound(p) /\ UNCHANGED <<pubCall, pubTodo, itemCurations>>
          /\ pubPc[p] = "pending" /\ pubPc'[p] = "cheque"
      BY <1>5, <2>2 DEF CheckPending, tables, KeepsFound, chequesOf
    <3> QED BY <3>1, QuietLedger
  <2> QED BY <2>1, <2>2
<1>6. CASE CreateCheque(p) BY <1>6, ChequeLedger
<1>7. CASE CreateItemCuration(p) BY <1>7, CurationLedger
<1>8. CASE FinishItemCurations(p)
  <2>1. /\ KeepsFound(p) /\ UNCHANGED <<pubCall, pubTodo, itemCurations>>
        /\ pubPc[p] = "curations" /\ pubPc'[p] \in {"undoCheque", "collection"}
    BY <1>8 DEF FinishItemCurations, tables, pubLocals, KeepsFound, chequesOf
  <2> QED BY <2>1, QuietLedger
<1>9. CASE CreateCollectionCuration(p)
  <2>1. /\ KeepsFound(p) /\ UNCHANGED <<pubCall, pubTodo, itemCurations>>
        /\ pubPc[p] = "collection" /\ pubPc'[p] \in {"undoCheque", "forum"}
    BY <1>9 DEF CreateCollectionCuration, pubLocals, KeepsFound, chequesOf
  <2> QED BY <2>1, QuietLedger
<1>10. CASE DeleteCheque(p)
  <2>1. CASE pubPc'[p] = "undoCurations"
    <3>1. /\ UNCHANGED <<pubItems, pubTodo, itemCurations>>
          /\ pubPc[p] = "undoCheque"
      BY <1>10 DEF DeleteCheque, pubLocals
    <3>2. dbItems(p)' = dbItems(p) /\ itemCurationsOf(p)' = itemCurationsOf(p)
      BY <3>1 DEF dbItems, itemCurationsOf
    <3> QED BY <2>1, <3>1, <3>2 DEF LedgerOf
  <2>2. CASE pubPc'[p] # "undoCurations"
    <3>1. /\ KeepsFound(p) /\ UNCHANGED <<pubCall, pubTodo, itemCurations>>
          /\ pubPc[p] = "undoCheque" /\ pubPc'[p] = "undoRest"
      BY <1>10, <2>2 DEF DeleteCheque, pubLocals, KeepsFound, chequesOf
    <3> QED BY <3>1, QuietLedger
  <2> QED BY <2>1, <2>2
<1>11. CASE DeleteItemCurations(p) BY <1>11, RollbackLedger
<1>12. CASE CreatePost(p) \/ UpdatePost(p) \/ LinkPost(p)
  <2>1. /\ KeepsFound(p) /\ UNCHANGED <<pubCall, pubTodo, itemCurations>>
        /\ pubPc[p] \in {"forum", "link"} /\ pubPc'[p] \in {"link", "unposted", "done"}
    BY <1>12 DEF CreatePost, UpdatePost, LinkPost, tables, pubLocals, KeepsFound, chequesOf
  <2> QED BY <2>1, QuietLedger
<1>13. CASE CrashPublish(p)
  <2>1. /\ KeepsFound(p) /\ UNCHANGED <<pubCall, pubTodo, itemCurations>>
        /\ pubPc[p] \notin PubFinal
        /\ pubPc'[p] = IF pubPc[p] = "undoCurations" THEN "dirty" ELSE "crashed"
    BY <1>13 DEF CrashPublish, tables, pubLocals, KeepsFound, chequesOf
  <2> QED BY <2>1, QuietLedger DEF PubFinal
<1> QED
    BY <1>2, <1>3, <1>4, <1>5, <1>6, <1>7, <1>8, <1>9, <1>10, <1>11, <1>12,
       <1>13 DEF Publish, PublishStep

LEMMA InitLedger == Init => LedgerByStage
BY DEF Init, TablesInit, PubInit, LedgerByStage, LedgerOf, itemCurationsOf

LEMMA LedgerStep ==
    TypeInv /\ TraceByStage /\ LedgerByStage /\ [Next]_vars => LedgerByStage'
<1> SUFFICES ASSUME TypeInv, TraceByStage, LedgerByStage, [Next]_vars,
                    NEW q \in Publishers
             PROVE  LedgerOf(q)'
    BY DEF LedgerByStage
<1>1. LedgerOf(q) /\ TraceOf(q) BY DEF LedgerByStage, TraceByStage
<1>2. CASE ~ \E p \in Publishers : Publish(p)
    BY <1>1, <1>2, OthersKeep, KeptLedger
<1>3. CASE \E p \in Publishers : Publish(p)
  <2>1. PICK p \in Publishers : Publish(p) BY <1>3
  <2>2. CASE p = q BY <1>1, <2>1, <2>2, PublishLedger
  <2>3. CASE p # q BY <1>1, <2>1, <2>3, PublishKeepsOthers, KeptLedger
  <2> QED BY <2>2, <2>3
<1> QED BY <1>2, <1>3

\* The ledger of every publication: what it found, what it paid for and what it
\* put under review agree at every stage, also after a crash.
THEOREM LedgerInvariant == Spec => []LedgerByStage
<1>1. TypeInv /\ TraceByStage /\ LedgerByStage /\ [Next]_vars => LedgerByStage'
  BY LedgerStep
<1> QED BY <1>1, InitLedger, TypeInvariant, TraceInvariant, PTL DEF Spec

\* A publication has at most as many curations as it found items: no two of
\* them are for the same item.
LEMMA AtMostFound ==
    ASSUME NEW p \in Publishers, LedgerOf(p), pubPc[p] # "dirty"
    PROVE  Cardinality(itemCurationsOf(p)) <= Cardinality(dbItems(p))
<1> DEFINE itemOf == [cur \in itemCurationsOf(p) |-> cur.item]
<1>1. itemOf \in Injection(itemCurationsOf(p), dbItems(p))
  BY DEF Injection, IsInjective, LedgerOf
<1>2. IsFiniteSet(dbItems(p))
  BY FiniteAssumption, FS_Subset DEF dbItems
<1> HIDE DEF itemOf
<1> QED BY <1>1, <1>2, FS_Injection

\* Every curation of a publication is covered by its cheque (CurationsArePaid),
\* but for a publication whose rollback was left half way: for any number of
\* requests, any faults and any place of a crash.
THEOREM PaidCurations == Spec => []CurationsArePaid
<1>1. LedgerByStage => CurationsArePaid
  <2> SUFFICES ASSUME LedgerByStage, NEW p \in Publishers,
                      NEW cur \in itemCurationsOf(p),
                      pubPc[p] \notin {"undoCurations", "dirty"}
               PROVE  \E cheque \in chequesOf(p) :
                          /\ cheque.collection = CollectionOf[cur.item]
                          /\ Cardinality(itemCurationsOf(p)) <= cheque.qty
    BY DEF CurationsArePaid
  <2>1. hasPaid(p) /\ cur.item \in dbItems(p)
    BY DEF LedgerByStage, LedgerOf
  <2>2. Cardinality(itemCurationsOf(p)) <= Cardinality(dbItems(p))
    BY AtMostFound DEF LedgerByStage
  <2> QED BY <2>1, <2>2 DEF hasPaid
<1> QED BY <1>1, LedgerInvariant, PTL

-----------------------------------------------------------------------------
(* Requests served one at a time (MaxInFlight = 1): whoever is served is   *)
(* alone, so what it has read still holds when it writes.                  *)

\* Nobody but the named request is being served.
OnlyPublisher(p) ==
    /\ PublishersInFlight \subseteq {p} /\ EditorsInFlight = {} /\ RemoversInFlight = {}
    /\ ReviewersInFlight = {} /\ SubmittersInFlight = {}
OnlyEditor(e) ==
    /\ PublishersInFlight = {} /\ EditorsInFlight \subseteq {e} /\ RemoversInFlight = {}
    /\ ReviewersInFlight = {} /\ SubmittersInFlight = {}
OnlyRemover(d) ==
    /\ PublishersInFlight = {} /\ EditorsInFlight = {} /\ RemoversInFlight \subseteq {d}
    /\ ReviewersInFlight = {} /\ SubmittersInFlight = {}
OnlyReviewer(v) ==
    /\ PublishersInFlight = {} /\ EditorsInFlight = {} /\ RemoversInFlight = {}
    /\ ReviewersInFlight \subseteq {v} /\ SubmittersInFlight = {}
OnlySubmitter(s) ==
    /\ PublishersInFlight = {} /\ EditorsInFlight = {} /\ RemoversInFlight = {}
    /\ ReviewersInFlight = {} /\ SubmittersInFlight \subseteq {s}

Exclusive ==
    \/ Quiescent
    \/ \E p \in Publishers : OnlyPublisher(p)
    \/ \E e \in Editors : OnlyEditor(e)
    \/ \E d \in Removers : OnlyRemover(d)
    \/ \E v \in Reviewers : OnlyReviewer(v)
    \/ \E s \in Submitters : OnlySubmitter(s)

\* A curation is of an item in a collection, both stored.
CurationsPlaced ==
    \A cur \in itemCurations :
        cur.item \in items /\ CollectionOf[cur.item] \in collections /\ cur.created < clock

\* A request curates an item once, and no two curations of it have one date.
CurationsKeyed ==
    \A a, b \in itemCurations :
        a.item = b.item /\ (a.by = b.by \/ a.created = b.created) => a = b

\* Only the latest curation of an item is open.
LatestIsOpen ==
    \A a, b \in itemCurations :
        a.item = b.item /\ a.status = "pending" /\ a # b => b.created < a.created

\* A review request that has not inserted yet has no curation.
SubmittersFresh ==
    \A s \in Submitters : sbPc[s] \in {"idle", "read", "insert"} =>
        \A cur \in itemCurations : cur.by # s

TablesHold ==
    CurationsPlaced /\ CurationsKeyed /\ LatestIsOpen /\ SubmittersFresh /\ SlotsRespected

\* A publication that got past its batch has a curation of each item.
StoredWhole ==
    \A p \in Publishers :
        pubPc[p] \in {"collection", "forum", "link", "done", "unposted"} =>
            \A i \in dbItems(p) : \E cur \in itemCurations : cur.by = p /\ cur.item = i

\* What a publication has checked, and what it has written so far.
PublisherHolds(p) ==
    LET call == pubCall[p]
    IN  /\ call.collection \in collections
        /\ pubPc[p] \in {"items", "pending", "cheque", "curations"} =>
               Cardinality(CuratedItems \cup call.ids) <= MaxItems
        /\ pubPc[p] \in {"pending", "cheque", "curations"} =>
               \A i \in dbItems(p) : i \in call.ids /\ CollectionOf[i] = call.collection
        /\ pubPc[p] \in {"cheque", "curations"} =>
               /\ pubCreated[p] < clock
               /\ \A cur \in itemCurations :
                      cur.by # p /\ CollectionOf[cur.item] = call.collection =>
                          cur.status # "pending" /\ cur.created < pubCreated[p]
        /\ pubPc[p] = "curations" =>
               \A i \in dbItems(p) \ pubTodo[p] :
                   pubError[p] \/ \E cur \in itemCurations : cur.by = p /\ cur.item = i

\* What is deleted is not under review.
RemoverHolds(d) ==
    \A i \in CuratedItems :
        /\ rmPc[d] = "item" => i # rmTarget[d]
        /\ rmPc[d] \in {"collection", "items"} => CollectionOf[i] # rmTarget[d]

\* The curation to decide on is the latest of its item.
ReviewerHolds(v) ==
    \A cur, other \in itemCurations :
        cur.by = rvBy[v] /\ cur.item = rvTarget[v] /\ other.item = rvTarget[v]
            => other.created <= cur.created

\* The item was curated, and no curation of it is open.
SubmitterHolds(s) ==
    /\ sbCreated[s] < clock
    /\ sbTarget[s] \in Items =>
           /\ \E cur \in itemCurations : cur.item = sbTarget[s]
           /\ \A cur \in itemCurations : cur.item = sbTarget[s] =>
                  cur.status # "pending" /\ cur.created < sbCreated[s]

SerialInv ==
    /\ Exclusive /\ TablesHold /\ StoredWhole
    /\ \A p \in PublishersInFlight : PublisherHolds(p)
    /\ \A d \in RemoversInFlight : RemoverHolds(d)
    /\ \A v \in ReviewersInFlight : ReviewerHolds(v)
    /\ \A s \in SubmittersInFlight : SubmitterHolds(s)

\* While no process dies, a topic is linked unless its request was answered with
\* an error, and the next publication of the collection read the link.
TopicsLinked ==
    /\ \A p \in topics : pubPc[p] \in {"link", "done", "unposted"}
    /\ \A p \in topics :
           pubPc[p] = "done" => forumId[pubCall[p].collection] # NoTopic
    /\ \A p \in PublishersInFlight : pubCall[p].forum = forumId[pubCall[p].collection]
    /\ \A p \in PublishersInFlight : pubPc[p] = "link" => pubCall[p].forum = NoTopic
    /\ OneTopicPerCollection

-----------------------------------------------------------------------------
(* Who is served.                                                          *)

\* Nobody is served when a request starts.
LEMMA StartsAlone ==
    ASSUME MaxInFlight = 1, Exclusive, InFlight < MaxInFlight
    PROVE  Quiescent
<1>1. Cardinality({}) = 0
  BY FS_EmptySet
<1>2. ASSUME NEW S, NEW x, S \subseteq {x}, S # {}
      PROVE  Cardinality(S) = 1
  <2>1. S = {x} BY <1>2
  <2> QED BY <2>1, FS_Singleton
<1>3. ASSUME NEW p \in Publishers, OnlyPublisher(p) PROVE Quiescent
  <2>1. Cardinality(PublishersInFlight) # 1 BY <1>1, <1>3 DEF InFlight, OnlyPublisher
  <2> QED BY <1>2, <1>3, <2>1 DEF OnlyPublisher, Quiescent
<1>4. ASSUME NEW e \in Editors, OnlyEditor(e) PROVE Quiescent
  <2>1. Cardinality(EditorsInFlight) # 1 BY <1>1, <1>4 DEF InFlight, OnlyEditor
  <2> QED BY <1>2, <1>4, <2>1 DEF OnlyEditor, Quiescent
<1>5. ASSUME NEW d \in Removers, OnlyRemover(d) PROVE Quiescent
  <2>1. Cardinality(RemoversInFlight) # 1 BY <1>1, <1>5 DEF InFlight, OnlyRemover
  <2> QED BY <1>2, <1>5, <2>1 DEF OnlyRemover, Quiescent
<1>6. ASSUME NEW v \in Reviewers, OnlyReviewer(v) PROVE Quiescent
  <2>1. Cardinality(ReviewersInFlight) # 1 BY <1>1, <1>6 DEF InFlight, OnlyReviewer
  <2> QED BY <1>2, <1>6, <2>1 DEF OnlyReviewer, Quiescent
<1>7. ASSUME NEW s \in Submitters, OnlySubmitter(s) PROVE Quiescent
  <2>1. Cardinality(SubmittersInFlight) # 1 BY <1>1, <1>7 DEF InFlight, OnlySubmitter
  <2> QED BY <1>2, <1>7, <2>1 DEF OnlySubmitter, Quiescent
<1> QED BY <1>3, <1>4, <1>5, <1>6, <1>7 DEF Exclusive

LEMMA PublisherAlone ==
    ASSUME TypeInv, NEW p \in Publishers, Publish(p), UNCHANGED otherThanPub,
           Quiescent \/ (Exclusive /\ p \in PublishersInFlight)
    PROVE  OnlyPublisher(p) /\ OnlyPublisher(p)'
<1>1. OnlyPublisher(p)
  BY DEF Quiescent, Exclusive, OnlyPublisher, OnlyEditor, OnlyRemover, OnlyReviewer, OnlySubmitter
<1>2. \A q \in Publishers \ {p} : pubPc'[q] = pubPc[q]
  BY PublishKeepsOthers DEF KeepsLocalsOf
<1>3. PublishersInFlight' \subseteq {p}
  BY <1>1, <1>2 DEF OnlyPublisher, PublishersInFlight
<1> QED
  BY <1>1, <1>3 DEF OnlyPublisher, otherThanPub, edVars, rmVars, rvVars, sbVars,
     EditorsInFlight, RemoversInFlight, ReviewersInFlight, SubmittersInFlight

LEMMA EditorAlone ==
    ASSUME TypeInv, NEW e \in Editors, EditAction(e), UNCHANGED otherThanEd,
           Quiescent \/ (Exclusive /\ e \in EditorsInFlight)
    PROVE  OnlyEditor(e) /\ OnlyEditor(e)'
<1>1. OnlyEditor(e)
  BY DEF Quiescent, Exclusive, OnlyPublisher, OnlyEditor, OnlyRemover, OnlyReviewer, OnlySubmitter
<1>2. \A q \in Editors \ {e} : edPc'[q] = edPc[q]
  BY DEF EditAction, EditStep, StartUpsert, UpsertItem, SyncPendingCurations, AbortUpsert,
     edEnd, TypeInv, TypeOK, ItemsTypeOK
<1>3. EditorsInFlight' \subseteq {e}
  BY <1>1, <1>2 DEF OnlyEditor, EditorsInFlight
<1> QED
  BY <1>1, <1>3 DEF OnlyEditor, otherThanEd, pubVars, rmVars, rvVars, sbVars,
     PublishersInFlight, RemoversInFlight, ReviewersInFlight, SubmittersInFlight

LEMMA RemoverAlone ==
    ASSUME TypeInv, NEW d \in Removers, RemoveAction(d), UNCHANGED otherThanRm,
           Quiescent \/ (Exclusive /\ d \in RemoversInFlight)
    PROVE  OnlyRemover(d) /\ OnlyRemover(d)'
<1>1. OnlyRemover(d)
  BY DEF Quiescent, Exclusive, OnlyPublisher, OnlyEditor, OnlyRemover, OnlyReviewer, OnlySubmitter
<1>2. \A q \in Removers \ {d} : rmPc'[q] = rmPc[q]
  BY DEF RemoveAction, RemoveStep, StartDeleteItem, StartDeleteCollection, DeleteItem,
     DeleteCollection, DeleteItemsOfCollection, AbortDelete, TypeInv, TypeOK, ItemsTypeOK
<1>3. RemoversInFlight' \subseteq {d}
  BY <1>1, <1>2 DEF OnlyRemover, RemoversInFlight
<1> QED
  BY <1>1, <1>3 DEF OnlyRemover, otherThanRm, pubVars, edVars, rvVars, sbVars,
     PublishersInFlight, EditorsInFlight, ReviewersInFlight, SubmittersInFlight

LEMMA ReviewerAlone ==
    ASSUME TypeInv, NEW v \in Reviewers, ReviewAction(v), UNCHANGED otherThanRv,
           Quiescent \/ (Exclusive /\ v \in ReviewersInFlight)
    PROVE  OnlyReviewer(v) /\ OnlyReviewer(v)'
<1>1. OnlyReviewer(v)
  BY DEF Quiescent, Exclusive, OnlyPublisher, OnlyEditor, OnlyRemover, OnlyReviewer, OnlySubmitter
<1>2. \A q \in Reviewers \ {v} : rvPc'[q] = rvPc[q]
  BY DEF ReviewAction, ReviewStep, StartReview, TouchCollectionCuration, ReadReviewedItem,
     UpdateCuration, rvEnd, rvGoto, TypeInv, TypeOK, ReviewTypeOK
<1>3. ReviewersInFlight' \subseteq {v}
  BY <1>1, <1>2 DEF OnlyReviewer, ReviewersInFlight
<1> QED
  BY <1>1, <1>3 DEF OnlyReviewer, otherThanRv, pubVars, edVars, rmVars, sbVars,
     PublishersInFlight, EditorsInFlight, RemoversInFlight, SubmittersInFlight

LEMMA SubmitterAlone ==
    ASSUME TypeInv, NEW s \in Submitters, SubmitAction(s), UNCHANGED otherThanSb,
           Quiescent \/ (Exclusive /\ s \in SubmittersInFlight)
    PROVE  OnlySubmitter(s) /\ OnlySubmitter(s)'
<1>1. OnlySubmitter(s)
  BY DEF Quiescent, Exclusive, OnlyPublisher, OnlyEditor, OnlyRemover, OnlyReviewer, OnlySubmitter
<1>2. \A q \in Submitters \ {s} : sbPc'[q] = sbPc[q]
  BY DEF SubmitAction, SubmitStep, StartSubmit, ReadSubmittedItem, InsertCuration,
     sbEnd, sbGoto, TypeInv, TypeOK, ReviewTypeOK
<1>3. SubmittersInFlight' \subseteq {s}
  BY <1>1, <1>2 DEF OnlySubmitter, SubmittersInFlight
<1> QED
  BY <1>1, <1>3 DEF OnlySubmitter, otherThanSb, pubVars, edVars, rmVars, rvVars,
     PublishersInFlight, EditorsInFlight, RemoversInFlight, ReviewersInFlight

\* Whoever moves is alone, before and after.
LEMMA MovesAlone ==
    ASSUME MaxInFlight = 1, TypeInv, Exclusive, Next
    PROVE  \/ \E p \in Publishers : /\ Publish(p) /\ UNCHANGED otherThanPub
                                    /\ OnlyPublisher(p) /\ OnlyPublisher(p)'
           \/ \E e \in Editors : /\ EditAction(e) /\ UNCHANGED otherThanEd
                                 /\ OnlyEditor(e) /\ OnlyEditor(e)'
           \/ \E d \in Removers : /\ RemoveAction(d) /\ UNCHANGED otherThanRm
                                  /\ OnlyRemover(d) /\ OnlyRemover(d)'
           \/ \E v \in Reviewers : /\ ReviewAction(v) /\ UNCHANGED otherThanRv
                                   /\ OnlyReviewer(v) /\ OnlyReviewer(v)'
           \/ \E s \in Submitters : /\ SubmitAction(s) /\ UNCHANGED otherThanSb
                                    /\ OnlySubmitter(s) /\ OnlySubmitter(s)'
<1>1. ASSUME NEW p \in Publishers, PublishStep(p) \/ CrashPublish(p)
      PROVE  p \in PublishersInFlight
  BY <1>1 DEF PublishStep, CheckSlots, FindItems, CheckPending, CreateCheque,
     CreateItemCuration, FinishItemCurations, CreateCollectionCuration, DeleteCheque,
     DeleteItemCurations, CreatePost, UpdatePost, LinkPost, CrashPublish, pubAt,
     PublishersInFlight, PubFinal
<1>2. ASSUME NEW e \in Editors, EditStep(e) \/ AbortUpsert(e) PROVE e \in EditorsInFlight
  BY <1>2 DEF EditStep, UpsertItem, SyncPendingCurations, AbortUpsert, EditorsInFlight
<1>3. ASSUME NEW d \in Removers, RemoveStep(d) \/ AbortDelete(d) PROVE d \in RemoversInFlight
  BY <1>3 DEF RemoveStep, DeleteItem, DeleteCollection, DeleteItemsOfCollection, AbortDelete,
     RemoversInFlight
<1>4. ASSUME NEW v \in Reviewers, ReviewStep(v) PROVE v \in ReviewersInFlight
  BY <1>4 DEF ReviewStep, TouchCollectionCuration, ReadReviewedItem, UpdateCuration,
     ReviewersInFlight
<1>5. ASSUME NEW s \in Submitters, SubmitStep(s) PROVE s \in SubmittersInFlight
  BY <1>5 DEF SubmitStep, ReadSubmittedItem, InsertCuration, SubmittersInFlight
<1>6. CASE Start
  <2>1. Quiescent BY <1>6, StartsAlone DEF Start
  <2>2. CASE \E p \in Publishers : StartPublish(p) /\ UNCHANGED otherThanPub
    BY <2>1, <2>2, PublisherAlone DEF Publish
  <2>3. CASE \E e \in Editors : StartUpsert(e) /\ UNCHANGED otherThanEd
    BY <2>1, <2>3, EditorAlone DEF EditAction
  <2>4. CASE \E d \in Removers : /\ StartDeleteItem(d) \/ StartDeleteCollection(d)
                                 /\ UNCHANGED otherThanRm
    BY <2>1, <2>4, RemoverAlone DEF RemoveAction
  <2>5. CASE \E v \in Reviewers : StartReview(v) /\ UNCHANGED otherThanRv
    BY <2>1, <2>5, ReviewerAlone DEF ReviewAction
  <2>6. CASE \E s \in Submitters : StartSubmit(s) /\ UNCHANGED otherThanSb
    BY <2>1, <2>6, SubmitterAlone DEF SubmitAction
  <2> QED BY <1>6, <2>2, <2>3, <2>4, <2>5, <2>6 DEF Start
<1>7. CASE Step \/ Crash
  <2>1. CASE \E p \in Publishers : /\ PublishStep(p) \/ CrashPublish(p)
                                   /\ UNCHANGED otherThanPub
    BY <1>1, <2>1, PublisherAlone DEF Publish
  <2>2. CASE \E e \in Editors : /\ EditStep(e) \/ AbortUpsert(e)
                                /\ UNCHANGED otherThanEd
    BY <1>2, <2>2, EditorAlone DEF EditAction
  <2>3. CASE \E d \in Removers : /\ RemoveStep(d) \/ AbortDelete(d)
                                 /\ UNCHANGED otherThanRm
    BY <1>3, <2>3, RemoverAlone DEF RemoveAction
  <2>4. CASE \E v \in Reviewers : ReviewStep(v) /\ UNCHANGED otherThanRv
    BY <1>4, <2>4, ReviewerAlone DEF ReviewAction
  <2>5. CASE \E s \in Submitters : SubmitStep(s) /\ UNCHANGED otherThanSb
    BY <1>5, <2>5, SubmitterAlone DEF SubmitAction
  <2> QED BY <1>7, <2>1, <2>2, <2>3, <2>4, <2>5 DEF Step, Crash
<1> QED BY <1>6, <1>7 DEF Next

-----------------------------------------------------------------------------
(* What the writes leave of the tables.                                    *)

\* The rows are rewritten, each keeping what it is known by.
RowsMapped(f) ==
    /\ itemCurations' = {f[cur] : cur \in itemCurations}
    /\ \A cur \in itemCurations :
           f[cur].by = cur.by /\ f[cur].item = cur.item /\ f[cur].created = cur.created

\* No curation is left without its item or collection.
PlacesKept ==
    /\ \A cur \in itemCurations' : cur.item \in items' /\ CollectionOf[cur.item] \in collections'
    /\ clock \in Nat /\ clock' \in Nat /\ clock <= clock'
    /\ \A s \in Submitters : sbPc'[s] \in {"idle", "read", "insert"}
                                => sbPc[s] \in {"idle", "read", "insert"}

LEMMA MappedRows ==
    ASSUME TypeInv, TablesHold, PlacesKept, NEW f, RowsMapped(f)
    PROVE  /\ CurationsPlaced' /\ CurationsKeyed' /\ SubmittersFresh' /\ SlotsRespected'
           /\ CuratedItems' = CuratedItems
           /\ (\A cur \in itemCurations : f[cur].status = cur.status) => LatestIsOpen'
<1>1. \A cur \in itemCurations : cur.created \in Nat
  BY DEF TypeInv, TypeOK, TablesTypeOK, ItemCuration
<1>2. CurationsPlaced'
  BY <1>1 DEF RowsMapped, PlacesKept, TablesHold, CurationsPlaced
<1>3. CurationsKeyed'
  BY DEF RowsMapped, TablesHold, CurationsKeyed
<1>4. SubmittersFresh'
  BY DEF RowsMapped, PlacesKept, TablesHold, SubmittersFresh
<1>5. CuratedItems' = CuratedItems
  BY DEF RowsMapped, CuratedItems
<1>6. SlotsRespected'
  BY <1>5 DEF TablesHold, SlotsRespected
<1>7. ASSUME \A cur \in itemCurations : f[cur].status = cur.status
      PROVE  LatestIsOpen'
  BY <1>7 DEF RowsMapped, TablesHold, LatestIsOpen
<1> QED BY <1>2, <1>3, <1>4, <1>5, <1>6, <1>7

LEMMA CuratedFinite ==
    ASSUME TypeInv, NEW S \in SUBSET Items
    PROVE  /\ IsFiniteSet(S) /\ Cardinality(S) \in Nat
           /\ \A T \in SUBSET S : Cardinality(T) <= Cardinality(S) /\ Cardinality(T) \in Nat
<1>1. IsFiniteSet(S) BY FiniteAssumption, FS_Subset
<1>2. \A T \in SUBSET S : IsFiniteSet(T) /\ Cardinality(T) <= Cardinality(S)
  BY <1>1, FS_Subset
<1> QED BY <1>1, <1>2, FS_CardinalityType

LEMMA CuratedAreItems == TypeInv => CuratedItems \subseteq Items /\ MaxItems \in Nat
BY MaxItemsAssumption DEF TypeInv, TypeOK, TablesTypeOK, ItemCuration, CuratedItems

\* Fewer items under review take no more slots.
LEMMA SlotsShrink ==
    ASSUME TypeInv, NEW S \in SUBSET Items, CuratedItems' \subseteq S,
           Cardinality(S) <= MaxItems
    PROVE  SlotsRespected'
<1>1. Cardinality(CuratedItems') <= Cardinality(S) /\ Cardinality(CuratedItems') \in Nat
      /\ Cardinality(S) \in Nat
  BY CuratedFinite
<1> QED BY <1>1, MaxItemsAssumption DEF SlotsRespected

LEMMA FewerRows ==
    ASSUME TypeInv, TablesHold, PlacesKept, itemCurations' \subseteq itemCurations
    PROVE  TablesHold'
<1>1. \A cur \in itemCurations : cur.created \in Nat
  BY DEF TypeInv, TypeOK, TablesTypeOK, ItemCuration
<1>2. CurationsPlaced'
  BY <1>1 DEF PlacesKept, TablesHold, CurationsPlaced
<1>3. CurationsKeyed' /\ LatestIsOpen'
  BY DEF TablesHold, CurationsKeyed, LatestIsOpen
<1>4. SubmittersFresh'
  BY DEF PlacesKept, TablesHold, SubmittersFresh
<1>5. CuratedItems' \subseteq CuratedItems BY DEF CuratedItems
<1>6. SlotsRespected'
  BY <1>5, SlotsShrink, CuratedAreItems DEF TablesHold, SlotsRespected
<1> QED BY <1>2, <1>3, <1>4, <1>6 DEF TablesHold

\* A new row is the latest of its item, and the only open one.
LEMMA OneMoreRow ==
    ASSUME TypeInv, TablesHold, PlacesKept, NEW new,
           itemCurations' = itemCurations \cup {new},
           new.created \in Nat, new.created < clock',
           \A cur \in itemCurations : cur.item = new.item =>
               cur.by # new.by /\ cur.status # "pending" /\ cur.created < new.created,
           SlotsRespected',
           \A s \in Submitters : sbPc'[s] \in {"idle", "read", "insert"} => new.by # s
    PROVE  TablesHold'
<1>1. \A cur \in itemCurations : cur.created \in Nat
  BY DEF TypeInv, TypeOK, TablesTypeOK, ItemCuration
<1>2. CurationsPlaced'
  BY <1>1 DEF PlacesKept, TablesHold, CurationsPlaced
<1>3. CurationsKeyed'
  BY <1>1 DEF TablesHold, CurationsKeyed
<1>4. LatestIsOpen'
  BY <1>1 DEF TablesHold, LatestIsOpen
<1>5. SubmittersFresh'
  BY DEF PlacesKept, TablesHold, SubmittersFresh
<1> QED BY <1>2, <1>3, <1>4, <1>5 DEF TablesHold

-----------------------------------------------------------------------------
(* Editors.                                                                *)

LEMMA WholeKept ==
    ASSUME TypeInv, StoredWhole, UNCHANGED pubVars,
           \A cur \in itemCurations : \E new \in itemCurations' :
               new.by = cur.by /\ new.item = cur.item
    PROVE  StoredWhole'
BY DEF StoredWhole, pubVars, pubLocals, dbItems

LEMMA EditorSerial ==
    ASSUME TypeInv, SerialInv, NEW e \in Editors, EditAction(e), UNCHANGED otherThanEd,
           OnlyEditor(e)'
    PROVE  SerialInv'
<1>1. UNCHANGED <<pubVars, sbVars>>
  BY DEF otherThanEd
<1>2. PlacesKept
  <2>1. UNCHANGED <<collections, clock, sbPc>> /\ items \subseteq items'
    BY DEF otherThanEd, sbVars, EditAction, EditStep, StartUpsert, UpsertItem,
       SyncPendingCurations, AbortUpsert, tables
  <2>2. \A new \in itemCurations' : \E cur \in itemCurations : cur.item = new.item
    <3>1. CASE SyncPendingCurations(e)
      <4>1. \A cur \in itemCurations : synced(e, cur).item = cur.item
        BY DEF TypeInv, TypeOK, TablesTypeOK, ItemCuration, synced
      <4> QED BY <3>1, <4>1 DEF SyncPendingCurations
    <3>2. CASE ~SyncPendingCurations(e)
      BY <3>2 DEF EditAction, EditStep, StartUpsert, UpsertItem, AbortUpsert, tables
    <3> QED BY <3>1, <3>2
  <2> QED BY <2>1, <2>2 DEF PlacesKept, SerialInv, TablesHold, CurationsPlaced, TypeInv,
             TypeOK, TablesTypeOK
<1>3. TablesHold' /\ StoredWhole'
  <2>1. CASE SyncPendingCurations(e)
    <3> DEFINE f == [cur \in itemCurations |-> synced(e, cur)]
    <3>1. \A cur \in itemCurations :
              /\ f[cur].by = cur.by /\ f[cur].item = cur.item
              /\ f[cur].created = cur.created /\ f[cur].status = cur.status
      BY DEF TypeInv, TypeOK, TablesTypeOK, ItemCuration, synced
    <3>2. itemCurations' = {f[cur] : cur \in itemCurations}
      BY <2>1 DEF SyncPendingCurations
    <3> HIDE DEF f
    <3>3. TablesHold'
      BY <1>2, <3>1, <3>2, MappedRows DEF RowsMapped, TablesHold, SerialInv
    <3>4. \A cur \in itemCurations : \E new \in itemCurations' :
              new.by = cur.by /\ new.item = cur.item
      BY <3>1, <3>2
    <3> QED BY <1>1, <3>3, <3>4, WholeKept DEF SerialInv
  <2>2. CASE ~SyncPendingCurations(e)
    <3>1. UNCHANGED itemCurations
      BY <2>2 DEF EditAction, EditStep, StartUpsert, UpsertItem, AbortUpsert, tables
    <3> QED BY <1>1, <1>2, <3>1, FewerRows, WholeKept DEF SerialInv
  <2> QED BY <2>1, <2>2
<1> QED BY <1>3 DEF SerialInv, Exclusive, OnlyEditor

-----------------------------------------------------------------------------
(* Removers.                                                               *)

LEMMA RemoverSerial ==
    ASSUME TypeInv, TypeInv', SerialInv, NEW d \in Removers, RemoveAction(d),
           UNCHANGED otherThanRm, OnlyRemover(d)'
    PROVE  SerialInv'
<1>1. UNCHANGED <<pubVars, sbVars, clock>>
  BY DEF otherThanRm, RemoveAction, RemoveStep, StartDeleteItem, StartDeleteCollection,
     DeleteItem, DeleteCollection, DeleteItemsOfCollection, AbortDelete
<1>2. itemCurations' = itemCurations /\ PlacesKept /\ CuratedItems' = CuratedItems
  <2> USE DEF SerialInv, TablesHold, CurationsPlaced, CuratedItems, RemoverHolds
  <2>1. CASE UNCHANGED tables
    BY <1>1, <2>1 DEF tables, sbVars, PlacesKept, TypeInv, TypeOK, TablesTypeOK
  <2>2. CASE DeleteItem(d)
    <3>1. RemoverHolds(d) BY <2>2 DEF DeleteItem, RemoversInFlight
    <3>2. itemCurations' = itemCurations /\ \A cur \in itemCurations : cur.item # rmTarget[d]
      BY <2>2, <3>1 DEF DeleteItem, deleteItems
    <3> QED BY <1>1, <2>2, <3>2
            DEF DeleteItem, deleteItems, sbVars, PlacesKept, TypeInv, TypeOK, TablesTypeOK
  <2>3. CASE DeleteCollection(d)
    <3>1. RemoverHolds(d) BY <2>3 DEF DeleteCollection, RemoversInFlight
    <3>2. \A cur \in itemCurations : CollectionOf[cur.item] # rmTarget[d]
      BY <2>3, <3>1 DEF DeleteCollection
    <3> QED BY <1>1, <2>3, <3>2
            DEF DeleteCollection, deleteCollection, sbVars, PlacesKept, TypeInv, TypeOK,
                TablesTypeOK
  <2>4. CASE DeleteItemsOfCollection(d)
    <3>1. RemoverHolds(d) BY <2>4 DEF DeleteItemsOfCollection, RemoversInFlight
    <3>2. \A cur \in itemCurations : CollectionOf[cur.item] # rmTarget[d]
      BY <2>4, <3>1 DEF DeleteItemsOfCollection
    <3>3. itemCurations' = itemCurations
      BY <2>4, <3>2 DEF DeleteItemsOfCollection, deleteItems
    <3> QED BY <1>1, <2>4, <3>2, <3>3
            DEF DeleteItemsOfCollection, deleteItems, sbVars, PlacesKept, TypeInv, TypeOK,
                TablesTypeOK
  <2> QED BY <2>1, <2>2, <2>3, <2>4
          DEF RemoveAction, RemoveStep, StartDeleteItem, StartDeleteCollection, AbortDelete
<1>3. TablesHold' /\ StoredWhole'
  BY <1>1, <1>2, FewerRows, WholeKept DEF SerialInv
<1>4. ASSUME d \in RemoversInFlight' PROVE RemoverHolds(d)'
  <2> USE DEF RemoverHolds, RemoversInFlight, TypeInv, TypeOK, ItemsTypeOK
  <2>1. CASE StartDeleteItem(d)
    BY <1>2, <2>1 DEF StartDeleteItem, existsByItemId
  <2>2. CASE StartDeleteCollection(d)
    BY <1>2, <2>2 DEF StartDeleteCollection, existsByCollectionId, CuratedItems
  <2>3. CASE DeleteCollection(d)
    BY <1>2, <2>3 DEF DeleteCollection, SerialInv
  <2>4. CASE DeleteItem(d) \/ DeleteItemsOfCollection(d) \/ AbortDelete(d)
    BY <1>4, <2>4 DEF DeleteItem, DeleteItemsOfCollection, AbortDelete
  <2> QED BY <2>1, <2>2, <2>3, <2>4 DEF RemoveAction, RemoveStep
<1> QED BY <1>3, <1>4 DEF SerialInv, Exclusive, OnlyRemover

-----------------------------------------------------------------------------
(* Reviewers.                                                              *)

\* Until it writes, a review changes no row.
LEMMA ReviewReads ==
    ASSUME TypeInv, NEW v \in Reviewers, ReviewAction(v), ~UpdateCuration(v)
    PROVE  UNCHANGED <<tables, clock>>
BY DEF ReviewAction, ReviewStep, StartReview, TouchCollectionCuration, ReadReviewedItem

\* The curation a review has found stays the latest of the item.
LEMMA ReviewTarget ==
    ASSUME TypeInv, SerialInv, NEW v \in Reviewers, ReviewAction(v), ~UpdateCuration(v),
           v \in ReviewersInFlight'
    PROVE  ReviewerHolds(v)'
<1>1. UNCHANGED <<tables, clock>> BY ReviewReads
<1>2. CASE StartReview(v)
  <2>1. PICK t \in Items \cup Collections, status \in CurationStatus \cup {NoStatus} :
            /\ \E cur \in updatable(v, t, status) : rvBy' = [rvBy EXCEPT ![v] = cur.by]
            /\ rvTarget' = [rvTarget EXCEPT ![v] = t]
    BY <1>2 DEF StartReview
  <2>2. PICK cur \in updatable(v, t, status) : rvBy' = [rvBy EXCEPT ![v] = cur.by]
    BY <2>1
  <2>3. rvTarget'[v] = t /\ rvBy'[v] = cur.by
    BY <2>1, <2>2 DEF TypeInv, TypeOK, ReviewTypeOK
  <2>4. CASE t \in Items
    <3>1. /\ cur \in itemCurations /\ cur.item = t
          /\ \A other \in itemCurations : other.item = t => other.created <= cur.created
      BY <2>2, <2>4 DEF updatable, getLatestById, latestItemCurations
    <3> QED BY <1>1, <2>3, <3>1
            DEF ReviewerHolds, SerialInv, TablesHold, CurationsKeyed, tables
  <2>5. CASE t \notin Items
    BY <1>1, <2>3, <2>5
    DEF ReviewerHolds, tables, TypeInv, TypeOK, TablesTypeOK, ItemCuration
  <2> QED BY <2>4, <2>5
<1>3. CASE ~StartReview(v)
  <2>1. v \in ReviewersInFlight /\ UNCHANGED <<rvTarget, rvBy>>
    BY <1>3 DEF ReviewAction, ReviewStep, TouchCollectionCuration, ReadReviewedItem, rvGoto,
       rvEnd, rvLocals, ReviewersInFlight, TypeInv, TypeOK, ReviewTypeOK
  <2> QED BY <1>1, <2>1 DEF ReviewerHolds, SerialInv, tables
<1> QED BY <1>2, <1>3

\* The row a review decides on is the latest of its item.
LEMMA DecidedIsLatest ==
    ASSUME TypeInv, SerialInv, NEW v \in Reviewers, UpdateCuration(v),
           NEW cur \in itemCurations, decidedItem(v, cur).status # cur.status,
           NEW other \in itemCurations, other.item = cur.item
    PROVE  other.created <= cur.created
<1>1. cur.by = rvBy[v] /\ cur.item = rvTarget[v] BY DEF decidedItem
<1>2. ReviewerHolds(v) BY DEF SerialInv, UpdateCuration, ReviewersInFlight
<1> QED BY <1>1, <1>2 DEF ReviewerHolds

LEMMA ReviewerSerial ==
    ASSUME TypeInv, TypeInv', SerialInv, NEW v \in Reviewers, ReviewAction(v),
           UNCHANGED otherThanRv, OnlyReviewer(v)'
    PROVE  SerialInv'
<1>1. UNCHANGED <<pubVars, sbVars>> BY DEF otherThanRv
<1>2. CASE UpdateCuration(v)
  <2> DEFINE f == [cur \in itemCurations |-> decidedItem(v, cur)]
  <2>1. \A cur \in itemCurations :
            f[cur].by = cur.by /\ f[cur].item = cur.item /\ f[cur].created = cur.created
    BY DEF TypeInv, TypeOK, TablesTypeOK, ItemCuration, decidedItem
  <2>2. itemCurations' = {f[cur] : cur \in itemCurations}
        /\ UNCHANGED <<items, collections, clock>>
    BY <1>2 DEF UpdateCuration
  <2>3. \A cur, other \in itemCurations :
            f[cur].status # cur.status /\ other.item = cur.item => other.created <= cur.created
    BY <1>2, DecidedIsLatest
  <2> HIDE DEF f
  <2>4. PlacesKept
    BY <1>1, <2>1, <2>2
    DEF PlacesKept, SerialInv, TablesHold, CurationsPlaced, sbVars, TypeInv, TypeOK, TablesTypeOK
  <2>5. LatestIsOpen'
    <3> SUFFICES ASSUME NEW a \in itemCurations, NEW b \in itemCurations,
                        f[a].item = f[b].item, f[a].status = "pending", f[a] # f[b]
                 PROVE  f[b].created < f[a].created
      BY <2>2 DEF LatestIsOpen
    <3>1. a.item = b.item /\ a # b /\ a.created \in Nat /\ b.created \in Nat
      BY <2>1 DEF TypeInv, TypeOK, TablesTypeOK, ItemCuration
    <3>2. CASE a.status = "pending"
      BY <2>1, <3>1, <3>2 DEF SerialInv, TablesHold, LatestIsOpen
    <3>3. CASE a.status # "pending"
      <4>1. b.created <= a.created /\ b.created # a.created
        BY <2>3, <3>1, <3>3 DEF SerialInv, TablesHold, CurationsKeyed
      <4> QED BY <2>1, <3>1, <4>1
    <3> QED BY <3>2, <3>3
  <2>6. TablesHold'
    BY <2>1, <2>2, <2>4, <2>5, MappedRows DEF RowsMapped, TablesHold, SerialInv
  <2>7. StoredWhole'
    BY <1>1, <2>1, <2>2, WholeKept DEF SerialInv
  <2>8. v \notin ReviewersInFlight'
    BY <1>2 DEF UpdateCuration, rvEnd, rvGoto, ReviewersInFlight, TypeInv, TypeOK, ReviewTypeOK
  <2> QED BY <2>6, <2>7, <2>8 DEF SerialInv, Exclusive, OnlyReviewer
<1>3. CASE ~UpdateCuration(v)
  <2>1. UNCHANGED <<tables, clock>> BY <1>3, ReviewReads
  <2>2. PlacesKept
    BY <1>1, <2>1
    DEF PlacesKept, SerialInv, TablesHold, CurationsPlaced, sbVars, tables, TypeInv, TypeOK,
        TablesTypeOK
  <2>3. TablesHold' /\ StoredWhole'
    BY <1>1, <2>1, <2>2, FewerRows, WholeKept DEF SerialInv, tables
  <2>4. v \in ReviewersInFlight' => ReviewerHolds(v)'
    BY <1>3, ReviewTarget
  <2> QED BY <2>3, <2>4 DEF SerialInv, Exclusive, OnlyReviewer
<1> QED BY <1>2, <1>3

-----------------------------------------------------------------------------
(* Submitters.                                                             *)

\* What a review request has checked of its item.
LEMMA SubmitTarget ==
    ASSUME TypeInv, TypeInv', SerialInv, NEW s \in Submitters, SubmitAction(s),
           ~InsertCuration(s), s \in SubmittersInFlight'
    PROVE  SubmitterHolds(s)'
<1>1. UNCHANGED tables
  BY DEF SubmitAction, SubmitStep, StartSubmit, ReadSubmittedItem
<1>2. CASE StartSubmit(s)
  <2>1. PICK t \in Items \cup Collections :
            mayBeSubmitted(t) /\ sbTarget' = [sbTarget EXCEPT ![s] = t]
    BY <1>2 DEF StartSubmit
  <2>2. sbTarget'[s] = t /\ sbCreated'[s] = clock /\ clock' = clock + 1 /\ clock \in Nat
    BY <1>2, <2>1 DEF StartSubmit, TypeInv, TypeOK, ReviewTypeOK, TablesTypeOK
  <2>3. ASSUME t \in Items
        PROVE  /\ \E cur \in itemCurations : cur.item = t
               /\ \A cur \in itemCurations : cur.item = t =>
                      cur.status # "pending" /\ cur.created < clock
    <3>1. latestItemCurations(t) # {}
          /\ \A cur \in latestItemCurations(t) : cur.status # "pending"
      BY <2>1, <2>3 DEF mayBeSubmitted, getLatestById
    <3>2. ASSUME NEW cur \in itemCurations, cur.item = t
          PROVE  cur.status # "pending" /\ cur.created < clock
      <4>1. cur.created < clock
        BY DEF SerialInv, TablesHold, CurationsPlaced
      <4>2. ASSUME cur.status = "pending" PROVE FALSE
        <5>1. \A other \in itemCurations : other.item = t => other.created <= cur.created
          <6> TAKE other \in itemCurations
          <6>1. cur.created \in Nat
            BY DEF TypeInv, TypeOK, TablesTypeOK, ItemCuration
          <6>2. other.item = t /\ other # cur => other.created < cur.created
            BY <3>2, <4>2 DEF SerialInv, TablesHold, LatestIsOpen
          <6>3. other.created \in Nat
            BY DEF TypeInv, TypeOK, TablesTypeOK, ItemCuration
          <6> QED BY <6>1, <6>2, <6>3
        <5> QED BY <3>1, <3>2, <4>2, <5>1 DEF latestItemCurations
      <4> QED BY <4>1, <4>2
    <3> QED BY <3>1, <3>2 DEF latestItemCurations
  <2> QED BY <1>1, <2>2, <2>3 DEF SubmitterHolds, tables
<1>3. CASE ReadSubmittedItem(s)
  <2>1. s \in SubmittersInFlight /\ UNCHANGED <<sbTarget, sbCreated, clock>>
    BY <1>3 DEF ReadSubmittedItem, sbGoto, sbEnd, SubmittersInFlight, TypeInv, TypeOK,
       ReviewTypeOK
  <2> QED BY <1>1, <2>1 DEF SubmitterHolds, SerialInv, tables
<1> QED BY <1>2, <1>3 DEF SubmitAction, SubmitStep

LEMMA SubmitInserts ==
    ASSUME TypeInv, TypeInv', SerialInv, NEW s \in Submitters, InsertCuration(s),
           UNCHANGED otherThanSb, UNCHANGED itemCurations \/ sbTarget[s] \in items
    PROVE  TablesHold'
<1>1. /\ UNCHANGED <<items, collections, clock>>
      /\ \A q \in Submitters : sbPc'[q] \in {"idle", "read", "insert"} =>
             q # s /\ sbPc[q] \in {"idle", "read", "insert"}
  BY DEF InsertCuration, sbEnd, sbGoto, TypeInv, TypeOK, ReviewTypeOK
<1>2. CASE UNCHANGED itemCurations
  <2>1. PlacesKept
    BY <1>1, <1>2
    DEF PlacesKept, SerialInv, TablesHold, CurationsPlaced, TypeInv, TypeOK, TablesTypeOK
  <2> QED BY <1>2, <2>1, FewerRows DEF SerialInv
<1>3. CASE ~UNCHANGED itemCurations
  <2> DEFINE new == [by |-> s, item |-> sbTarget[s], status |-> "pending",
                     hash |-> sbHash[s], created |-> sbCreated[s]]
  <2>1. itemCurations' = itemCurations \cup {new} /\ sbTarget[s] \in items
    BY <1>3 DEF InsertCuration
  <2>2. new.by = s /\ new.item = sbTarget[s] /\ new.created = sbCreated[s]
    OBVIOUS
  <2> HIDE DEF new
  <2>3. SubmitterHolds(s) /\ sbTarget[s] \in Items
    BY <2>1 DEF SerialInv, InsertCuration, SubmittersInFlight, TypeInv, TypeOK, TablesTypeOK
  <2>4. PICK old \in itemCurations : old.item = sbTarget[s]
    BY <2>3 DEF SubmitterHolds
  <2>5. PlacesKept
    BY <1>1, <2>1, <2>2, <2>4
    DEF PlacesKept, SerialInv, TablesHold, CurationsPlaced, TypeInv, TypeOK, TablesTypeOK
  <2>6. \A cur \in itemCurations : cur.item = new.item =>
            cur.by # new.by /\ cur.status # "pending" /\ cur.created < new.created
    BY <2>2, <2>3 DEF SubmitterHolds, InsertCuration, SerialInv, TablesHold, SubmittersFresh
  <2>7. CuratedItems' \subseteq CuratedItems
    BY <2>1, <2>2, <2>4 DEF CuratedItems
  <2>8. SlotsRespected'
    BY <2>7, SlotsShrink, CuratedAreItems DEF SerialInv, TablesHold, SlotsRespected
  <2>9. new.created \in Nat /\ new.created < clock'
    BY <1>1, <2>2, <2>3 DEF SubmitterHolds, TypeInv, TypeOK, ReviewTypeOK
  <2> QED BY <1>1, <2>1, <2>2, <2>5, <2>6, <2>8, <2>9, OneMoreRow DEF SerialInv
<1> QED BY <1>2, <1>3

LEMMA SubmitterSerial ==
    ASSUME TypeInv, TypeInv', SerialInv, NEW s \in Submitters, SubmitAction(s),
           UNCHANGED otherThanSb, OnlySubmitter(s)'
    PROVE  SerialInv'
<1>1. UNCHANGED pubVars BY DEF otherThanSb
<1>2. CASE InsertCuration(s)
  <2>1. UNCHANGED itemCurations \/ sbTarget[s] \in items
    BY <1>2 DEF InsertCuration
  <2>2. itemCurations \subseteq itemCurations' BY <1>2 DEF InsertCuration
  <2>3. TablesHold' /\ StoredWhole'
    BY <1>1, <1>2, <2>1, <2>2, SubmitInserts, WholeKept DEF SerialInv
  <2>4. s \notin SubmittersInFlight'
    BY <1>2 DEF InsertCuration, sbEnd, sbGoto, SubmittersInFlight, TypeInv, TypeOK, ReviewTypeOK
  <2> QED BY <2>3, <2>4 DEF SerialInv, Exclusive, OnlySubmitter
<1>3. CASE ~InsertCuration(s)
  <2>1. UNCHANGED tables /\ clock' \in Nat /\ clock <= clock'
        /\ \A q \in Submitters : sbPc'[q] \in {"idle", "read", "insert"} =>
               sbPc[q] \in {"idle", "read", "insert"}
    BY <1>3 DEF SubmitAction, SubmitStep, StartSubmit, ReadSubmittedItem, sbGoto, sbEnd, TypeInv,
       TypeOK, ReviewTypeOK, TablesTypeOK
  <2>2. PlacesKept
    BY <2>1
    DEF PlacesKept, SerialInv, TablesHold, CurationsPlaced, tables, TypeInv, TypeOK, TablesTypeOK
  <2>3. TablesHold' /\ StoredWhole'
    BY <1>1, <2>1, <2>2, FewerRows, WholeKept DEF SerialInv, tables
  <2>4. s \in SubmittersInFlight' => SubmitterHolds(s)'
    BY <1>3, SubmitTarget
  <2> QED BY <2>3, <2>4 DEF SerialInv, Exclusive, OnlySubmitter
<1> QED BY <1>2, <1>3

-----------------------------------------------------------------------------
(* Publishers.                                                             *)

PubStored == {"collection", "forum", "link", "done", "unposted"}

\* A publication leaves items, collections and the other requests alone.
LEMMA PublishPlaces ==
    ASSUME TypeInv, NEW p \in Publishers, Publish(p), UNCHANGED otherThanPub
    PROVE  /\ UNCHANGED <<items, collections, sbPc>>
           /\ clock \in Nat /\ clock' \in Nat /\ clock <= clock'
<1>1. UNCHANGED sbPc BY DEF otherThanPub, sbVars
<1>2. UNCHANGED <<items, collections>> /\ (clock' = clock \/ clock' = clock + 1)
  BY DEF Publish, PublishStep, StartPublish, CheckSlots, FindItems, CheckPending, CreateCheque,
     CreateItemCuration, FinishItemCurations, CreateCollectionCuration, DeleteCheque,
     DeleteItemCurations, CreatePost, UpdatePost, LinkPost, CrashPublish, tables
<1> QED BY <1>1, <1>2 DEF TypeInv, TypeOK, TablesTypeOK

\* Which steps of a publication write curations of items.
LEMMA PublishWrites ==
    ASSUME NEW p \in Publishers, Publish(p)
    PROVE  \/ itemCurations' = itemCurations
           \/ CreateItemCuration(p)
           \/ DeleteItemCurations(p) /\ itemCurations' = itemCurations \ curationsOfIds(p)
BY DEF Publish, PublishStep, StartPublish, CheckSlots, FindItems, CheckPending, CreateCheque,
   FinishItemCurations, CreateCollectionCuration, DeleteCheque,
   DeleteItemCurations, CreatePost, UpdatePost, LinkPost, CrashPublish, tables

\* The last create of a batch that did not fail has put every item under review.
LEMMA PublishWhole ==
    ASSUME TypeInv, SerialInv, NEW p \in Publishers, Publish(p)
    PROVE  StoredWhole'
<1> SUFFICES ASSUME NEW q \in Publishers, pubPc'[q] \in PubStored, NEW i \in dbItems(q)'
             PROVE  \E cur \in itemCurations' : cur.by = q /\ cur.item = i
  BY DEF StoredWhole, PubStored
<1> USE DEF PubStored
<1>1. CASE q # p
  <2>1. /\ itemCurationsOf(q)' = itemCurationsOf(q)
        /\ pubPc'[q] = pubPc[q] /\ dbItems(q)' = dbItems(q)
    BY <1>1, PublishKeepsOthers DEF KeepsLocalsOf, dbItems
  <2>2. \E cur \in itemCurationsOf(q) : cur.item = i
    BY <2>1 DEF SerialInv, StoredWhole, itemCurationsOf
  <2> QED BY <2>1, <2>2 DEF itemCurationsOf
<1>2. CASE q = p
  <2> USE DEF TypeInv, TypeOK, PubTypeOK, pubGoto, pubAt
  <2>1. CASE FinishItemCurations(p)
    <3>1. /\ pubTodo[p] = {} /\ ~pubError[p] /\ pubPc[p] = "curations"
          /\ dbItems(p)' = dbItems(p) /\ itemCurations' = itemCurations
      BY <1>2, <2>1 DEF FinishItemCurations, hasFailed, pubLocals, tables, dbItems
    <3>2. PublisherHolds(p)
      BY <3>1 DEF SerialInv, PublishersInFlight, PubFinal
    <3> QED BY <1>2, <3>1, <3>2 DEF PublisherHolds
  <2>2. CASE ~FinishItemCurations(p)
    <3>1. /\ pubPc[p] \in PubStored
          /\ UNCHANGED <<pubItems, itemCurations>>
      BY <1>2, <2>2
      DEF Publish, PublishStep, StartPublish, CheckSlots, FindItems, CheckPending,
          CreateCheque, CreateItemCuration, CreateCollectionCuration, DeleteCheque,
          DeleteItemCurations, CreatePost, UpdatePost, LinkPost, CrashPublish, tables,
          pubLocals, pubFail, pubReject
    <3> QED BY <1>2, <3>1 DEF SerialInv, StoredWhole, dbItems
  <2> QED BY <2>1, <2>2
<1> QED BY <1>1, <1>2

\* A new curation is within the slots that were checked, and the only open one
\* of its item.
LEMMA PublishInserts ==
    ASSUME TypeInv, TypeInv', SerialInv, LedgerByStage, NEW p \in Publishers,
           CreateItemCuration(p), UNCHANGED otherThanPub
    PROVE  TablesHold' /\ PublisherHolds(p)'
<1>1. PublisherHolds(p) /\ pubPc[p] = "curations" /\ pubPc'[p] = "curations"
  BY DEF CreateItemCuration, pubAt, SerialInv, PublishersInFlight, PubFinal
<1>2. UNCHANGED <<items, collections, clock, sbPc, pubCall, pubItems, pubCreated>>
  BY DEF CreateItemCuration, otherThanPub, sbVars
<1>3. dbItems(p)' = dbItems(p) BY <1>2 DEF dbItems
<1> DEFINE new(i) == [by |-> p, item |-> i, status |-> "pending",
                      hash |-> pubItems[p][i], created |-> pubCreated[p]]
<1>4. PICK i \in pubTodo[p] :
          /\ pubTodo' = [pubTodo EXCEPT ![p] = @ \ {i}]
          /\ \/ i \in items /\ itemCurations' = itemCurations \cup {new(i)}
                /\ pubError' = pubError
             \/ itemCurations' = itemCurations /\ pubError' = [pubError EXCEPT ![p] = TRUE]
  BY DEF CreateItemCuration
<1>5. /\ i \in dbItems(p) /\ pubTodo'[p] = pubTodo[p] \ {i}
      /\ new(i).item = i /\ new(i).by = p /\ new(i).created = pubCreated[p]
  BY <1>4 DEF TypeInv, TypeOK, PubTypeOK, TodoWasFound
<1>6. i \in pubCall[p].ids /\ CollectionOf[i] = pubCall[p].collection /\ i \in Items
      /\ pubCall[p].collection \in collections /\ pubCreated[p] < clock
      /\ Cardinality(CuratedItems \cup pubCall[p].ids) <= MaxItems
  BY <1>1, <1>5 DEF PublisherHolds, dbItems
<1>7. \A cur \in itemCurations : cur.item = i =>
          cur.by # p /\ cur.status # "pending" /\ cur.created < pubCreated[p]
  <2>1. \A cur \in itemCurations : cur.item = i => cur.by # p
    BY <1>1, <1>4 DEF LedgerByStage, LedgerOf, itemCurationsOf
  <2> QED BY <1>1, <1>6, <2>1 DEF PublisherHolds
<1> HIDE DEF new
<1>8. itemCurations' \subseteq itemCurations \cup {new(i)}
  BY <1>4
<1>9. CuratedItems' \cup pubCall[p].ids = CuratedItems \cup pubCall[p].ids
  BY <1>4, <1>5, <1>6 DEF CuratedItems
<1>10. CuratedItems \cup pubCall[p].ids \subseteq Items
  BY CuratedAreItems DEF TypeInv, TypeOK, PubTypeOK, PubCall
<1>11. SlotsRespected'
  BY <1>6, <1>9, <1>10, SlotsShrink
<1>12. PlacesKept
  BY <1>2, <1>4, <1>5, <1>6
  DEF PlacesKept, SerialInv, TablesHold, CurationsPlaced, TypeInv, TypeOK, TablesTypeOK
<1>13. TablesHold'
  <2>1. CASE itemCurations' = itemCurations
    BY <1>12, <2>1, FewerRows DEF SerialInv
  <2>2. CASE itemCurations' = itemCurations \cup {new(i)}
    <3>1. new(i).created \in Nat /\ new(i).created < clock'
      BY <1>2, <1>5, <1>6 DEF TypeInv, TypeOK, PubTypeOK
    <3>2. \A s \in Submitters : new(i).by # s
      BY <1>5, RequestsAssumption
    <3> QED BY <1>5, <1>7, <1>11, <1>12, <2>2, <3>1, <3>2, OneMoreRow DEF SerialInv
  <2> QED BY <1>4, <2>1, <2>2
<1>14. PublisherHolds(p)'
  <2>1. \A cur \in itemCurations' : cur.by # p => cur \in itemCurations
    BY <1>5, <1>8
  <2>2. \A j \in dbItems(p) \ pubTodo'[p] :
            pubError'[p] \/ \E cur \in itemCurations' : cur.by = p /\ cur.item = j
    <3> SUFFICES ASSUME NEW j \in dbItems(p) \ pubTodo'[p], ~pubError'[p]
                 PROVE  \E cur \in itemCurations' : cur.by = p /\ cur.item = j
      OBVIOUS
    <3>1. itemCurations' = itemCurations \cup {new(i)} /\ ~pubError[p]
      BY <1>4 DEF TypeInv, TypeOK, PubTypeOK
    <3>2. CASE j = i BY <1>5, <3>1, <3>2
    <3>3. CASE j # i BY <1>1, <1>5, <3>1, <3>3 DEF PublisherHolds
    <3> QED BY <3>2, <3>3
  <2> QED BY <1>1, <1>2, <1>3, <1>6, <1>9, <2>1, <2>2 DEF PublisherHolds
<1> QED BY <1>13, <1>14

LEMMA PublishTables ==
    ASSUME TypeInv, TypeInv', SerialInv, LedgerByStage, NEW p \in Publishers,
           Publish(p), UNCHANGED otherThanPub
    PROVE  TablesHold'
<1>1. CASE CreateItemCuration(p) BY <1>1, PublishInserts
<1>2. CASE ~CreateItemCuration(p)
  <2>1. itemCurations' \subseteq itemCurations BY <1>2, PublishWrites
  <2>2. PlacesKept
    BY <2>1, PublishPlaces DEF PlacesKept, SerialInv, TablesHold, CurationsPlaced
  <2> QED BY <2>1, <2>2, FewerRows DEF SerialInv
<1> QED BY <1>1, <1>2

\* The slots a request was granted are enough for all it may put under review.
LEMMA SlotsGranted ==
    ASSUME TypeInv, SerialInv, NEW ids \in SUBSET Items,
           Cardinality(ids) <= MaxItems - countByThirdPartyId
    PROVE  Cardinality(CuratedItems \cup ids) <= MaxItems
<1>1. {i \in CuratedItems \cap items : CollectionOf[i] \in collections} = CuratedItems
  BY DEF SerialInv, TablesHold, CurationsPlaced, CuratedItems
<1>2. countByThirdPartyId = Cardinality(CuratedItems)
  BY <1>1 DEF countByThirdPartyId
<1>3. /\ IsFiniteSet(CuratedItems) /\ IsFiniteSet(ids)
      /\ Cardinality(CuratedItems) \in Nat /\ Cardinality(ids) \in Nat
  BY CuratedFinite, CuratedAreItems
<1>4. Cardinality(CuratedItems \cap ids) \in Nat
  BY CuratedFinite
<1>5. Cardinality(CuratedItems \cup ids) =
          Cardinality(CuratedItems) + Cardinality(ids) - Cardinality(CuratedItems \cap ids)
  BY <1>3, FS_Union
<1> QED BY <1>2, <1>3, <1>4, <1>5, MaxItemsAssumption

\* What a publication has checked holds on at each of its stages.
LEMMA PublisherClaims ==
    ASSUME TypeInv, TypeInv', SerialInv, TraceByStage, LedgerByStage, NEW p \in Publishers,
           Publish(p), UNCHANGED otherThanPub, p \in PublishersInFlight'
    PROVE  PublisherHolds(p)'
<1> USE DEF pubGoto, pubAt, TypeInv, TypeOK, PubTypeOK
<1>1. CASE StartPublish(p)
  <2>1. pubPc'[p] = "slots" /\ pubCall'[p].collection \in collections
        /\ collections' = collections
    BY <1>1 DEF StartPublish, tables
  <2> QED BY <2>1 DEF PublisherHolds
<1>2. CASE ~StartPublish(p)
  <2>1. PublisherHolds(p) /\ pubPc[p] \notin PubFinal
    BY <1>2 DEF SerialInv, PublishersInFlight, Publish, PublishStep, CheckSlots, FindItems,
       CheckPending, CreateCheque, CreateItemCuration, FinishItemCurations,
       CreateCollectionCuration, DeleteCheque, DeleteItemCurations, CreatePost, UpdatePost,
       LinkPost, CrashPublish, PubFinal
  <2>2. UNCHANGED collections
    BY PublishPlaces
  <2>3. ~pubReject(p) /\ ~DeleteItemCurations(p) /\ ~CrashPublish(p)
    BY DEF PublishersInFlight, PubFinal, pubReject, pubFail, DeleteItemCurations, CrashPublish
  <2>4. CASE CheckSlots(p)
    <3>1. /\ pubPc'[p] = "items" /\ UNCHANGED <<pubCall, itemCurations>>
          /\ Cardinality(pubCall[p].ids) <= MaxItems - countByThirdPartyId
      BY <2>3, <2>4 DEF CheckSlots, tables, pubLocals
    <3>2. Cardinality(CuratedItems \cup pubCall[p].ids) <= MaxItems
      BY <3>1, SlotsGranted DEF PubCall
    <3> QED BY <2>1, <2>2, <3>1, <3>2 DEF PublisherHolds, CuratedItems
  <2>5. CASE FindItems(p)
    <3>1. /\ pubPc'[p] = "pending" /\ pubPc[p] = "items"
          /\ UNCHANGED <<pubCall, itemCurations>>
          /\ \A i \in pubCall[p].ids \cap items : CollectionOf[i] = pubCall[p].collection
          /\ pubItems'[p] = [i \in Items |-> IF i \in pubCall[p].ids \cap items
                                            THEN contentHash[i] ELSE NoHash]
      BY <2>3, <2>5 DEF FindItems, tables
    <3>2. \A i \in dbItems(p)' : i \in pubCall[p].ids \cap items
      BY <3>1 DEF dbItems
    <3> QED BY <2>1, <2>2, <3>1, <3>2 DEF PublisherHolds, CuratedItems
  <2>6. CASE CheckPending(p)
    <3>1. /\ pubPc'[p] = "cheque" /\ pubPc[p] = "pending"
          /\ UNCHANGED <<pubCall, pubItems, itemCurations>>
          /\ pubCreated'[p] = clock /\ clock' = clock + 1
          /\ ~hasPendingByCollectionId(pubCall[p].collection)
      BY <2>3, <2>6 DEF CheckPending, tables
    <3>2. \A cur \in itemCurations : cur.created < clock
      BY DEF SerialInv, TablesHold, CurationsPlaced
    <3>3. clock < clock'
      BY <3>1 DEF TablesTypeOK
    <3> QED BY <2>1, <2>2, <3>1, <3>2, <3>3
            DEF PublisherHolds, CuratedItems, dbItems, hasPendingByCollectionId
  <2>7. CASE CreateCheque(p)
    <3>1. /\ pubPc[p] = "cheque"
          /\ UNCHANGED <<pubCall, pubItems, itemCurations, pubCreated, clock>>
          /\ pubPc'[p] = "undoCurations"
             \/ (pubPc'[p] = "curations" /\ pubTodo'[p] = dbItems(p))
      BY <2>7 DEF CreateCheque
    <3> QED BY <2>1, <2>2, <3>1 DEF PublisherHolds, CuratedItems, dbItems
  <2>8. CASE CreateItemCuration(p) BY <2>8, PublishInserts
  <2>9. CASE FinishItemCurations(p) \/ CreateCollectionCuration(p) \/ DeleteCheque(p)
             \/ CreatePost(p) \/ UpdatePost(p) \/ LinkPost(p)
    <3>1. /\ pubCall' = pubCall
          /\ pubPc'[p] \notin {"items", "pending", "cheque", "curations"}
      BY <2>9 DEF FinishItemCurations, CreateCollectionCuration, DeleteCheque, CreatePost,
         UpdatePost, LinkPost, pubLocals
    <3> QED BY <2>1, <2>2, <3>1 DEF PublisherHolds
  <2> QED BY <1>2, <2>3, <2>4, <2>5, <2>6, <2>7, <2>8, <2>9 DEF Publish, PublishStep
<1> QED BY <1>1, <1>2

LEMMA PublisherSerial ==
    ASSUME TypeInv, TypeInv', SerialInv, TraceByStage, LedgerByStage, NEW p \in Publishers,
           Publish(p), UNCHANGED otherThanPub, OnlyPublisher(p)'
    PROVE  SerialInv'
<1>1. TablesHold' /\ StoredWhole' BY PublishTables, PublishWhole
<1>2. p \in PublishersInFlight' => PublisherHolds(p)' BY PublisherClaims
<1> QED BY <1>1, <1>2 DEF SerialInv, Exclusive, OnlyPublisher

-----------------------------------------------------------------------------
(* Requests served one at a time.                                          *)

LEMMA InitSerial == Init => SerialInv
<1> SUFFICES ASSUME Init PROVE SerialInv
  OBVIOUS
<1>1. Quiescent
  BY DEF Init, PubInit, ItemsInit, ReviewInit, Quiescent, PublishersInFlight, EditorsInFlight,
     RemoversInFlight, ReviewersInFlight, SubmittersInFlight
<1>2. CuratedItems = {} /\ itemCurations = {}
  BY DEF Init, TablesInit, CuratedItems
<1>3. SlotsRespected
  BY <1>2, FS_EmptySet, MaxItemsAssumption DEF SlotsRespected
<1>4. TablesHold
  BY <1>2, <1>3 DEF TablesHold, CurationsPlaced, CurationsKeyed, LatestIsOpen, SubmittersFresh
<1>5. StoredWhole
  BY DEF Init, PubInit, StoredWhole
<1> QED BY <1>1, <1>4, <1>5 DEF SerialInv, Exclusive, Quiescent

LEMMA SerialStep ==
    ASSUME MaxInFlight = 1, TypeInv, TraceByStage, LedgerByStage, SerialInv, [Next]_vars
    PROVE  SerialInv'
<1>1. TypeInv' BY TypeInvStep
<1>2. CASE UNCHANGED vars
  <2> SUFFICES ASSUME UNCHANGED vars PROVE SerialInv'
    BY <1>2
  <2> USE DEF vars, tables, pubVars, pubLocals, edVars, rmVars, rvVars, rvLocals, sbVars,
              sbLocals
  <2>1. /\ PublishersInFlight' = PublishersInFlight /\ EditorsInFlight' = EditorsInFlight
        /\ RemoversInFlight' = RemoversInFlight /\ ReviewersInFlight' = ReviewersInFlight
        /\ SubmittersInFlight' = SubmittersInFlight
    BY DEF PublishersInFlight, EditorsInFlight, RemoversInFlight, ReviewersInFlight,
       SubmittersInFlight
  <2>2. Exclusive'
    BY <2>1 DEF SerialInv, Exclusive, Quiescent, OnlyPublisher, OnlyEditor, OnlyRemover,
       OnlyReviewer, OnlySubmitter
  <2>3. PlacesKept
    BY DEF PlacesKept, SerialInv, TablesHold, CurationsPlaced, TypeInv, TypeOK, TablesTypeOK
  <2>4. TablesHold' /\ StoredWhole'
    BY <2>3, FewerRows, WholeKept DEF SerialInv
  <2>5. CuratedItems' = CuratedItems /\ \A p \in Publishers : dbItems(p)' = dbItems(p)
    BY DEF CuratedItems, dbItems
  <2>6. ASSUME NEW p \in PublishersInFlight PROVE PublisherHolds(p)'
    <3>1. PublisherHolds(p) /\ dbItems(p)' = dbItems(p)
      BY <2>5 DEF SerialInv, PublishersInFlight
    <3> QED BY <2>5, <3>1 DEF PublisherHolds
  <2>7. ASSUME NEW d \in RemoversInFlight PROVE RemoverHolds(d)'
    BY <2>5 DEF SerialInv, RemoverHolds
  <2>8. ASSUME NEW v \in ReviewersInFlight PROVE ReviewerHolds(v)'
    <3>1. ReviewerHolds(v) BY DEF SerialInv
    <3> QED BY <3>1 DEF ReviewerHolds
  <2>9. ASSUME NEW s \in SubmittersInFlight PROVE SubmitterHolds(s)'
    <3>1. SubmitterHolds(s) BY DEF SerialInv
    <3> QED BY <3>1 DEF SubmitterHolds
  <2> QED BY <2>1, <2>2, <2>4, <2>6, <2>7, <2>8, <2>9 DEF SerialInv
<1>3. CASE Next
  BY <1>1, <1>3, MovesAlone, PublisherSerial, EditorSerial, RemoverSerial, ReviewerSerial,
     SubmitterSerial DEF SerialInv
<1> QED BY <1>2, <1>3

\* What holds of the tables and of the request being served when no two requests
\* are served together: the inductive invariant behind the theorems that follow.
THEOREM SerialInvariant == ASSUME MaxInFlight = 1 PROVE Spec => []SerialInv
<1>1. TypeInv /\ TraceByStage /\ LedgerByStage /\ SerialInv /\ [Next]_vars => SerialInv'
  BY SerialStep
<1> QED BY <1>1, InitSerial, TypeInvariant, TraceInvariant, LedgerInvariant, PTL DEF Spec

\* As long as requests are served one at a time the third party never has more
\* items curated than it bought slots (SlotsRespected): the count of
\* getThirdPartyAvailableSlots stays true until the batch is stored.
THEOREM SlotsKept == ASSUME MaxInFlight = 1 PROVE Spec => []SlotsRespected
<1>1. SerialInv => SlotsRespected BY DEF SerialInv, TablesHold
<1> QED BY <1>1, SerialInvariant, PTL

\* As long as requests are served one at a time no item has two reviews open
\* (OnePendingPerItem), over any sequence of publications, reviews, review
\* requests and deletes.
THEOREM OneOpenReview == ASSUME MaxInFlight = 1 PROVE Spec => []OnePendingPerItem
<1>1. TypeInv /\ SerialInv => OnePendingPerItem
  <2> SUFFICES ASSUME TypeInv, SerialInv, NEW a \in itemCurations, NEW b \in itemCurations,
                      a.item = b.item, a.status = "pending", b.status = "pending", a # b
               PROVE  FALSE
    BY DEF OnePendingPerItem
  <2>1. a.created \in Nat /\ b.created \in Nat
    BY DEF TypeInv, TypeOK, TablesTypeOK, ItemCuration
  <2>2. b.created < a.created /\ a.created < b.created
    BY DEF SerialInv, TablesHold, LatestIsOpen
  <2> QED BY <2>1, <2>2
<1> QED BY <1>1, TypeInvariant, SerialInvariant, PTL

\* As long as requests are served one at a time no item of a stored publication
\* is ever deleted (PublishedIsKept): its curations are all still there.
THEOREM PublishedKept == ASSUME MaxInFlight = 1 PROVE Spec => []PublishedIsKept
<1>1. SerialInv => PublishedIsKept
  BY DEF SerialInv, StoredWhole, PublishedIsKept, Settled, itemCurationsOf
<1> QED BY <1>1, SerialInvariant, PTL

\* Only a review decides on a curation.
LEMMA StatusChanges ==
    ASSUME TypeInv, SerialInv, TypeInv', SerialInv', Next,
           NEW cur \in itemCurations, NEW new \in itemCurations',
           cur.by = new.by, cur.item = new.item, cur.status # new.status
    PROVE  \E v \in Reviewers : /\ UpdateCuration(v)
                                 /\ decidedItem(v, cur).status # cur.status
<1>1. ASSUME cur \in itemCurations' PROVE FALSE
  BY <1>1 DEF SerialInv, TablesHold, CurationsKeyed
<1>2. CASE \E p \in Publishers : Publish(p)
  <2>1. PICK p \in Publishers : Publish(p) BY <1>2
  <2>2. CASE CreateItemCuration(p) BY <1>1, <2>2 DEF CreateItemCuration
  <2>3. CASE ~CreateItemCuration(p)
    <3>1. new \in itemCurations BY <2>1, <2>3, PublishWrites
    <3> QED BY <3>1 DEF SerialInv, TablesHold, CurationsKeyed
  <2> QED BY <2>2, <2>3
<1>3. CASE \E e \in Editors : EditAction(e)
  <2>1. PICK e \in Editors : EditAction(e) BY <1>3
  <2>2. CASE SyncPendingCurations(e)
    <3>1. PICK old \in itemCurations : new = synced(e, old)
      BY <2>2 DEF SyncPendingCurations
    <3>2. new.by = old.by /\ new.item = old.item /\ new.status = old.status
      BY <3>1 DEF TypeInv, TypeOK, TablesTypeOK, ItemCuration, synced
    <3> QED BY <3>2 DEF SerialInv, TablesHold, CurationsKeyed
  <2>3. CASE ~SyncPendingCurations(e)
    BY <1>1, <2>1, <2>3 DEF EditAction, EditStep, StartUpsert, UpsertItem, AbortUpsert, tables
  <2> QED BY <2>2, <2>3
<1>4. CASE \E d \in Removers : RemoveAction(d)
  <2>1. new \in itemCurations
    BY <1>4 DEF RemoveAction, RemoveStep, StartDeleteItem, StartDeleteCollection, DeleteItem,
       DeleteCollection, DeleteItemsOfCollection, AbortDelete, deleteItems, tables
  <2> QED BY <2>1 DEF SerialInv, TablesHold, CurationsKeyed
<1>5. CASE \E v \in Reviewers : ReviewAction(v)
  <2>1. PICK v \in Reviewers : ReviewAction(v) BY <1>5
  <2>2. CASE UpdateCuration(v)
    <3>1. PICK old \in itemCurations : new = decidedItem(v, old)
      BY <2>2 DEF UpdateCuration
    <3>2. new.by = old.by /\ new.item = old.item
      BY <3>1 DEF TypeInv, TypeOK, TablesTypeOK, ItemCuration, decidedItem
    <3>3. old = cur BY <3>2 DEF SerialInv, TablesHold, CurationsKeyed
    <3> QED BY <2>2, <3>1, <3>3
  <2>3. CASE ~UpdateCuration(v) BY <1>1, <2>1, <2>3, ReviewReads DEF tables
  <2> QED BY <2>2, <2>3
<1>6. CASE \E s \in Submitters : SubmitAction(s)
  <2>1. itemCurations \subseteq itemCurations'
    BY <1>6 DEF SubmitAction, SubmitStep, StartSubmit, ReadSubmittedItem, InsertCuration, tables
  <2> QED BY <1>1, <2>1
<1> QED BY <1>2, <1>3, <1>4, <1>5, <1>6, NextActions

\* As long as requests are served one at a time only the latest curation of an
\* item is ever decided on (OnlyLatestChangesStatus): getLatestById still names
\* the latest when its row is written.
THEOREM LatestDecided == ASSUME MaxInFlight = 1 PROVE Spec => OnlyLatestChangesStatus
<1>1. ASSUME TypeInv, SerialInv, TypeInv', SerialInv', [Next]_vars,
             NEW cur \in itemCurations, NEW new \in itemCurations',
             cur.by = new.by, cur.item = new.item, cur.status # new.status,
             NEW other \in itemCurations, other.item = cur.item
      PROVE  other.created <= cur.created
  <2>1. CASE UNCHANGED vars
    <3>1. new \in itemCurations BY <2>1 DEF vars, tables
    <3> QED BY <1>1, <3>1 DEF SerialInv, TablesHold, CurationsKeyed
  <2>2. CASE Next
    BY <1>1, <2>2, StatusChanges, DecidedIsLatest
  <2> QED BY <1>1, <2>1, <2>2
<1>2. TypeInv /\ SerialInv /\ TypeInv' /\ SerialInv' /\ [Next]_vars =>
          \A cur \in itemCurations, new \in itemCurations' :
              /\ cur.by = new.by
              /\ cur.item = new.item
              /\ cur.status # new.status
              => \A other \in itemCurations :
                     other.item = cur.item => other.created <= cur.created
  BY <1>1
<1> QED BY <1>2, TypeInvariant, SerialInvariant, PTL DEF Spec, OnlyLatestChangesStatus

-----------------------------------------------------------------------------
(* Topics.                                                                 *)

LEMMA InitTopics == Init => TopicsLinked
BY DEF Init, PubInit, TopicsLinked, PublishersInFlight, OneTopicPerCollection

\* Only publications write forum_id, and only while they are served.
LEMMA TopicsQuiet ==
    ASSUME TopicsLinked, UNCHANGED <<pubPc, pubCall, topics, forumId>>
    PROVE  TopicsLinked'
BY DEF TopicsLinked, PublishersInFlight, OneTopicPerCollection

\* A publication keeps what is linked, unless it creates or links its own topic.
LEMMA PublishTopics ==
    ASSUME TypeInv, SerialInv, TopicsLinked, NEW p \in Publishers, Publish(p),
           OnlyPublisher(p), "crash" \notin Faults
    PROVE  TopicsLinked'
<1> USE DEF pubGoto, pubAt, TypeInv, TypeOK, PubTypeOK, TablesTypeOK
<1>1. \A q \in Publishers \ {p} :
          /\ pubPc'[q] = pubPc[q] /\ pubCall'[q] = pubCall[q] /\ q \notin PublishersInFlight
          /\ q \notin PublishersInFlight' /\ (q \in topics => pubPc[q] \in {"done", "unposted"})
  <2> TAKE q \in Publishers \ {p}
  <2>1. pubPc'[q] = pubPc[q] /\ pubCall'[q] = pubCall[q]
    BY PublishKeepsOthers DEF KeepsLocalsOf
  <2>2. q \notin PublishersInFlight BY DEF OnlyPublisher
  <2>3. q \in topics => pubPc[q] \in {"done", "unposted"}
    BY <2>2 DEF TopicsLinked, PublishersInFlight, PubFinal
  <2> QED BY <2>1, <2>2, <2>3 DEF PublishersInFlight
<1>2. CASE CreatePost(p) /\ topics' = topics \cup {p}
  <2>1. /\ pubPc'[p] = "link" /\ pubPc[p] = "forum" /\ UNCHANGED <<pubCall, forumId>>
        /\ pubCall[p].forum = NoTopic /\ p \in PublishersInFlight /\ p \notin topics
    BY <1>2 DEF CreatePost, tables, pubLocals, PublishersInFlight, PubFinal, TopicsLinked
  <2>2. forumId[pubCall[p].collection] = NoTopic
    BY <2>1 DEF TopicsLinked
  <2>3. \A q \in topics : pubCall[q].collection = pubCall[p].collection => pubPc[q] = "unposted"
    BY <1>1, <2>1, <2>2 DEF TopicsLinked
  <2>4. OneTopicPerCollection'
    BY <1>1, <1>2, <2>1, <2>3 DEF TopicsLinked, OneTopicPerCollection
  <2>5. \A q \in PublishersInFlight' : q = p
    BY <1>1 DEF PublishersInFlight
  <2> QED BY <1>1, <1>2, <2>1, <2>2, <2>4, <2>5 DEF TopicsLinked
<1>3. CASE LinkPost(p)
  <2>1. /\ pubPc[p] = "link" /\ pubPc'[p] \in {"done", "unposted"}
        /\ UNCHANGED <<pubCall, topics>> /\ p \in PublishersInFlight
        /\ p \notin PublishersInFlight'
    BY <1>3 DEF LinkPost, pubLocals, PublishersInFlight, PubFinal
  <2>2. pubCall[p].collection \in collections /\ pubCall[p].collection \in Collections
    BY <2>1 DEF SerialInv, PublisherHolds, PubCall
  <2>3. /\ \A c \in Collections : forumId[c] # NoTopic => forumId'[c] # NoTopic
        /\ pubPc'[p] = "done" => forumId'[pubCall[p].collection] # NoTopic
    BY <1>3, <2>2, NoTopicAssumption, PublishersAssumption DEF LinkPost, storedTopic
  <2>4. \A q \in topics : pubCall[q].collection \in Collections
    BY DEF PubCall
  <2>5. PublishersInFlight' = {}
    BY <1>1, <2>1 DEF PublishersInFlight
  <2>6. OneTopicPerCollection'
    <3> SUFFICES ASSUME NEW a \in topics, NEW b \in topics, a # b,
                        pubCall[a].collection = pubCall[b].collection
                 PROVE  "unposted" \in {pubPc'[a], pubPc'[b]}
      BY <2>1 DEF OneTopicPerCollection
    <3>1. "unposted" \in {pubPc[a], pubPc[b]}
      BY DEF TopicsLinked, OneTopicPerCollection
    <3> QED BY <1>1, <2>1, <3>1
  <2>7. \A q \in topics : pubPc'[q] = "done" => forumId'[pubCall[q].collection] # NoTopic
    BY <1>1, <2>3, <2>4 DEF TopicsLinked
  <2>8. \A q \in topics : pubPc'[q] \in {"link", "done", "unposted"}
    BY <1>1, <2>1
  <2> QED BY <2>1, <2>5, <2>6, <2>7, <2>8 DEF TopicsLinked
<1>4. CASE ~LinkPost(p) /\ ~(CreatePost(p) /\ topics' = topics \cup {p})
  <2>1. UNCHANGED <<topics, forumId>>
    BY <1>4
    DEF Publish, PublishStep, StartPublish, CheckSlots, FindItems, CheckPending, CreateCheque,
        CreateItemCuration, FinishItemCurations, CreateCollectionCuration, DeleteCheque,
        DeleteItemCurations, CreatePost, UpdatePost, CrashPublish, tables
  <2>2. p \notin topics
    BY <1>4
    DEF Publish, PublishStep, StartPublish, CheckSlots, FindItems, CheckPending, CreateCheque,
        CreateItemCuration, FinishItemCurations, CreateCollectionCuration, DeleteCheque,
        DeleteItemCurations, CreatePost, UpdatePost, CrashPublish, mayFail, TopicsLinked
  <2>3. pubPc'[p] # "link"
    BY <1>4
    DEF Publish, PublishStep, StartPublish, CheckSlots, FindItems, CheckPending, CreateCheque,
        CreateItemCuration, FinishItemCurations, CreateCollectionCuration, DeleteCheque,
        DeleteItemCurations, CreatePost, UpdatePost, CrashPublish, mayFail, pubFail, pubReject
  <2>4. p \in PublishersInFlight' => pubCall'[p].forum = forumId'[pubCall'[p].collection]
    <3>1. CASE StartPublish(p)
      BY <2>1, <3>1 DEF StartPublish
    <3>2. CASE ~StartPublish(p)
      <4> SUFFICES ASSUME p \in PublishersInFlight'
                   PROVE  pubCall'[p].forum = forumId'[pubCall'[p].collection]
        OBVIOUS
      <4>1. pubPc'[p] \notin PubFinal BY DEF PublishersInFlight
      <4>2. UNCHANGED pubCall /\ pubPc[p] \notin PubFinal \cup {"idle"}
        BY <1>4, <3>2, <4>1
        DEF Publish, PublishStep, CheckSlots, FindItems, CheckPending, CreateCheque,
            CreateItemCuration, FinishItemCurations, CreateCollectionCuration, DeleteCheque,
            DeleteItemCurations, CreatePost, UpdatePost, CrashPublish, pubFail, pubReject,
            pubLocals, PubFinal
      <4> QED BY <2>1, <4>2 DEF TopicsLinked, PublishersInFlight
    <3> QED BY <3>1, <3>2
  <2>5. OneTopicPerCollection'
    BY <1>1, <2>1, <2>2 DEF TopicsLinked, OneTopicPerCollection
  <2>6. \A q \in PublishersInFlight' : q = p
    BY <1>1 DEF PublishersInFlight
  <2> QED BY <1>1, <2>1, <2>2, <2>3, <2>4, <2>5, <2>6 DEF TopicsLinked
<1> QED BY <1>2, <1>3, <1>4

LEMMA TopicsStep ==
    ASSUME MaxInFlight = 1, "crash" \notin Faults, TypeInv, SerialInv, TopicsLinked, [Next]_vars
    PROVE  TopicsLinked'
<1>1. CASE \E p \in Publishers : Publish(p) /\ UNCHANGED otherThanPub /\ OnlyPublisher(p)
  BY <1>1, PublishTopics
<1>2. CASE UNCHANGED <<pubPc, pubCall, topics, forumId>>
  BY <1>2, TopicsQuiet
<1>3. CASE UNCHANGED vars
  BY <1>2, <1>3 DEF vars, tables, pubVars, pubLocals
<1>4. ASSUME UNCHANGED pubVars, UNCHANGED forumId
      PROVE  UNCHANGED <<pubPc, pubCall, topics, forumId>>
  BY <1>4 DEF pubVars, pubLocals
<1>5. CASE \E e \in Editors : EditAction(e) /\ UNCHANGED otherThanEd
  <2>1. UNCHANGED forumId
    BY <1>5 DEF EditAction, EditStep, StartUpsert, UpsertItem, SyncPendingCurations, AbortUpsert,
       tables
  <2> QED BY <1>2, <1>4, <1>5, <2>1 DEF otherThanEd
<1>6. CASE \E d \in Removers : RemoveAction(d) /\ UNCHANGED otherThanRm
  <2>1. UNCHANGED forumId
    BY <1>6 DEF RemoveAction, RemoveStep, StartDeleteItem, StartDeleteCollection, DeleteItem,
       DeleteCollection, DeleteItemsOfCollection, AbortDelete, tables
  <2> QED BY <1>2, <1>4, <1>6, <2>1 DEF otherThanRm
<1>7. CASE \E v \in Reviewers : ReviewAction(v) /\ UNCHANGED otherThanRv
  <2>1. UNCHANGED forumId
    BY <1>7 DEF ReviewAction, ReviewStep, StartReview, TouchCollectionCuration,
       ReadReviewedItem, UpdateCuration, tables
  <2> QED BY <1>2, <1>4, <1>7, <2>1 DEF otherThanRv
<1>8. CASE \E s \in Submitters : SubmitAction(s) /\ UNCHANGED otherThanSb
  <2>1. UNCHANGED forumId
    BY <1>8 DEF SubmitAction, SubmitStep, StartSubmit, ReadSubmittedItem, InsertCuration, tables
  <2> QED BY <1>2, <1>4, <1>8, <2>1 DEF otherThanSb
<1>9. CASE Next
  BY <1>1, <1>5, <1>6, <1>7, <1>8, <1>9, MovesAlone DEF SerialInv
<1> QED BY <1>3, <1>9

\* As long as requests are served one at a time and none is cut short, a
\* collection gets a second topic only after the link to the first was lost
\* (OneTopicPerCollection): forum_id is read before the checks and written last.
THEOREM OneTopic ==
    ASSUME MaxInFlight = 1, "crash" \notin Faults
    PROVE  Spec => []OneTopicPerCollection
<1>1. TypeInv /\ SerialInv /\ TopicsLinked /\ [Next]_vars => TopicsLinked'
  BY TopicsStep
<1>2. TopicsLinked => OneTopicPerCollection
  BY DEF TopicsLinked
<1> QED BY <1>1, <1>2, InitTopics, TypeInvariant, SerialInvariant, PTL DEF Spec

=============================================================================
