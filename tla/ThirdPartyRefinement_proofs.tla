-------------------- MODULE ThirdPartyRefinement_proofs --------------------
(***************************************************************************)
(* The third party workflow implements Publication, its endpoints agree on *)
(* what is published, and the committee approves what it reviews, for any  *)
(* number of collections, items and requests, any bound and, unless a      *)
(* theorem says otherwise, any set of faults.                              *)
(***************************************************************************)
EXTENDS ThirdPartyRefinement, ThirdPartyApprovals, ThirdPartyWorkflow_proofs,
        WellFoundedInduction

-----------------------------------------------------------------------------
(* Deletes, and the foreign key of the curations.                          *)

LEMMA TargetsStep == TypeInv /\ TargetsByStage /\ [Next]_vars => TargetsByStage'
<1> SUFFICES ASSUME TypeInv, TargetsByStage, [Next]_vars PROVE TargetsByStage'
    OBVIOUS
<1>1. CASE UNCHANGED rmVars BY <1>1 DEF rmVars, TargetsByStage
<1>2. CASE \E d \in Removers : RemoveAction(d)
    BY <1>2 DEF RemoveAction, RemoveStep, StartDeleteItem, StartDeleteCollection,
       DeleteItem, DeleteCollection, DeleteItemsOfCollection, AbortDelete,
       TargetsByStage, TypeInv, TypeOK, ItemsTypeOK, TablesTypeOK, RmStages
<1> QED
    BY <1>1, <1>2, NextActions
    DEF vars, otherThanPub, otherThanEd, otherThanRv, otherThanSb

LEMMA PublishKeepsKey ==
    ASSUME TypeInv, CuratedItemsExist, NEW p \in Publishers, Publish(p)
    PROVE  CuratedItemsExist'
<1> USE DEF CuratedItemsExist, CuratedItems
<1>1. CASE UNCHANGED <<items, itemCurations>> BY <1>1
<1>2. CASE CreateItemCuration(p) BY <1>2 DEF CreateItemCuration
<1>3. CASE DeleteItemCurations(p) BY <1>3 DEF DeleteItemCurations
<1> QED
    BY <1>1, <1>2, <1>3 DEF Publish, PublishStep, StartPublish, CheckSlots, FindItems,
       CheckPending, CreateCheque, FinishItemCurations, CreateCollectionCuration,
       DeleteCheque, CreatePost, UpdatePost, LinkPost, CrashPublish, tables

LEMMA EditKeepsKey ==
    ASSUME TypeInv, CuratedItemsExist, NEW e \in Editors, EditAction(e)
    PROVE  CuratedItemsExist'
<1> USE DEF CuratedItemsExist, CuratedItems
<1>1. CASE SyncPendingCurations(e)
  <2>1. ASSUME NEW cur \in itemCurations PROVE synced(e, cur).item = cur.item
    <3>1. cur \in ItemCuration BY DEF TypeInv, TypeOK, TablesTypeOK
    <3> QED BY <3>1 DEF synced, ItemCuration
  <2> QED BY <1>1, <2>1 DEF SyncPendingCurations
<1>2. CASE UpsertItem(e) BY <1>2 DEF UpsertItem
<1>3. CASE StartUpsert(e) BY <1>3 DEF StartUpsert, tables
<1>4. CASE AbortUpsert(e) BY <1>4 DEF AbortUpsert, tables
<1> QED BY <1>1, <1>2, <1>3, <1>4 DEF EditAction, EditStep

LEMMA ReviewKeepsKey ==
    ASSUME TypeInv, CuratedItemsExist, NEW v \in Reviewers, ReviewAction(v)
    PROVE  CuratedItemsExist'
<1> USE DEF CuratedItemsExist, CuratedItems
<1>1. CASE UpdateCuration(v)
  <2>1. ASSUME NEW cur \in itemCurations PROVE decidedItem(v, cur).item = cur.item
    <3>1. cur \in ItemCuration BY DEF TypeInv, TypeOK, TablesTypeOK
    <3> QED BY <3>1 DEF decidedItem, ItemCuration
  <2> QED BY <1>1, <2>1 DEF UpdateCuration
<1>2. CASE StartReview(v) BY <1>2 DEF StartReview, tables
<1>3. CASE TouchCollectionCuration(v) BY <1>3 DEF TouchCollectionCuration, tables
<1>4. CASE ReadReviewedItem(v) BY <1>4 DEF ReadReviewedItem, tables
<1> QED BY <1>1, <1>2, <1>3, <1>4 DEF ReviewAction, ReviewStep

LEMMA KeyStep == TypeInv /\ CuratedItemsExist /\ [Next]_vars => CuratedItemsExist'
<1> SUFFICES ASSUME TypeInv, CuratedItemsExist, [Next]_vars PROVE CuratedItemsExist'
    OBVIOUS
<1>1. CASE UNCHANGED vars BY <1>1 DEF vars, tables, CuratedItemsExist, CuratedItems
<1>2. ASSUME NEW d \in Removers, RemoveAction(d) PROVE CuratedItemsExist'
    BY <1>2 DEF RemoveAction, RemoveStep, StartDeleteItem, StartDeleteCollection,
       DeleteItem, DeleteCollection, DeleteItemsOfCollection, AbortDelete, tables,
       deleteItems, deleteCollection, CuratedItemsExist, CuratedItems
<1>3. ASSUME NEW s \in Submitters, SubmitAction(s) PROVE CuratedItemsExist'
    BY <1>3 DEF SubmitAction, SubmitStep, StartSubmit, ReadSubmittedItem,
       InsertCuration, tables, CuratedItemsExist, CuratedItems
<1> QED
    BY <1>1, <1>2, <1>3, PublishKeepsKey, EditKeepsKey, ReviewKeepsKey, NextActions

-----------------------------------------------------------------------------
(* What the other requests do to publications, as Publication sees it:     *)
(* nothing but deletes.                                                    *)

\* Some items are deleted, with their curations; none, for most steps.
OnlyDeletes ==
    \E gone \in SUBSET Items :
        /\ deletedBar' = deletedBar \cup gone
        /\ \A q \in Publishers : curatedBy(q)' = curatedBy(q) \ gone

KeepsCurated ==
    /\ deletedBar' = deletedBar
    /\ \A q \in Publishers : curatedBy(q)' = curatedBy(q)

LEMMA KeptDeletesNothing == KeepsCurated => OnlyDeletes
<1>1. \A set : set = set \cup {} /\ set = set \ {} OBVIOUS
<1> QED BY <1>1 DEF KeepsCurated, OnlyDeletes

LEMMA SameRowsKeepCurated ==
    ASSUME UNCHANGED <<itemCurations, rmVars>>
    PROVE  KeepsCurated
BY DEF KeepsCurated, deletedBar, DeletedItem, curatedBy, itemCurationsOf, rmVars

LEMMA EditKeepsCurated ==
    ASSUME TypeInv, NEW e \in Editors, EditAction(e), UNCHANGED rmVars
    PROVE  KeepsCurated
<1>1. CASE SyncPendingCurations(e)
  <2>1. ASSUME NEW cur \in itemCurations
        PROVE  synced(e, cur).item = cur.item /\ synced(e, cur).by = cur.by
    <3>1. cur \in ItemCuration BY DEF TypeInv, TypeOK, TablesTypeOK
    <3> QED BY <3>1 DEF synced, ItemCuration
  <2>2. itemCurations' = {synced(e, cur) : cur \in itemCurations}
    BY <1>1 DEF SyncPendingCurations
  <2>3. \A q \in Publishers : curatedBy(q)' = curatedBy(q)
    BY <2>1, <2>2 DEF curatedBy, itemCurationsOf
  <2> QED BY <2>3 DEF KeepsCurated, deletedBar, DeletedItem, rmVars
<1>2. CASE itemCurations' = itemCurations BY <1>2, SameRowsKeepCurated
<1> QED
    BY <1>1, <1>2 DEF EditAction, EditStep, StartUpsert, UpsertItem, AbortUpsert, tables

LEMMA ReviewKeepsCurated ==
    ASSUME TypeInv, NEW v \in Reviewers, ReviewAction(v), UNCHANGED rmVars
    PROVE  KeepsCurated
<1>1. CASE UpdateCuration(v)
  <2>1. ASSUME NEW cur \in itemCurations
        PROVE  decidedItem(v, cur).item = cur.item /\ decidedItem(v, cur).by = cur.by
    <3>1. cur \in ItemCuration BY DEF TypeInv, TypeOK, TablesTypeOK
    <3> QED BY <3>1 DEF decidedItem, ItemCuration
  <2>2. itemCurations' = {decidedItem(v, cur) : cur \in itemCurations}
    BY <1>1 DEF UpdateCuration
  <2>3. \A q \in Publishers : curatedBy(q)' = curatedBy(q)
    BY <2>1, <2>2 DEF curatedBy, itemCurationsOf
  <2> QED BY <2>3 DEF KeepsCurated, deletedBar, DeletedItem, rmVars
<1>2. CASE itemCurations' = itemCurations BY <1>2, SameRowsKeepCurated
<1> QED
    BY <1>1, <1>2 DEF ReviewAction, ReviewStep, StartReview, TouchCollectionCuration,
       ReadReviewedItem, tables

LEMMA SubmitKeepsCurated ==
    ASSUME NEW s \in Submitters, SubmitAction(s), UNCHANGED rmVars
    PROVE  KeepsCurated
<1>1. CASE InsertCuration(s)
  <2>1. \A new \in itemCurations' : new \in itemCurations \/ new.by = s
    BY <1>1 DEF InsertCuration
  <2>2. itemCurations \subseteq itemCurations' BY <1>1 DEF InsertCuration
  <2>3. \A q \in Publishers : itemCurationsOf(q)' = itemCurationsOf(q)
    BY <2>1, <2>2, RequestsAssumption DEF itemCurationsOf
  <2> QED BY <2>3 DEF KeepsCurated, curatedBy, deletedBar, DeletedItem, rmVars
<1>2. CASE itemCurations' = itemCurations BY <1>2, SameRowsKeepCurated
<1> QED
    BY <1>1, <1>2 DEF SubmitAction, SubmitStep, StartSubmit, ReadSubmittedItem, tables

\* A delete that ends has deleted its target, item or collection.
LEMMA EndedDelete ==
    ASSUME TypeInv, NEW d \in Removers, rmPc' = [rmPc EXCEPT ![d] = "done"],
           rmTarget' = rmTarget
    PROVE  deletedBar' = deletedBar \cup
               {i \in Items : rmTarget[d] = i \/ rmTarget[d] = CollectionOf[i]}
BY DEF TypeInv, TypeOK, ItemsTypeOK, deletedBar, DeletedItem

LEMMA RemoveDeletes ==
    ASSUME TypeInv, TargetsByStage, CuratedItemsExist, NEW d \in Removers, RemoveAction(d)
    PROVE  OnlyDeletes
<1> USE DEF TypeInv, TypeOK, ItemsTypeOK
<1>1. CASE DeleteItem(d)
  <2> DEFINE gone == {i \in Items : rmTarget[d] = i \/ rmTarget[d] = CollectionOf[i]}
  <2>1. deletedBar' = deletedBar \cup gone
    BY <1>1, EndedDelete DEF DeleteItem
  <2>2. gone = {rmTarget[d]}
    BY <1>1, CollectionOfAssumption, TargetsAssumption DEF DeleteItem, TargetsByStage
  <2>3. \A q \in Publishers : curatedBy(q)' = curatedBy(q) \ gone
    BY <1>1, <2>2 DEF DeleteItem, deleteItems, curatedBy, itemCurationsOf
  <2> QED BY <2>1, <2>3 DEF OnlyDeletes
<1>2. CASE DeleteItemsOfCollection(d)
  <2> DEFINE gone == {i \in Items : rmTarget[d] = i \/ rmTarget[d] = CollectionOf[i]}
  <2>1. deletedBar' = deletedBar \cup gone
    BY <1>2, EndedDelete DEF DeleteItemsOfCollection
  <2>2. \A i \in items : i \in gone <=> CollectionOf[i] = rmTarget[d]
    BY <1>2, TargetsAssumption
    DEF DeleteItemsOfCollection, TargetsByStage, TablesTypeOK
  <2>3. itemCurations' = {cur \in itemCurations : cur.item \notin gone}
    BY <1>2, <2>2 DEF DeleteItemsOfCollection, deleteItems, CuratedItemsExist, CuratedItems
  <2>4. \A q \in Publishers : curatedBy(q)' = curatedBy(q) \ gone
    BY <2>3 DEF curatedBy, itemCurationsOf
  <2> QED BY <2>1, <2>4 DEF OnlyDeletes
<1>3. CASE /\ rmPc[d] # "done" /\ \E stage : stage # "done" /\ rmPc' = [rmPc EXCEPT ![d] = stage]
           /\ \E target : rmTarget' = [rmTarget EXCEPT ![d] = target]
           /\ itemCurations' = itemCurations
  <2>1. deletedBar' = deletedBar BY <1>3 DEF deletedBar, DeletedItem
  <2> QED BY <1>3, <2>1, KeptDeletesNothing DEF KeepsCurated, curatedBy, itemCurationsOf
<1>4. CASE StartDeleteItem(d) BY <1>3, <1>4 DEF StartDeleteItem, tables
<1>5. CASE StartDeleteCollection(d) BY <1>3, <1>5 DEF StartDeleteCollection, tables
<1>6. rmTarget = [rmTarget EXCEPT ![d] = rmTarget[d]] OBVIOUS
<1>7. CASE DeleteCollection(d) BY <1>3, <1>6, <1>7 DEF DeleteCollection
<1>8. CASE AbortDelete(d) BY <1>3, <1>6, <1>8 DEF AbortDelete, tables
<1> QED BY <1>1, <1>2, <1>4, <1>5, <1>7, <1>8 DEF RemoveAction, RemoveStep

LEMMA OthersOnlyDelete ==
    ASSUME TypeInv, TargetsByStage, CuratedItemsExist, [Next]_vars,
           ~ \E p \in Publishers : Publish(p) /\ UNCHANGED otherThanPub
    PROVE  OnlyDeletes /\ UNCHANGED pubVars
<1>1. CASE UNCHANGED vars
    BY <1>1, SameRowsKeepCurated, KeptDeletesNothing DEF vars, tables
<1>2. CASE \E e \in Editors : EditAction(e) /\ UNCHANGED otherThanEd
    BY <1>2, EditKeepsCurated, KeptDeletesNothing DEF otherThanEd
<1>3. CASE \E d \in Removers : RemoveAction(d) /\ UNCHANGED otherThanRm
    BY <1>3, RemoveDeletes DEF otherThanRm
<1>4. CASE \E v \in Reviewers : ReviewAction(v) /\ UNCHANGED otherThanRv
    BY <1>4, ReviewKeepsCurated, KeptDeletesNothing DEF otherThanRv
<1>5. CASE \E s \in Submitters : SubmitAction(s) /\ UNCHANGED otherThanSb
    BY <1>5, SubmitKeepsCurated, KeptDeletesNothing DEF otherThanSb
<1> QED BY <1>1, <1>2, <1>3, <1>4, <1>5, NextActions

-----------------------------------------------------------------------------
(* The batch of a publication.                                             *)

LEMMA KeptBatch ==
    ASSUME NEW p \in Publishers, BatchOf(p), KeepsLocalsOf(p), KeepsRowsOf(p),
           NEW gone \in SUBSET Items, deletedBar' = deletedBar \cup gone,
           curatedBy(p)' = curatedBy(p) \ gone
    PROVE  BatchOf(p)'
<1>1. dbItems(p)' = dbItems(p) BY DEF KeepsLocalsOf, dbItems
<1>2. paidBy(p)' = paidBy(p) BY DEF KeepsRowsOf, paidBy
<1> QED BY <1>1, <1>2 DEF KeepsLocalsOf, BatchOf

\* A publication before its batch, or after it.
LEMMA NoBatch ==
    ASSUME NEW p \in Publishers, pubPc'[p] \notin {"curations", "collection"},
           pubPc'[p] \in BeforeCheque => ~pubError'[p]
    PROVE  BatchOf(p)'
BY DEF BatchOf

LEMMA PublishBatch ==
    ASSUME TypeInv, NEW p \in Publishers, TraceOf(p), LedgerOf(p), BatchOf(p),
           Publish(p), deletedBar' = deletedBar
    PROVE  BatchOf(p)'
<1> USE DEF TypeInv, TypeOK, PubTypeOK, pubGoto, pubAt
<1>1. CASE StartPublish(p) \/ CheckSlots(p) \/ FindItems(p) \/ CheckPending(p)
  <2>1. pubPc[p] \in BeforeCheque
    BY <1>1 DEF StartPublish, CheckSlots, FindItems, CheckPending, BeforeCheque
  <2>2. ~pubError[p] BY <2>1 DEF BatchOf
  <2>3. pubPc'[p] \notin {"curations", "collection"} /\ ~pubError'[p]
    BY <1>1, <2>2 DEF StartPublish, CheckSlots, FindItems, CheckPending, pubReject,
       pubFail, pubLocals
  <2> QED BY <2>3, NoBatch
<1>2. CASE CreateCheque(p)
  <2>1. CASE pubPc'[p] = "undoCurations" BY <2>1, NoBatch DEF BeforeCheque
  <2>2. CASE pubPc'[p] # "undoCurations"
    <3> DEFINE new == [by |-> p, collection |-> pubCall[p].collection,
                       qty |-> pubCall[p].qty]
    <3>1. /\ pubPc[p] = "cheque" /\ pubPc'[p] = "curations"
          /\ cheques' = cheques \cup {new} /\ pubTodo'[p] = dbItems(p)
          /\ pubItems' = pubItems /\ pubError' = pubError
      BY <1>2, <2>2 DEF CreateCheque
    <3>2. chequesOf(p) = {} BY <3>1 DEF TraceOf, BeforeCheque
    <3>3. chequesOf(p)' = {new} BY <3>1, <3>2 DEF chequesOf
    <3>4. dbItems(p)' = dbItems(p) BY <3>1 DEF dbItems
    <3>5. new.qty = Cardinality(dbItems(p)) BY <3>1 DEF LedgerOf
    <3> HIDE DEF new
    <3>6. paidBy(p)' = {Cardinality(dbItems(p))} BY <3>3, <3>5 DEF paidBy
    <3>7. ~pubError[p] BY <3>1 DEF BatchOf, BeforeCheque
    <3> QED BY <3>1, <3>4, <3>6, <3>7 DEF BatchOf, BeforeCheque
  <2> QED BY <2>1, <2>2
<1>3. CASE CreateItemCuration(p)
  <2> DEFINE new(i) == [by |-> p, item |-> i, status |-> "pending",
                        hash |-> pubItems[p][i], created |-> pubCreated[p]]
  <2>0. PICK i \in pubTodo[p] :
            /\ pubTodo'[p] = pubTodo[p] \ {i}
            /\ \/ new(i) \in itemCurations' /\ UNCHANGED pubError
               \/ pubError'[p] = TRUE
    BY <1>3 DEF CreateItemCuration
  <2>1. /\ pubTodo'[p] = pubTodo[p] \ {i}
        /\ \/ i \in curatedBy(p)' /\ UNCHANGED pubError
           \/ pubError'[p] = TRUE
    <3>1. new(i).by = p /\ new(i).item = i OBVIOUS
    <3> HIDE DEF new
    <3> QED BY <2>0, <3>1 DEF curatedBy, itemCurationsOf
  <2>2. /\ pubPc[p] = "curations" /\ pubPc'[p] = "curations"
        /\ pubItems' = pubItems /\ cheques' = cheques
        /\ itemCurations \subseteq itemCurations'
    BY <1>3 DEF CreateItemCuration
  <2>3. curatedBy(p) \subseteq curatedBy(p)' BY <2>2 DEF curatedBy, itemCurationsOf
  <2>4. dbItems(p)' = dbItems(p) /\ paidBy(p)' = paidBy(p)
    BY <2>2 DEF dbItems, paidBy, chequesOf
  <2> QED BY <2>1, <2>2, <2>3, <2>4 DEF BatchOf, BeforeCheque
<1>4. CASE FinishItemCurations(p)
  <2>1. /\ pubPc[p] = "curations" /\ pubTodo[p] = {}
        /\ pubPc'[p] \in {"undoCheque", "collection"}
        /\ pubPc'[p] = "collection" => ~pubError[p]
        /\ UNCHANGED <<tables, pubLocals>>
    BY <1>4 DEF FinishItemCurations, hasFailed
  <2>2. /\ dbItems(p)' = dbItems(p) /\ paidBy(p)' = paidBy(p)
        /\ curatedBy(p)' = curatedBy(p)
    BY <2>1 DEF tables, pubLocals, dbItems, paidBy, chequesOf, curatedBy, itemCurationsOf
  <2> QED BY <2>1, <2>2 DEF BatchOf, BeforeCheque, pubLocals
<1>5. CASE CreateCollectionCuration(p)
  <2>1. pubPc'[p] \in {"forum", "undoCheque"} BY <1>5 DEF CreateCollectionCuration
  <2> QED BY <2>1, NoBatch DEF BeforeCheque
<1>6. CASE DeleteCheque(p) \/ DeleteItemCurations(p)
  <2>1. pubPc'[p] \in {"undoCurations", "undoRest", "rejected", "dirty"}
    BY <1>6 DEF DeleteCheque, DeleteItemCurations, pubFail
  <2> QED BY <2>1, NoBatch DEF BeforeCheque
<1>7. CASE CreatePost(p) \/ UpdatePost(p) \/ LinkPost(p) \/ CrashPublish(p)
  <2>1. pubPc'[p] \in {"link", "done", "unposted", "dirty", "crashed"}
    BY <1>7 DEF CreatePost, UpdatePost, LinkPost, CrashPublish
  <2> QED BY <2>1, NoBatch DEF BeforeCheque
<1> QED
    BY <1>1, <1>2, <1>3, <1>4, <1>5, <1>6, <1>7 DEF Publish, PublishStep

LEMMA PublishKeepsDeleted ==
    ASSUME UNCHANGED rmVars PROVE deletedBar' = deletedBar
BY DEF deletedBar, DeletedItem, rmVars

RefinementInv ==
    /\ TypeInv /\ TraceByStage /\ LedgerByStage
    /\ TargetsByStage /\ CuratedItemsExist /\ BatchByStage

LEMMA BatchStep == RefinementInv /\ [Next]_vars => BatchByStage'
<1> SUFFICES ASSUME RefinementInv, [Next]_vars, NEW q \in Publishers
             PROVE  BatchOf(q)'
    BY DEF BatchByStage
<1> USE DEF RefinementInv
<1>1. TraceOf(q) /\ LedgerOf(q) /\ BatchOf(q)
    BY DEF TraceByStage, LedgerByStage, BatchByStage
<1>2. CASE ~ \E p \in Publishers : Publish(p) /\ UNCHANGED otherThanPub
  <2>1. KeepsRowsOf(q) /\ KeepsLocalsOf(q) BY <1>2, OthersKeep
  <2> QED BY <1>1, <1>2, <2>1, OthersOnlyDelete, KeptBatch DEF OnlyDeletes
<1>3. CASE \E p \in Publishers : Publish(p) /\ UNCHANGED otherThanPub
  <2>1. PICK p \in Publishers : Publish(p) /\ UNCHANGED otherThanPub BY <1>3
  <2>2. deletedBar' = deletedBar BY <2>1, PublishKeepsDeleted DEF otherThanPub
  <2>3. CASE p = q BY <1>1, <2>1, <2>2, <2>3, PublishBatch
  <2>4. CASE p # q
    <3>1. /\ KeepsRowsOf(q) /\ KeepsLocalsOf(q)
          /\ itemCurationsOf(q)' = itemCurationsOf(q)
      BY <2>1, <2>4, PublishKeepsOthers
    <3>2. curatedBy(q)' = curatedBy(q) \ {} BY <3>1 DEF curatedBy
    <3>3. deletedBar' = deletedBar \cup {} /\ {} \in SUBSET Items BY <2>2
    <3> QED BY <1>1, <3>1, <3>2, <3>3, KeptBatch
  <2> QED BY <2>3, <2>4
<1> QED BY <1>2, <1>3

-----------------------------------------------------------------------------
(* The steps of a publication are steps of Publication.                    *)

\* Publication p becomes what its rows and its stage make of it; the others and
\* the deleted items stay what they are.
Moves(p) ==
    /\ statusBar' = [statusBar EXCEPT ![p] = statusOfStage(pubPc'[p])]
    /\ wantedBar' = [wantedBar EXCEPT ![p] = dbItems(p)']
    /\ curatedBar' = [curatedBar EXCEPT ![p] = curatedBy(p)']
    /\ paidBar' = [paidBar EXCEPT ![p] = paidBy(p)']
    /\ deletedBar' = deletedBar

LEMMA PublishMoves ==
    ASSUME RefinementInv, NEW p \in Publishers, Publish(p), UNCHANGED otherThanPub
    PROVE  /\ Moves(p)
           /\ \A q \in Publishers \ {p} : q \in reviewableBar' <=> q \in reviewableBar
<1>1. ASSUME NEW q \in Publishers, q # p
      PROVE  /\ pubPc'[q] = pubPc[q]
             /\ dbItems(q)' = dbItems(q)
             /\ curatedBy(q)' = curatedBy(q)
             /\ paidBy(q)' = paidBy(q)
             /\ collectionCurationsOf(q)' = collectionCurationsOf(q)
  <2>1. /\ KeepsRowsOf(q) /\ KeepsLocalsOf(q)
        /\ itemCurationsOf(q)' = itemCurationsOf(q)
        /\ collectionCurationsOf(q)' = collectionCurationsOf(q)
    BY <1>1, PublishKeepsOthers DEF RefinementInv
  <2> QED
    BY <2>1 DEF KeepsLocalsOf, KeepsRowsOf, dbItems, curatedBy, paidBy
<1>2. deletedBar' = deletedBar BY PublishKeepsDeleted DEF otherThanPub
<1>3. statusBar' = [statusBar EXCEPT ![p] = statusOfStage(pubPc'[p])]
  BY <1>1 DEF statusBar
<1>4. wantedBar' = [wantedBar EXCEPT ![p] = dbItems(p)'] BY <1>1 DEF wantedBar
<1>5. curatedBar' = [curatedBar EXCEPT ![p] = curatedBy(p)'] BY <1>1 DEF curatedBar
<1>6. paidBar' = [paidBar EXCEPT ![p] = paidBy(p)'] BY <1>1 DEF paidBar
<1>7. \A q \in Publishers \ {p} : q \in reviewableBar' <=> q \in reviewableBar
  BY <1>1 DEF reviewableBar
<1> QED BY <1>2, <1>3, <1>4, <1>5, <1>6, <1>7 DEF Moves

Bars(p) ==
    /\ statusBar[p] = statusOfStage(pubPc[p])
    /\ wantedBar[p] = dbItems(p)
    /\ curatedBar[p] = curatedBy(p)
    /\ paidBar[p] = paidBy(p)

LEMMA BarsOf == \A p \in Publishers : Bars(p)
BY DEF Bars, statusBar, wantedBar, curatedBar, paidBar

\* A step that changes nothing of what Publication sees.
LEMMA Stutters ==
    ASSUME NEW p \in Publishers, Moves(p), reviewableBar' = reviewableBar,
           statusOfStage(pubPc'[p]) = statusOfStage(pubPc[p]),
           dbItems(p)' = dbItems(p), curatedBy(p)' = curatedBy(p),
           paidBy(p)' = paidBy(p)
    PROVE  UNCHANGED promised!vars
<1>1. statusBar' = statusBar BY DEF Moves, statusBar
<1>2. wantedBar' = wantedBar BY DEF Moves, wantedBar
<1>3. curatedBar' = curatedBar BY DEF Moves, curatedBar
<1>4. paidBar' = paidBar BY DEF Moves, paidBar
<1> QED BY <1>1, <1>2, <1>3, <1>4 DEF Moves, promised!vars

Simulated == promised!Next \/ UNCHANGED promised!vars

\* A publication that is given up forgets what it wanted.
LEMMA FailForgets ==
    ASSUME TypeInv, NEW p \in Publishers, NEW stage, pubFail(p, stage)
    PROVE  pubPc'[p] = stage /\ dbItems(p)' = {}
BY DEF TypeInv, TypeOK, PubTypeOK, pubFail, pubGoto, noItems, dbItems

LEMMA SameRows ==
    ASSUME NEW p \in Publishers, UNCHANGED tables
    PROVE  /\ curatedBy(p)' = curatedBy(p) /\ paidBy(p)' = paidBy(p)
           /\ reviewableBar' = reviewableBar
BY DEF tables, curatedBy, paidBy, chequesOf, itemCurationsOf, reviewableBar,
       collectionCurationsOf

LEMMA RejectSimulates ==
    ASSUME RefinementInv, NEW p \in Publishers, Moves(p), UNCHANGED tables,
           pubPc[p] \in BeforeCheque, pubReject(p)
    PROVE  Simulated
<1>1. Bars(p) BY BarsOf
<1>2. pubPc'[p] = "rejected" /\ dbItems(p)' = {}
  BY FailForgets DEF RefinementInv, pubReject
<1>3. curatedBy(p) = {} /\ paidBy(p) = {}
  BY DEF RefinementInv, TraceByStage, TraceOf, curatedBy, paidBy
<1>4. curatedBy(p)' = {} /\ paidBy(p)' = {} /\ reviewableBar' = reviewableBar
  BY <1>3, SameRows
<1>5. statusOfStage(pubPc[p]) = "open" /\ statusOfStage(pubPc'[p]) = "refused"
  BY <1>2 DEF statusOfStage, BeforeCheque
<1>6. promised!Refuse(p) BY <1>1, <1>2, <1>4, <1>5 DEF Moves, Bars, promised!Refuse
<1> QED BY <1>6 DEF Simulated, promised!Next

\* The checks: a request that goes on has chosen what to publish, at most.
LEMMA ChecksSimulate ==
    ASSUME RefinementInv, NEW p \in Publishers, Moves(p),
           StartPublish(p) \/ CheckSlots(p) \/ FindItems(p) \/ CheckPending(p)
    PROVE  Simulated
<1> USE DEF pubGoto, pubAt
<1>1. UNCHANGED tables /\ pubPc[p] \in BeforeCheque
  BY DEF StartPublish, CheckSlots, FindItems, CheckPending, BeforeCheque
<1>2. CASE pubReject(p) BY <1>1, <1>2, RejectSimulates
<1>3. CASE ~pubReject(p) /\ ~FindItems(p)
  <2>1. pubPc'[p] \in {"slots", "items", "cheque"} /\ pubItems' = pubItems
    BY <1>3 DEF StartPublish, CheckSlots, CheckPending, pubLocals, RefinementInv,
       TypeInv, TypeOK, PubTypeOK
  <2>2. statusOfStage(pubPc'[p]) = statusOfStage(pubPc[p])
    BY <1>1, <2>1 DEF statusOfStage, BeforeCheque
  <2>3. dbItems(p)' = dbItems(p) BY <2>1 DEF dbItems
  <2> QED BY <1>1, <2>2, <2>3, SameRows, Stutters DEF Simulated
<1>4. CASE ~pubReject(p) /\ FindItems(p)
  <2>1. pubPc[p] = "items" /\ pubPc'[p] = "pending"
    BY <1>4 DEF FindItems, RefinementInv, TypeInv, TypeOK, PubTypeOK
  <2>2. statusOfStage(pubPc[p]) = "open" /\ statusOfStage(pubPc'[p]) = "open"
    BY <2>1 DEF statusOfStage
  <2>3. curatedBy(p) = {} /\ paidBy(p) = {}
    BY <1>1 DEF RefinementInv, TraceByStage, TraceOf, curatedBy, paidBy
  <2>4. /\ statusBar' = statusBar /\ curatedBar' = curatedBar /\ paidBar' = paidBar
        /\ reviewableBar' = reviewableBar
    BY <1>1, <2>2, SameRows DEF Moves, statusBar, curatedBar, paidBar
  <2>5. dbItems(p)' \in SUBSET Items BY DEF dbItems
  <2>6. promised!Choose(p)
    BY <2>2, <2>3, <2>4, <2>5, BarsOf DEF Bars, Moves, promised!Choose
  <2> QED BY <2>6 DEF Simulated, promised!Next
<1> QED BY <1>2, <1>3, <1>4

\* Publication counts with an instance of Cardinality of its own.
LEMMA SameCardinality == \A S : promised!Cardinality(S) = Cardinality(S)
BY DEF promised!Cardinality, Cardinality

LEMMA ChequeSimulates ==
    ASSUME RefinementInv, NEW p \in Publishers, Moves(p), BatchOf(p)', CreateCheque(p)
    PROVE  Simulated
<1> USE DEF RefinementInv, TypeInv, TypeOK, PubTypeOK, pubGoto, pubAt
<1>1. /\ pubPc[p] = "cheque" /\ pubPc'[p] \in {"curations", "undoCurations"}
      /\ UNCHANGED <<pubItems, itemCurations, collectionCurations>>
  BY DEF CreateCheque
<1>2. statusOfStage(pubPc[p]) = "open" /\ statusOfStage(pubPc'[p]) = "open"
  BY <1>1 DEF statusOfStage
<1>3. /\ dbItems(p)' = dbItems(p) /\ curatedBy(p)' = curatedBy(p)
      /\ reviewableBar' = reviewableBar
  BY <1>1 DEF dbItems, curatedBy, itemCurationsOf, reviewableBar, collectionCurationsOf
<1>4. curatedBy(p) = {} /\ paidBy(p) = {}
  BY <1>1 DEF TraceByStage, TraceOf, BeforeCheque, curatedBy, paidBy
<1>5. CASE pubPc'[p] = "undoCurations"
  <2>1. paidBy(p)' = paidBy(p) BY <1>5 DEF CreateCheque, paidBy, chequesOf
  <2> QED BY <1>2, <1>3, <2>1, Stutters DEF Simulated
<1>6. CASE pubPc'[p] = "curations"
  <2>1. paidBy(p)' = {Cardinality(dbItems(p))} BY <1>3, <1>6 DEF BatchOf
  <2>2. statusBar' = statusBar BY <1>2 DEF Moves, statusBar
  <2>3. curatedBar' = curatedBar BY <1>3 DEF Moves, curatedBar
  <2>4. wantedBar' = wantedBar BY <1>3 DEF Moves, wantedBar
  <2>5. promised!Pay(p)
    BY <1>2, <1>3, <1>4, <2>1, <2>2, <2>3, <2>4, BarsOf, SameCardinality
    DEF Bars, Moves, promised!Pay
  <2> QED BY <2>5 DEF Simulated, promised!Next
<1> QED BY <1>1, <1>5, <1>6

LEMMA CurationSimulates ==
    ASSUME RefinementInv, NEW p \in Publishers, Moves(p), CreateItemCuration(p)
    PROVE  Simulated
<1> USE DEF RefinementInv, TypeInv, TypeOK, PubTypeOK, pubAt
<1> DEFINE new(i) == [by |-> p, item |-> i, status |-> "pending",
                      hash |-> pubItems[p][i], created |-> pubCreated[p]]
<1>1. PICK i \in pubTodo[p] : itemCurations' \in {itemCurations, itemCurations \cup {new(i)}}
  BY DEF CreateItemCuration
<1>2. /\ pubPc[p] = "curations"
      /\ UNCHANGED <<pubPc, pubItems, cheques, collectionCurations>>
  BY DEF CreateItemCuration
<1>3. statusOfStage(pubPc[p]) = "open" BY <1>2 DEF statusOfStage
<1>4. /\ dbItems(p)' = dbItems(p) /\ paidBy(p)' = paidBy(p)
      /\ reviewableBar' = reviewableBar
  BY <1>2 DEF dbItems, paidBy, chequesOf, reviewableBar, collectionCurationsOf
<1>5. CASE itemCurations' = itemCurations
  <2>1. curatedBy(p)' = curatedBy(p) BY <1>5 DEF curatedBy, itemCurationsOf
  <2> QED BY <1>2, <1>4, <2>1, Stutters DEF Simulated
<1>6. CASE itemCurations' = itemCurations \cup {new(i)}
  <2>1. new(i).by = p /\ new(i).item = i OBVIOUS
  <2> HIDE DEF new
  <2>2. curatedBy(p)' = curatedBy(p) \cup {i}
    BY <1>6, <2>1 DEF curatedBy, itemCurationsOf
  <2>3. i \in dbItems(p) BY <1>1 DEF TodoWasFound
  <2>4. hasPaid(p) BY <1>2 DEF LedgerByStage, LedgerOf
  <2>5. paidBy(p) # {} BY <2>4 DEF hasPaid, paidBy
  <2>6. statusBar' = statusBar BY <1>2 DEF Moves, statusBar
  <2>7. wantedBar' = wantedBar BY <1>4 DEF Moves, wantedBar
  <2>8. paidBar' = paidBar BY <1>4 DEF Moves, paidBar
  <2>9. promised!Curate(p)
    BY <1>3, <1>4, <2>2, <2>3, <2>5, <2>6, <2>7, <2>8, BarsOf
    DEF Bars, Moves, promised!Curate
  <2> QED BY <2>9 DEF Simulated, promised!Next
<1> QED BY <1>1, <1>5, <1>6

LEMMA ReviewOpens ==
    ASSUME RefinementInv, NEW p \in Publishers, Moves(p), CreateCollectionCuration(p),
           \A q \in Publishers \ {p} : q \in reviewableBar' <=> q \in reviewableBar
    PROVE  Simulated
<1> USE DEF RefinementInv, TypeInv, TypeOK, PubTypeOK, pubGoto, pubAt
<1>1. /\ pubPc[p] = "collection" /\ pubPc'[p] \in {"forum", "undoCheque"}
      /\ UNCHANGED <<pubItems, itemCurations, cheques>>
  BY DEF CreateCollectionCuration, pubLocals
<1>2. /\ dbItems(p)' = dbItems(p) /\ paidBy(p)' = paidBy(p)
      /\ curatedBy(p)' = curatedBy(p)
  BY <1>1 DEF dbItems, paidBy, chequesOf, curatedBy, itemCurationsOf
<1>3. statusOfStage(pubPc[p]) = "open" BY <1>1 DEF statusOfStage
<1>4. CASE pubPc'[p] = "undoCheque"
  <2>1. reviewableBar' = reviewableBar
    BY <1>4 DEF CreateCollectionCuration, reviewableBar, collectionCurationsOf
  <2>2. statusOfStage(pubPc'[p]) = "open" BY <1>4 DEF statusOfStage
  <2> QED BY <1>2, <1>3, <2>1, <2>2, Stutters DEF Simulated
<1>5. CASE pubPc'[p] = "forum"
  <2> DEFINE new == [by |-> p, collection |-> pubCall[p].collection,
                     status |-> "pending", created |-> pubCreated[p]]
  <2>1. new \in collectionCurations' /\ new.by = p
    BY <1>5 DEF CreateCollectionCuration
  <2> HIDE DEF new
  <2>2. p \in reviewableBar' BY <2>1 DEF reviewableBar, collectionCurationsOf
  <2>3. reviewableBar' = reviewableBar \cup {p} BY <2>2 DEF reviewableBar
  <2>4. statusOfStage(pubPc'[p]) = "stored" BY <1>5 DEF statusOfStage
  <2>5. /\ paidBy(p) = {Cardinality(dbItems(p))}
        /\ dbItems(p) \ curatedBy(p) \subseteq deletedBar
    BY <1>1 DEF BatchByStage, BatchOf
  <2>6. wantedBar' = wantedBar BY <1>2 DEF Moves, wantedBar
  <2>7. curatedBar' = curatedBar BY <1>2 DEF Moves, curatedBar
  <2>8. paidBar' = paidBar BY <1>2 DEF Moves, paidBar
  <2>9. promised!Commit(p)
    BY <1>3, <2>3, <2>4, <2>5, <2>6, <2>7, <2>8, BarsOf, SameCardinality
    DEF Bars, Moves, promised!Commit
  <2> QED BY <2>9 DEF Simulated, promised!Next
<1> QED BY <1>1, <1>4, <1>5

LEMMA RefundSimulates ==
    ASSUME RefinementInv, NEW p \in Publishers, Moves(p), DeleteCheque(p)
    PROVE  Simulated
<1> USE DEF RefinementInv, TypeInv, TypeOK, PubTypeOK, pubGoto, pubAt
<1>1. /\ pubPc[p] = "undoCheque" /\ pubPc'[p] \in {"undoCurations", "undoRest"}
      /\ UNCHANGED <<pubItems, itemCurations, collectionCurations>>
      /\ cheques' \in {cheques, {cheque \in cheques : cheque.by # p}}
  BY DEF DeleteCheque, pubLocals
<1>2. /\ dbItems(p)' = dbItems(p) /\ curatedBy(p)' = curatedBy(p)
      /\ reviewableBar' = reviewableBar
  BY <1>1 DEF dbItems, curatedBy, itemCurationsOf, reviewableBar, collectionCurationsOf
<1>3. statusOfStage(pubPc[p]) = "open" /\ statusOfStage(pubPc'[p]) = "open"
  BY <1>1 DEF statusOfStage
<1>4. CASE cheques' = cheques
  <2>1. paidBy(p)' = paidBy(p) BY <1>4 DEF paidBy, chequesOf
  <2> QED BY <1>2, <1>3, <2>1, Stutters DEF Simulated
<1>5. CASE cheques' = {cheque \in cheques : cheque.by # p}
  <2>1. paidBy(p)' = {} BY <1>5 DEF paidBy, chequesOf
  <2>2. statusBar' = statusBar BY <1>3 DEF Moves, statusBar
  <2>3. wantedBar' = wantedBar BY <1>2 DEF Moves, wantedBar
  <2>4. curatedBar' = curatedBar BY <1>2 DEF Moves, curatedBar
  <2>5. promised!Refund(p)
    BY <1>2, <1>3, <2>1, <2>2, <2>3, <2>4, BarsOf DEF Bars, Moves, promised!Refund
  <2> QED BY <2>5 DEF Simulated, promised!Next
<1> QED BY <1>1, <1>4, <1>5

\* The rollback ends: nothing is left, or the publication is broken.
LEMMA RollbackSimulates ==
    ASSUME RefinementInv, NEW p \in Publishers, Moves(p), DeleteItemCurations(p)
    PROVE  Simulated
<1> USE DEF pubAt
<1>1. /\ pubPc[p] \in {"undoCurations", "undoRest"}
      /\ UNCHANGED <<cheques, collectionCurations>>
      /\ itemCurations' \in {itemCurations, itemCurations \ curationsOfIds(p)}
  BY DEF DeleteItemCurations
<1>2. PICK stage : pubFail(p, stage)
  BY DEF DeleteItemCurations
<1>3. dbItems(p)' = {} /\ pubPc'[p] = stage
  BY <1>2, FailForgets DEF RefinementInv
<1>4. /\ pubPc'[p] \in {"rejected", "dirty"}
      /\ pubPc'[p] = "rejected" =>
             pubPc[p] = "undoCurations" /\ itemCurations' = itemCurations \ curationsOfIds(p)
  BY DEF DeleteItemCurations, pubFail, pubGoto, RefinementInv, TypeInv, TypeOK, PubTypeOK
<1>5. paidBy(p)' = paidBy(p) /\ reviewableBar' = reviewableBar
  BY <1>1 DEF paidBy, chequesOf, reviewableBar, collectionCurationsOf
<1>6. /\ itemCurations' = itemCurations \ curationsOfIds(p) => curatedBy(p)' = {}
      /\ curatedBy(p)' \in {curatedBy(p), {}}
  BY <1>1 DEF curatedBy, itemCurationsOf, curationsOfIds
<1>7. statusOfStage(pubPc[p]) = "open" BY <1>1 DEF statusOfStage
<1>8. CASE pubPc'[p] = "rejected"
  <2>1. paidBy(p) = {}
    BY <1>4, <1>8 DEF RefinementInv, TraceByStage, TraceOf, paidBy
  <2>2. statusOfStage(pubPc'[p]) = "refused" BY <1>8 DEF statusOfStage
  <2>3. promised!Refuse(p)
    BY <1>3, <1>4, <1>5, <1>6, <1>7, <1>8, <2>1, <2>2, BarsOf
    DEF Bars, Moves, promised!Refuse
  <2> QED BY <2>3 DEF Simulated, promised!Next
<1>9. CASE pubPc'[p] = "dirty"
  <2>1. statusOfStage(pubPc'[p]) = "broken" BY <1>9 DEF statusOfStage
  <2>2. paidBar' = paidBar BY <1>5 DEF Moves, paidBar
  <2>3. promised!Break(p)
    BY <1>3, <1>5, <1>6, <1>7, <2>1, <2>2, BarsOf DEF Bars, Moves, promised!Break
  <2> QED BY <2>3 DEF Simulated, promised!Next
<1> QED BY <1>4, <1>8, <1>9

\* The forum, and a crash.
LEMMA PostSimulates ==
    ASSUME RefinementInv, NEW p \in Publishers, Moves(p),
           CreatePost(p) \/ UpdatePost(p) \/ LinkPost(p)
    PROVE  Simulated
<1> USE DEF RefinementInv, TypeInv, TypeOK, PubTypeOK, pubGoto, pubAt
<1>1. /\ pubPc[p] \in {"forum", "link"} /\ pubPc'[p] \in {"link", "done", "unposted"}
      /\ UNCHANGED <<pubItems, itemCurations, collectionCurations, cheques>>
  BY DEF CreatePost, UpdatePost, LinkPost, tables, pubLocals
<1>2. /\ dbItems(p)' = dbItems(p) /\ paidBy(p)' = paidBy(p)
      /\ curatedBy(p)' = curatedBy(p) /\ reviewableBar' = reviewableBar
  BY <1>1 DEF dbItems, paidBy, chequesOf, curatedBy, itemCurationsOf, reviewableBar,
     collectionCurationsOf
<1>3. statusOfStage(pubPc'[p]) = statusOfStage(pubPc[p]) BY <1>1 DEF statusOfStage
<1> QED BY <1>2, <1>3, Stutters DEF Simulated

LEMMA CrashSimulates ==
    ASSUME RefinementInv, NEW p \in Publishers, Moves(p), CrashPublish(p)
    PROVE  Simulated
<1> USE DEF RefinementInv, TypeInv, TypeOK, PubTypeOK, pubGoto, pubAt
<1>1. /\ pubPc[p] \notin PubFinal \cup {"idle"} /\ pubPc'[p] \in {"dirty", "crashed"}
      /\ UNCHANGED tables /\ UNCHANGED pubItems
  BY DEF CrashPublish, pubLocals
<1>2. dbItems(p)' = dbItems(p) BY <1>1 DEF dbItems
<1>3. /\ statusOfStage(pubPc[p]) \in {"open", "stored"}
      /\ statusOfStage(pubPc'[p]) = "broken"
  BY <1>1 DEF statusOfStage, PubFinal, PubStages
<1>4. paidBar' = paidBar BY <1>1, SameRows DEF Moves, paidBar
<1>5. promised!Break(p)
  BY <1>1, <1>2, <1>3, <1>4, SameRows, BarsOf DEF Bars, Moves, promised!Break
<1> QED BY <1>5 DEF Simulated, promised!Next

LEMMA PublishSimulates ==
    ASSUME RefinementInv, NEW p \in Publishers, Publish(p), UNCHANGED otherThanPub
    PROVE  Simulated
<1>1. /\ Moves(p)
      /\ \A q \in Publishers \ {p} : q \in reviewableBar' <=> q \in reviewableBar
  BY PublishMoves
<1>2. CASE StartPublish(p) \/ CheckSlots(p) \/ FindItems(p) \/ CheckPending(p)
  BY <1>1, <1>2, ChecksSimulate
<1>3. CASE CreateCheque(p)
  <2>1. BatchOf(p)'
    BY PublishBatch, PublishKeepsDeleted
    DEF RefinementInv, TraceByStage, LedgerByStage, BatchByStage, otherThanPub
  <2> QED BY <1>1, <1>3, <2>1, ChequeSimulates
<1>4. CASE CreateItemCuration(p) BY <1>1, <1>4, CurationSimulates
<1>5. CASE FinishItemCurations(p)
  <2>1. /\ pubPc[p] = "curations" /\ pubPc'[p] \in {"undoCheque", "collection"}
        /\ UNCHANGED tables /\ UNCHANGED pubItems
    BY <1>5 DEF FinishItemCurations, pubLocals, pubGoto, pubAt, RefinementInv, TypeInv,
       TypeOK, PubTypeOK
  <2>2. statusOfStage(pubPc'[p]) = statusOfStage(pubPc[p]) BY <2>1 DEF statusOfStage
  <2>3. dbItems(p)' = dbItems(p) BY <2>1 DEF dbItems
  <2> QED BY <1>1, <2>1, <2>2, <2>3, SameRows, Stutters DEF Simulated
<1>6. CASE CreateCollectionCuration(p) BY <1>1, <1>6, ReviewOpens
<1>7. CASE DeleteCheque(p) BY <1>1, <1>7, RefundSimulates
<1>8. CASE DeleteItemCurations(p) BY <1>1, <1>8, RollbackSimulates
<1>9. CASE CreatePost(p) \/ UpdatePost(p) \/ LinkPost(p) BY <1>1, <1>9, PostSimulates
<1>10. CASE CrashPublish(p) BY <1>1, <1>10, CrashSimulates
<1> QED
    BY <1>2, <1>3, <1>4, <1>5, <1>6, <1>7, <1>8, <1>9, <1>10 DEF Publish, PublishStep

-----------------------------------------------------------------------------
(* The steps of other requests, and the theorem.                           *)

LEMMA OthersSimulate ==
    ASSUME RefinementInv, [Next]_vars,
           ~ \E p \in Publishers : Publish(p) /\ UNCHANGED otherThanPub
    PROVE  Simulated
<1>1. \A q \in Publishers : KeepsRowsOf(q) /\ KeepsLocalsOf(q)
  BY OthersKeep DEF RefinementInv
<1>2. PICK gone \in SUBSET Items :
          /\ deletedBar' = deletedBar \cup gone
          /\ \A q \in Publishers : curatedBy(q)' = curatedBy(q) \ gone
  BY OthersOnlyDelete DEF RefinementInv, OnlyDeletes
<1>3. statusBar' = statusBar BY <1>1 DEF KeepsLocalsOf, statusBar
<1>4. \A q \in Publishers : dbItems(q)' = dbItems(q) /\ paidBy(q)' = paidBy(q)
  BY <1>1 DEF KeepsRowsOf, KeepsLocalsOf, dbItems, paidBy
<1>5. wantedBar' = wantedBar BY <1>4 DEF wantedBar
<1>6. paidBar' = paidBar BY <1>4 DEF paidBar
<1>7. curatedBar' = [q \in Publishers |-> curatedBar[q] \ gone]
  BY <1>2 DEF curatedBar
<1>8. reviewableBar' \subseteq reviewableBar
  BY <1>1 DEF KeepsRowsOf, reviewableBar
<1>9. promised!Delete BY <1>2, <1>3, <1>5, <1>6, <1>7, <1>8 DEF promised!Delete
<1> QED BY <1>9 DEF Simulated, promised!Next

LEMMA InitSimulates == Init => promised!Init
<1> SUFFICES ASSUME Init PROVE promised!Init OBVIOUS
<1>1. statusBar = [p \in Publishers |-> "open"]
  BY DEF Init, PubInit, statusBar, statusOfStage
<1>2. wantedBar = [p \in Publishers |-> {}]
  BY DEF Init, PubInit, wantedBar, dbItems, noItems
<1>3. curatedBar = [p \in Publishers |-> {}]
  BY DEF Init, TablesInit, curatedBar, curatedBy, itemCurationsOf
<1>4. paidBar = [p \in Publishers |-> {}]
  BY DEF Init, TablesInit, paidBar, paidBy, chequesOf
<1>5. reviewableBar = {} BY DEF Init, TablesInit, reviewableBar, collectionCurationsOf
<1>6. deletedBar = {} BY DEF Init, ItemsInit, deletedBar, DeletedItem
<1> QED BY <1>1, <1>2, <1>3, <1>4, <1>5, <1>6 DEF promised!Init

\* What a publication has stored of its batch, its rows and its locals agree at
\* every stage; deletes have a target of their kind, and curations an item: the
\* inductive invariant behind the refinement.
THEOREM RefinementInvariant == Spec => []RefinementInv
<1>1. Init => TargetsByStage /\ CuratedItemsExist /\ BatchByStage
  BY DEF Init, TablesInit, PubInit, ItemsInit, TargetsByStage, CuratedItemsExist,
     CuratedItems, BatchByStage, BatchOf, BeforeCheque
<1>2. RefinementInv /\ [Next]_vars => TargetsByStage' /\ CuratedItemsExist' /\ BatchByStage'
  BY TargetsStep, KeyStep, BatchStep DEF RefinementInv
<1> QED
  BY <1>1, <1>2, TypeInvariant, TraceInvariant, LedgerInvariant, PTL
  DEF Spec, RefinementInv

\* Every publication is stored as a whole, paid for and open to review, or is
\* refused without a trace, and only deletes touch it afterwards
\* (PublicationIsKept): each statement of publishTPCollection, each failure and
\* each step of another request is a step of Publication, or none.
THEOREM PublicationRefined == Spec => PublicationIsKept
<1>1. RefinementInv /\ [Next]_vars => [promised!Next]_promised!vars
  BY PublishSimulates, OthersSimulate DEF Simulated
<1> QED
  BY <1>1, InitSimulates, RefinementInvariant, PTL
  DEF Spec, PublicationIsKept, promised!Spec

-----------------------------------------------------------------------------
(* The reads.  What a query finds of the newest and of the first.          *)

LEMMA LeastNatural ==
    ASSUME NEW K \in SUBSET Nat, K # {}
    PROVE  \E m \in K : \A k \in K : m <= k
<1> DEFINE R == OpToRel(<, Nat)
<1>1. IsWellFoundedOn(R, Nat) BY NatLessThanWellFounded
<1>2. \A x, y \in Nat : x < y => <<x, y>> \in R BY DEF OpToRel
<1> HIDE DEF R
<1>3. PICK m \in K : \A k \in K : ~ (<<k, m>> \in R) BY <1>1, WFMin
<1>4. \A k \in K : ~ (k < m) BY <1>2, <1>3
<1> QED BY <1>4

LEMMA GreatestNatural ==
    ASSUME NEW K \in SUBSET Nat, K # {}, NEW n \in Nat, \A k \in K : k <= n
    PROVE  \E m \in K : \A k \in K : k <= m
<1> DEFINE L == {n - k : k \in K}
<1>1. \A k \in K : n - k \in Nat OBVIOUS
<1>2. L \in SUBSET Nat /\ L # {} BY <1>1
<1>3. PICK m \in L : \A l \in L : m <= l BY <1>2, LeastNatural
<1>4. PICK k \in K : m = n - k OBVIOUS
<1>5. ASSUME NEW j \in K PROVE j <= k
  <2>1. m <= n - j BY <1>3
  <2> QED BY <1>4, <2>1
<1> QED BY <1>4, <1>5

\* No date is ahead of the clock, and every row is of a request of its kind.
RowsDated ==
    /\ \A cur \in itemCurations :
           cur.by \in Publishers \cup Submitters /\ cur.created <= clock
    /\ \A cur \in collectionCurations : cur.created <= clock
    /\ \A cheque \in cheques : cheque.by \in Publishers
    /\ \A p \in Publishers : pubCreated[p] <= clock
    /\ \A s \in Submitters : sbCreated[s] <= clock

\* The items of a publication are of its collection, and once it is stored the
\* collection, unless it was deleted, has a curation of that publication.
ReviewableOf(p) ==
    /\ pubPc[p] \in {"curations", "collection"} =>
           \A i \in dbItems(p) : CollectionOf[i] = pubCall[p].collection
    /\ statusOfStage(pubPc[p]) = "stored" =>
           \A cur \in itemCurationsOf(p) : CollectionOf[cur.item] \in collections =>
               \E review \in collectionCurationsOf(p) :
                   review.collection = CollectionOf[cur.item]

ReadsInv ==
    RefinementInv /\ RowsDated /\ \A p \in Publishers : ReviewableOf(p)

-----------------------------------------------------------------------------
(* Dates and authors of the rows.                                          *)

\* Every row is as it was, but for status and hash, or new and dated by a clock
\* that was read.
RowsStayDated ==
    /\ clock <= clock'
    /\ \A new \in itemCurations' :
           \/ new.by \in Publishers \cup Submitters /\ new.created <= clock'
           \/ \E cur \in itemCurations : new.by = cur.by /\ new.created = cur.created
    /\ \A new \in collectionCurations' :
           \/ new.created <= clock'
           \/ \E cur \in collectionCurations : new.created = cur.created
    /\ \A new \in cheques' : new.by \in Publishers \/ new \in cheques
    /\ \A p \in Publishers : pubCreated'[p] <= clock' \/ pubCreated'[p] = pubCreated[p]
    /\ \A s \in Submitters : sbCreated'[s] <= clock' \/ sbCreated'[s] = sbCreated[s]

LEMMA StayDated == ASSUME TypeInv, TypeInv', RowsDated, RowsStayDated PROVE RowsDated'
<1>1. /\ clock \in Nat /\ clock' \in Nat
      /\ \A cur \in itemCurations : cur.created \in Nat
      /\ \A cur \in collectionCurations : cur.created \in Nat
      /\ \A p \in Publishers : pubCreated[p] \in Nat
      /\ \A s \in Submitters : sbCreated[s] \in Nat
  BY DEF TypeInv, TypeOK, TablesTypeOK, PubTypeOK, ReviewTypeOK, ItemCuration,
     CollectionCuration
<1> USE DEF RowsDated, RowsStayDated
<1>2. ASSUME NEW new \in itemCurations'
      PROVE  new.by \in Publishers \cup Submitters /\ new.created <= clock'
  <2>1. CASE \E cur \in itemCurations : new.by = cur.by /\ new.created = cur.created
    BY <1>1, <2>1
  <2> QED BY <1>2, <2>1
<1>3. ASSUME NEW new \in collectionCurations' PROVE new.created <= clock'
  <2>1. CASE \E cur \in collectionCurations : new.created = cur.created
    BY <1>1, <2>1
  <2> QED BY <1>3, <2>1
<1>4. \A p \in Publishers : pubCreated'[p] <= clock' BY <1>1
<1>5. \A s \in Submitters : sbCreated'[s] <= clock' BY <1>1
<1> QED BY <1>2, <1>3, <1>4, <1>5

LEMMA PublishStaysDated ==
    ASSUME TypeInv, RowsDated, NEW p \in Publishers, Publish(p), UNCHANGED otherThanPub
    PROVE  RowsStayDated
<1> USE DEF TypeInv, TypeOK, TablesTypeOK, PubTypeOK, RowsStayDated, RowsDated, pubLocals
<1>0. UNCHANGED sbCreated BY DEF otherThanPub, sbVars, sbLocals
<1>1. CASE UNCHANGED <<tables, clock>>
  <2>1. /\ UNCHANGED <<itemCurations, collectionCurations, cheques, clock>>
        /\ pubCreated' \in {pubCreated, [pubCreated EXCEPT ![p] = 0]}
    BY <1>1 DEF tables, Publish, PublishStep, StartPublish, CheckSlots, FindItems, CheckPending,
       CreateCheque, CreateItemCuration, FinishItemCurations, CreateCollectionCuration,
       DeleteCheque, DeleteItemCurations, CreatePost, UpdatePost, LinkPost, CrashPublish,
       pubReject, pubFail
  <2> QED BY <1>0, <2>1
<1>2. CASE CheckPending(p) /\ ~UNCHANGED clock
  BY <1>0, <1>2 DEF CheckPending, tables
<1>3. CASE CreateCheque(p) BY <1>0, <1>3 DEF CreateCheque
<1>4. CASE CreateItemCuration(p)
  <2>1. /\ \A new \in itemCurations' :
               new \in itemCurations \/ (new.by = p /\ new.created = pubCreated[p])
        /\ UNCHANGED <<collectionCurations, cheques, clock, pubCreated>>
    BY <1>4 DEF CreateItemCuration
  <2> QED BY <1>0, <2>1
<1>5. CASE CreateCollectionCuration(p)
  <2>1. /\ \A new \in collectionCurations' :
               new \in collectionCurations \/ new.created = pubCreated[p]
        /\ UNCHANGED <<itemCurations, cheques, clock, pubCreated>>
    BY <1>5 DEF CreateCollectionCuration
  <2> QED BY <1>0, <2>1
<1>6. CASE DeleteCheque(p) BY <1>0, <1>6 DEF DeleteCheque
<1>7. CASE DeleteItemCurations(p) BY <1>0, <1>7 DEF DeleteItemCurations, pubFail
<1>8. CASE LinkPost(p) BY <1>0, <1>8 DEF LinkPost
<1> QED
  BY <1>1, <1>2, <1>3, <1>4, <1>5, <1>6, <1>7, <1>8 DEF Publish, PublishStep, StartPublish,
     CheckSlots, FindItems, CheckPending, FinishItemCurations, CreatePost, UpdatePost, CrashPublish

LEMMA OthersStayDated ==
    ASSUME TypeInv, RowsDated, [Next]_vars,
           ~ \E p \in Publishers : Publish(p) /\ UNCHANGED otherThanPub
    PROVE  RowsStayDated
<1> USE DEF TypeInv, TypeOK, TablesTypeOK, PubTypeOK, ReviewTypeOK, RowsStayDated, RowsDated
<1>1. CASE /\ itemCurations' \subseteq itemCurations
           /\ collectionCurations' \subseteq collectionCurations
           /\ UNCHANGED <<cheques, clock, pubCreated, sbCreated>>
  BY <1>1
<1>2. CASE UNCHANGED vars
  BY <1>1, <1>2 DEF vars, tables, pubVars, pubLocals, sbVars, sbLocals
<1>3. CASE \E e \in Editors : EditAction(e) /\ UNCHANGED otherThanEd
  <2>1. PICK e \in Editors : EditAction(e) /\ UNCHANGED otherThanEd BY <1>3
  <2>2. UNCHANGED <<pubCreated, sbCreated>>
    BY <2>1 DEF otherThanEd, pubVars, pubLocals, sbVars, sbLocals
  <2>3. CASE SyncPendingCurations(e)
    <3>1. ASSUME NEW cur \in itemCurations
          PROVE  synced(e, cur).by = cur.by /\ synced(e, cur).created = cur.created
      <4>1. cur \in ItemCuration OBVIOUS
      <4> QED BY <4>1 DEF synced, ItemCuration
    <3>2. /\ itemCurations' = {synced(e, cur) : cur \in itemCurations}
          /\ UNCHANGED <<collectionCurations, cheques, clock>>
      BY <2>3 DEF SyncPendingCurations
    <3> QED BY <2>2, <3>1, <3>2
  <2>4. CASE UNCHANGED <<itemCurations, collectionCurations, cheques, clock>>
    BY <1>1, <2>2, <2>4
  <2> QED
    BY <2>1, <2>3, <2>4 DEF EditAction, EditStep, StartUpsert, UpsertItem, AbortUpsert, tables
<1>4. CASE \E d \in Removers : RemoveAction(d) /\ UNCHANGED otherThanRm
  BY <1>1, <1>4 DEF otherThanRm, pubVars, pubLocals, sbVars, sbLocals, RemoveAction, RemoveStep,
     StartDeleteItem, StartDeleteCollection, DeleteItem, DeleteCollection,
     DeleteItemsOfCollection, AbortDelete, tables, deleteItems, deleteCollection
<1>5. CASE \E v \in Reviewers : ReviewAction(v) /\ UNCHANGED otherThanRv
  <2>1. PICK v \in Reviewers : ReviewAction(v) /\ UNCHANGED otherThanRv BY <1>5
  <2>2. UNCHANGED <<pubCreated, sbCreated>>
    BY <2>1 DEF otherThanRv, pubVars, pubLocals, sbVars, sbLocals
  <2>3. CASE UpdateCuration(v)
    <3>1. ASSUME NEW cur \in itemCurations
          PROVE  decidedItem(v, cur).by = cur.by /\ decidedItem(v, cur).created = cur.created
      <4>1. cur \in ItemCuration OBVIOUS
      <4> QED BY <4>1 DEF decidedItem, ItemCuration
    <3>2. ASSUME NEW cur \in collectionCurations
          PROVE  decidedCollection(v, cur).created = cur.created
      <4>1. cur \in CollectionCuration OBVIOUS
      <4> QED BY <4>1 DEF decidedCollection, CollectionCuration
    <3>3. /\ itemCurations' = {decidedItem(v, cur) : cur \in itemCurations}
          /\ collectionCurations' = {decidedCollection(v, cur) : cur \in collectionCurations}
          /\ UNCHANGED <<cheques, clock>>
      BY <2>3 DEF UpdateCuration
    <3> QED BY <2>2, <3>1, <3>2, <3>3
  <2>4. CASE UNCHANGED <<itemCurations, collectionCurations, cheques, clock>>
    BY <1>1, <2>2, <2>4
  <2> QED
    BY <2>1, <2>3, <2>4 DEF ReviewAction, ReviewStep, StartReview, TouchCollectionCuration,
       ReadReviewedItem, tables
<1>6. CASE \E s \in Submitters : SubmitAction(s) /\ UNCHANGED otherThanSb
  <2>1. PICK s \in Submitters : SubmitAction(s) /\ UNCHANGED otherThanSb BY <1>6
  <2>2. UNCHANGED pubCreated BY <2>1 DEF otherThanSb, pubVars, pubLocals
  <2>3. CASE StartSubmit(s) BY <2>2, <2>3 DEF StartSubmit, tables
  <2>4. CASE ReadSubmittedItem(s) BY <2>2, <2>4 DEF ReadSubmittedItem, tables, sbEnd
  <2>5. CASE InsertCuration(s)
    <3>1. /\ \A new \in itemCurations' :
                 new \in itemCurations \/ (new.by = s /\ new.created = sbCreated[s])
          /\ \A new \in collectionCurations' :
                 new \in collectionCurations \/ new.created = sbCreated[s]
          /\ UNCHANGED <<cheques, clock>>
      BY <2>5 DEF InsertCuration
    <3>2. sbCreated' \in {sbCreated, [sbCreated EXCEPT ![s] = 0]}
      BY <2>5 DEF InsertCuration, sbEnd
    <3> QED BY <2>2, <3>1, <3>2
  <2> QED BY <2>1, <2>3, <2>4, <2>5 DEF SubmitAction, SubmitStep
<1> QED BY <1>2, <1>3, <1>4, <1>5, <1>6, NextActions

-----------------------------------------------------------------------------
(* The review of a stored publication.                                     *)

\* The collection curations of publication q are there as long as their
\* collections are, and no collection is new.
KeepsReviewsOf(q) ==
    /\ collections' \subseteq collections
    /\ \A review \in collectionCurationsOf(q) : review.collection \in collections' =>
           \E new \in collectionCurationsOf(q)' : new.collection = review.collection

LEMMA KeptReviewable ==
    ASSUME NEW q \in Publishers, ReviewableOf(q), KeepsRowsOf(q), KeepsLocalsOf(q),
           KeepsReviewsOf(q)
    PROVE  ReviewableOf(q)'
<1>1. dbItems(q)' = dbItems(q) BY DEF KeepsLocalsOf, dbItems
<1>2. statusOfStage(pubPc'[q]) = statusOfStage(pubPc[q]) BY DEF KeepsLocalsOf
<1> QED BY <1>1, <1>2 DEF ReviewableOf, KeepsRowsOf, KeepsLocalsOf, KeepsReviewsOf

LEMMA OthersKeepReviews ==
    ASSUME TypeInv, [Next]_vars, NEW q \in Publishers,
           ~ \E p \in Publishers : Publish(p) /\ UNCHANGED otherThanPub
    PROVE  KeepsReviewsOf(q)
<1> USE DEF KeepsReviewsOf, collectionCurationsOf
<1>1. CASE UNCHANGED <<collections, collectionCurations>> BY <1>1
<1>2. CASE UNCHANGED vars BY <1>1, <1>2 DEF vars, tables
<1>3. CASE \E e \in Editors : EditAction(e)
  BY <1>1, <1>3 DEF EditAction, EditStep, StartUpsert, UpsertItem, SyncPendingCurations,
     AbortUpsert, tables
<1>4. CASE \E d \in Removers : RemoveAction(d)
  <2>1. CASE \E c : /\ collections' = collections \ {c}
                    /\ collectionCurations' =
                           {review \in collectionCurations : review.collection # c}
    BY <2>1
  <2> QED
    BY <1>1, <1>4, <2>1 DEF RemoveAction, RemoveStep, StartDeleteItem, StartDeleteCollection,
       DeleteItem, DeleteCollection, DeleteItemsOfCollection, AbortDelete, tables,
       deleteItems, deleteCollection
<1>5. CASE \E v \in Reviewers : ReviewAction(v)
  <2>1. PICK v \in Reviewers : ReviewAction(v) BY <1>5
  <2>2. CASE UpdateCuration(v)
    <3>1. ASSUME NEW review \in collectionCurations
          PROVE  /\ decidedCollection(v, review).by = review.by
                 /\ decidedCollection(v, review).collection = review.collection
      <4>1. review \in CollectionCuration BY DEF TypeInv, TypeOK, TablesTypeOK
      <4> QED BY <4>1 DEF decidedCollection, CollectionCuration
    <3>2. /\ collectionCurations' = {decidedCollection(v, cur) : cur \in collectionCurations}
          /\ UNCHANGED collections
      BY <2>2 DEF UpdateCuration
    <3> QED BY <3>1, <3>2
  <2> QED
    BY <1>1, <2>1, <2>2 DEF ReviewAction, ReviewStep, StartReview, TouchCollectionCuration,
       ReadReviewedItem, tables
<1>6. CASE \E s \in Submitters : SubmitAction(s)
  <2>1. collections' = collections /\ collectionCurations \subseteq collectionCurations'
    BY <1>6 DEF SubmitAction, SubmitStep, StartSubmit, ReadSubmittedItem, InsertCuration, tables
  <2> QED BY <2>1
<1> QED BY <1>2, <1>3, <1>4, <1>5, <1>6, NextActions

LEMMA PublishKeepsCollections ==
    ASSUME NEW p \in Publishers, Publish(p)
    PROVE  collections' = collections
BY DEF Publish, PublishStep, StartPublish, CheckSlots, FindItems, CheckPending, CreateCheque,
   CreateItemCuration, FinishItemCurations, CreateCollectionCuration, DeleteCheque,
   DeleteItemCurations, CreatePost, UpdatePost, LinkPost, CrashPublish, tables

LEMMA PublishReviewable ==
    ASSUME TypeInv, NEW p \in Publishers, LedgerOf(p), ReviewableOf(p), Publish(p)
    PROVE  ReviewableOf(p)'
<1> USE DEF TypeInv, TypeOK, PubTypeOK, pubGoto, pubAt
<1>1. CASE /\ pubPc'[p] \notin {"curations", "collection"}
           /\ statusOfStage(pubPc'[p]) # "stored"
  BY <1>1 DEF ReviewableOf
<1>2. CASE CreateCheque(p)
  <2>1. pubPc'[p] \in {"curations", "undoCurations"} /\ UNCHANGED <<pubItems, pubCall>>
    BY <1>2 DEF CreateCheque
  <2>2. dbItems(p)' = dbItems(p) BY <2>1 DEF dbItems
  <2>3. \A i \in dbItems(p) : CollectionOf[i] = pubCall[p].collection
    BY <1>2 DEF CreateCheque, LedgerOf
  <2>4. statusOfStage(pubPc'[p]) # "stored" BY <2>1 DEF statusOfStage
  <2> QED BY <2>1, <2>2, <2>3, <2>4 DEF ReviewableOf
<1>3. CASE CreateItemCuration(p) \/ FinishItemCurations(p)
  <2>1. /\ pubPc[p] = "curations" /\ pubPc'[p] \in {"curations", "collection", "undoCheque"}
        /\ UNCHANGED <<pubItems, pubCall>>
    BY <1>3 DEF CreateItemCuration, FinishItemCurations, pubLocals
  <2>2. dbItems(p)' = dbItems(p) BY <2>1 DEF dbItems
  <2>3. statusOfStage(pubPc'[p]) # "stored" BY <2>1 DEF statusOfStage
  <2> QED BY <2>1, <2>2, <2>3 DEF ReviewableOf
<1>4. CASE CreateCollectionCuration(p)
  <2>1. CASE pubPc'[p] = "undoCheque" BY <1>1, <2>1 DEF statusOfStage
  <2>2. CASE pubPc'[p] # "undoCheque"
    <3> DEFINE new == [by |-> p, collection |-> pubCall[p].collection,
                       status |-> "pending", created |-> pubCreated[p]]
    <3>1. /\ pubPc[p] = "collection" /\ pubPc'[p] = "forum"
          /\ new \in collectionCurations'
          /\ UNCHANGED <<itemCurations, pubItems, pubCall>>
      BY <1>4, <2>2 DEF CreateCollectionCuration, pubLocals
    <3>2. new.by = p /\ new.collection = pubCall[p].collection OBVIOUS
    <3> HIDE DEF new
    <3>3. new \in collectionCurationsOf(p)' BY <3>1, <3>2 DEF collectionCurationsOf
    <3>4. \A cur \in itemCurationsOf(p) : cur.item \in dbItems(p)
      BY <3>1 DEF LedgerOf
    <3>5. \A cur \in itemCurationsOf(p)' : CollectionOf[cur.item] = new.collection
      BY <3>1, <3>2, <3>4 DEF ReviewableOf, itemCurationsOf
    <3> QED BY <3>1, <3>3, <3>5 DEF ReviewableOf
  <2> QED BY <2>1, <2>2
<1>5. CASE CreatePost(p) \/ UpdatePost(p) \/ LinkPost(p)
  <2>1. /\ pubPc[p] \in {"forum", "link"} /\ pubPc'[p] \in {"link", "done", "unposted"}
        /\ UNCHANGED <<collections, itemCurations, collectionCurations>>
    BY <1>5 DEF CreatePost, UpdatePost, LinkPost, tables
  <2>2. statusOfStage(pubPc[p]) = "stored" BY <2>1 DEF statusOfStage
  <2> QED
    BY <2>1, <2>2 DEF ReviewableOf, itemCurationsOf, collectionCurationsOf
<1>6. CASE pubPc'[p] \in PubStages \
            {"curations", "collection", "forum", "link", "done", "unposted"}
  BY <1>1, <1>6 DEF statusOfStage
<1>7. CASE StartPublish(p) \/ CheckSlots(p) \/ FindItems(p) \/ CheckPending(p)
  BY <1>6, <1>7 DEF StartPublish, CheckSlots, FindItems, CheckPending, pubReject, pubFail,
     PubStages, PubFinal
<1>8. CASE DeleteCheque(p) \/ DeleteItemCurations(p) \/ CrashPublish(p)
  BY <1>6, <1>8 DEF DeleteCheque, DeleteItemCurations, CrashPublish, pubFail,
     PubStages, PubFinal
<1> QED BY <1>2, <1>3, <1>4, <1>5, <1>7, <1>8 DEF Publish, PublishStep

LEMMA ReviewableStep ==
    ASSUME ReadsInv, [Next]_vars
    PROVE  \A q \in Publishers : ReviewableOf(q)'
<1> SUFFICES ASSUME NEW q \in Publishers PROVE ReviewableOf(q)' OBVIOUS
<1> USE DEF ReadsInv, RefinementInv
<1>1. ReviewableOf(q) OBVIOUS
<1>2. CASE ~ \E p \in Publishers : Publish(p) /\ UNCHANGED otherThanPub
  BY <1>1, <1>2, OthersKeep, OthersKeepReviews, KeptReviewable
<1>3. CASE \E p \in Publishers : Publish(p)
  <2>1. PICK p \in Publishers : Publish(p) BY <1>3
  <2>2. CASE p = q BY <1>1, <2>1, <2>2, PublishReviewable DEF LedgerByStage
  <2>3. CASE p # q
    <3>1. KeepsReviewsOf(q)
      BY <2>1, <2>3, PublishKeepsOthers, PublishKeepsCollections DEF KeepsReviewsOf
    <3> QED BY <1>1, <2>1, <2>3, <3>1, PublishKeepsOthers, KeptReviewable
  <2> QED BY <2>2, <2>3
<1> QED BY <1>2, <1>3

\* The dates of the rows, who wrote them and the review of what is stored: the
\* inductive invariant behind what the reads agree on.
THEOREM ReadsInvariant == Spec => []ReadsInv
<1>1. Init => RowsDated
  BY DEF Init, TablesInit, PubInit, ReviewInit, RowsDated
<1>2. Init => \A p \in Publishers : ReviewableOf(p)
  BY DEF Init, TablesInit, PubInit, ReviewableOf, statusOfStage
<1>3. RefinementInv /\ RefinementInv' /\ RowsDated /\ [Next]_vars => RowsDated'
  <2> SUFFICES ASSUME RefinementInv, RefinementInv', RowsDated, [Next]_vars PROVE RowsDated'
    OBVIOUS
  <2>1. RowsStayDated BY PublishStaysDated, OthersStayDated DEF RefinementInv
  <2> QED BY <2>1, StayDated DEF RefinementInv
<1>4. ReadsInv /\ [Next]_vars => \A p \in Publishers : ReviewableOf(p)'
  BY ReviewableStep
<1> DEFINE Rest == RowsDated /\ \A p \in Publishers : ReviewableOf(p)
<1>5. Init => Rest BY <1>1, <1>2
<1>6. RefinementInv /\ RefinementInv' /\ Rest /\ [Next]_vars => Rest'
  BY <1>3, <1>4 DEF ReadsInv
<1>7. RefinementInv /\ Rest => ReadsInv BY DEF ReadsInv
<1> HIDE DEF Rest
<1> QED BY <1>5, <1>6, <1>7, RefinementInvariant, PTL DEF Spec

-----------------------------------------------------------------------------
(* What the queries return.                                                *)

\* The listing of the curations of a collection has one of every item of it
\* that is under review, and only of those.
LEMMA LatestFound ==
    ASSUME ReadsInv, NEW i \in Items
    PROVE  existsByItemId(i) <=> latestItemCurations(i) # {}
<1> DEFINE dates == {cur.created : cur \in {cur \in itemCurations : cur.item = i}}
<1>1. /\ clock \in Nat
      /\ \A cur \in itemCurations : cur.created \in Nat /\ cur.created <= clock
  BY DEF ReadsInv, RefinementInv, TypeInv, TypeOK, TablesTypeOK, ItemCuration, RowsDated
<1>2. ASSUME existsByItemId(i) PROVE latestItemCurations(i) # {}
  <2>1. dates \in SUBSET Nat /\ dates # {} /\ \A date \in dates : date <= clock
    BY <1>1, <1>2 DEF existsByItemId, CuratedItems
  <2>2. PICK last \in dates : \A date \in dates : date <= last
    BY <1>1, <2>1, GreatestNatural
  <2>3. PICK cur \in itemCurations : cur.item = i /\ cur.created = last OBVIOUS
  <2>4. cur \in latestItemCurations(i) BY <2>2, <2>3 DEF latestItemCurations
  <2> QED BY <2>4
<1> QED BY <1>2 DEF latestItemCurations, existsByItemId, CuratedItems

LEMMA LatestReviewFound ==
    ASSUME ReadsInv, NEW review \in collectionCurations
    PROVE  latestCollectionCurations(review.collection) # {}
<1> DEFINE dates == {cur.created : cur \in {cur \in collectionCurations :
                                                cur.collection = review.collection}}
<1>1. /\ clock \in Nat
      /\ \A cur \in collectionCurations : cur.created \in Nat /\ cur.created <= clock
  BY DEF ReadsInv, RefinementInv, TypeInv, TypeOK, TablesTypeOK, CollectionCuration, RowsDated
<1>2. dates \in SUBSET Nat /\ dates # {} /\ \A date \in dates : date <= clock
  BY <1>1
<1>3. PICK last \in dates : \A date \in dates : date <= last
  BY <1>1, <1>2, GreatestNatural
<1>4. PICK cur \in collectionCurations :
          cur.collection = review.collection /\ cur.created = last
  OBVIOUS
<1>5. cur \in latestCollectionCurations(review.collection)
  BY <1>3, <1>4 DEF latestCollectionCurations
<1> QED BY <1>5

LEMMA ChequeFound ==
    ASSUME ReadsInv, NEW cheque \in cheques
    PROVE  findLastChequeByCollectionId(cheque.collection) # {}
<1> DEFINE dates == {pubCreated[other.by] : other \in {other \in cheques :
                                                other.collection = cheque.collection}}
<1>1. /\ clock \in Nat
      /\ \A other \in cheques : pubCreated[other.by] \in Nat /\ pubCreated[other.by] <= clock
  BY DEF ReadsInv, RefinementInv, TypeInv, TypeOK, TablesTypeOK, PubTypeOK, RowsDated
<1>2. dates \in SUBSET Nat /\ dates # {} /\ \A date \in dates : date <= clock
  BY <1>1
<1>3. PICK last \in dates : \A date \in dates : date <= last
  BY <1>1, <1>2, GreatestNatural
<1>4. PICK other \in cheques :
          other.collection = cheque.collection /\ pubCreated[other.by] = last
  OBVIOUS
<1>5. other \in findLastChequeByCollectionId(cheque.collection)
  BY <1>3, <1>4 DEF findLastChequeByCollectionId
<1> QED BY <1>5

LEMMA CurationsListed ==
    ASSUME ReadsInv, NEW c \in Collections, NEW i \in itemsOf(c)
    PROVE  /\ indexed(findByCollectionId(c), i) # {} <=> existsByItemId(i)
           /\ indexed(itemCurations, i) # {} <=> existsByItemId(i)
<1>1. i \in Items
  BY DEF itemsOf, ReadsInv, RefinementInv, TypeInv, TypeOK, TablesTypeOK
<1>2. indexed(findByCollectionId(c), i) = latestItemCurations(i)
  BY DEF indexed, findByCollectionId, latestItemCurations
<1>3. indexed(itemCurations, i) # {} <=> existsByItemId(i)
  BY DEF indexed, existsByItemId, CuratedItems
<1> QED BY <1>1, <1>2, <1>3, LatestFound

\* A collection with an item under review is merged with a curation, and no
\* other one is.
LEMMA LastFound ==
    ASSUME ReadsInv, NEW c \in Collections
    PROVE  /\ existsByCollectionId(c) <=> findLastByCollectionId(c) # {}
           /\ existsByCollectionId(c) <=> approvedItems(c) # {}
<1>1. /\ itemCurations \subseteq ItemCuration /\ items \subseteq Items
      /\ CuratedItems \subseteq items
  BY DEF ReadsInv, RefinementInv, TypeInv, TypeOK, TablesTypeOK, CuratedItemsExist
<1>2. \A cur \in findByCollectionId(c) :
          cur \in itemCurations /\ cur.item \in Items /\ CollectionOf[cur.item] = c
  BY <1>1 DEF findByCollectionId, latestItemCurations, itemsOf
<1>3. existsByCollectionId(c) <=> approvedItems(c) # {}
  BY <1>1 DEF existsByCollectionId, approvedItems, existsByItemId, CuratedItems, itemsOf
<1>4. ASSUME existsByCollectionId(c) PROVE findLastByCollectionId(c) # {}
  <2> DEFINE ranks == {idRank[cur.item] : cur \in findByCollectionId(c)}
  <2>1. PICK i \in itemsOf(c) : existsByItemId(i) BY <1>3, <1>4 DEF approvedItems
  <2>2. latestItemCurations(i) # {} BY <1>1, <2>1, LatestFound DEF itemsOf
  <2>3. findByCollectionId(c) # {} BY <2>2 DEF findByCollectionId
  <2>4. ranks \in SUBSET Nat /\ ranks # {} BY <1>2, <2>3, IdRankAssumption
  <2>5. PICK first \in ranks : \A rank \in ranks : first <= rank BY <2>4, LeastNatural
  <2>6. PICK cur \in findByCollectionId(c) : idRank[cur.item] = first OBVIOUS
  <2>7. cur \in findLastByCollectionId(c) BY <2>5, <2>6 DEF findLastByCollectionId
  <2> QED BY <2>7
<1>5. ASSUME findLastByCollectionId(c) # {} PROVE existsByCollectionId(c)
  BY <1>2, <1>5 DEF findLastByCollectionId, existsByCollectionId
<1> QED BY <1>3, <1>4, <1>5

\* A collection reads as published, to whomever, when an item of it is under
\* review.
LEMMA PublishedWhenCurated ==
    ASSUME ReadsInv, NEW c \in collections
    PROVE  /\ getTPCollection(c).id = c
           /\ getTPCollection(c).is_published <=> existsByCollectionId(c)
           /\ isOk(getCollection(visitor, c)) <=> existsByCollectionId(c)
           /\ ~ canSeeCollection(visitor, getTPCollection(c))
<1>0. c \in Collections
  BY DEF ReadsInv, RefinementInv, TypeInv, TypeOK, TablesTypeOK
<1>1. getTPCollection(c).id = c
      /\ (getTPCollection(c).is_published <=> findLastByCollectionId(c) # {})
  BY DEF getTPCollection, mergedWith, mergeTPCollection, collectionRow
<1>2. ~ canSeeCollection(visitor, getTPCollection(c))
  BY DEF canSeeCollection, isMinter, hasAccess, isManager, visitor
<1>3. hasPublicAccess(visitor, getTPCollection(c)) <=> getTPCollection(c).is_published
  BY DEF hasPublicAccess, hasAccess, isManager, visitor
<1>4. isOk(getCollection(visitor, c)) <=> hasPublicAccess(visitor, getTPCollection(c))
  BY DEF getCollection, isOk, ok, failed
<1> QED BY <1>0, <1>1, <1>2, <1>3, <1>4, LastFound

\* The body of an item reads the same from any curations that have one of it
\* just when it is under review.
LEMMA SameBody ==
    ASSUME NEW i, NEW deployed, NEW found, NEW others,
           i \in deployed \/ (found # {} <=> others # {})
    PROVE  mergeTPItem(i, deployed, found) = mergeTPItem(i, deployed, others)
BY DEF mergeTPItem

LEMMA BodyOf ==
    ASSUME NEW i, NEW deployed, NEW found
    PROVE  /\ mergeTPItem(i, deployed, found).id = i
           /\ mergeTPItem(i, deployed, found).is_published <=> i \in deployed \/ found # {}
BY DEF mergeTPItem, toFullItem

\* What the pages of a collection show.
LEMMA CollectionItems ==
    ASSUME ReadsInv, NEW c \in collections, NEW deployed, NEW onlyPublished \in BOOLEAN
    PROVE  LET read == itemsOfCollection(c, "any", "any", onlyPublished, deployed)
           IN  /\ read.collection = getTPCollection(c)
               /\ read.items =
                      {mergeTPItem(i, deployed, indexed(findByCollectionId(c), i)) :
                          i \in {i \in itemsOf(c) : onlyPublished => existsByItemId(i)}}
<1> DEFINE wanted == {i \in itemsOf(c) : onlyPublished => existsByItemId(i)}
<1>1. selectByCollectionIds({c}, statusOf("any"), "any", onlyPublished) = wanted
  BY DEF selectByCollectionIds, statusOf, isSelected, itemsOf
<1>2. \A i \in wanted : CollectionOf[i] \in {c} BY DEF itemsOf
<1> HIDE DEF wanted
<1>3. consolidateTPItems(wanted, findByCollectionId(c), {c}, deployed).body =
          {mergeTPItem(i, deployed, indexed(findByCollectionId(c), i)) : i \in wanted}
  BY <1>2 DEF consolidateTPItems, ok
<1>4. itemsOfCollection(c, "any", "any", onlyPublished, deployed) =
          [collection |-> getTPCollection(c),
           items |-> consolidateTPItems(wanted, findByCollectionId(c), {c}, deployed).body]
  BY <1>1 DEF itemsOfCollection, getTPCollectionItems, getTPCollection
<1>5. /\ itemsOfCollection(c, "any", "any", onlyPublished, deployed).collection =
             getTPCollection(c)
      /\ itemsOfCollection(c, "any", "any", onlyPublished, deployed).items =
             {mergeTPItem(i, deployed, indexed(findByCollectionId(c), i)) : i \in wanted}
  BY <1>3, <1>4
<1> QED BY <1>5 DEF wanted

LEMMA ReviewerReads ==
    ASSUME ReadsInv, NEW c \in collections, NEW deployed
    PROVE  /\ getCollectionItems(reviewer, c, "any", "any", deployed).body =
                  itemsOfCollection(c, "any", "any", FALSE, deployed)
           /\ getCollection(reviewer, c).body.collection = getTPCollection(c)
<1>1. \A collection : /\ hasPublicAccess(reviewer, collection)
                      /\ canSeeCollection(reviewer, collection)
  BY DEF hasPublicAccess, canSeeCollection, hasAccess, reviewer
<1> QED BY <1>1 DEF getCollectionItems, getCollection, detail, ok

LEMMA VisitorReads ==
    ASSUME ReadsInv, NEW c \in collections, NEW deployed
    PROVE  LET public == getCollectionItems(visitor, c, "any", "any", deployed)
           IN  /\ isOk(public) <=> isOk(getCollection(visitor, c))
               /\ isOk(public) =>
                      public.body = itemsOfCollection(c, "any", "any", TRUE, deployed)
<1>1. \A collection : hasPublicAccess(visitor, collection) <=> collection.is_published
  BY DEF hasPublicAccess, hasAccess, isManager, visitor
<1>2. itemsOfCollection(c, "any", "any", FALSE, deployed).collection = getTPCollection(c)
  BY CollectionItems
<1>3. "admin" \notin visitor BY DEF visitor
<1> QED
  BY <1>1, <1>2, <1>3, PublishedWhenCurated
  DEF getCollectionItems, getCollection, isOk, ok, failed

LEMMA ReadsAgreeOn ==
    ASSUME ReadsInv, NEW c \in collections, existsByCollectionId(c),
           NEW deployed \in SUBSET CuratedItems
    PROVE  LET list == getCollectionItems(reviewer, c, "any", "any", deployed).body
               public == getCollectionItems(visitor, c, "any", "any", deployed)
               committee == getItems(reviewer, deployed)
           IN  /\ list.collection = getCollection(reviewer, c).body.collection
               /\ isOk(public) <=> isOk(getCollection(visitor, c))
               /\ isOk(public) =>
                      public.body.items = {item \in list.items : item.is_published}
               /\ isOk(committee) => list.items \subseteq committee.body
               /\ list.items \subseteq getAddressItems({"manager"}, deployed).body
               /\ \A item \in list.items :
                      item.is_published => getItem(visitor, item.id, deployed).body.item = item
<1> DEFINE list == getCollectionItems(reviewer, c, "any", "any", deployed).body
           public == getCollectionItems(visitor, c, "any", "any", deployed)
           committee == getItems(reviewer, deployed)
           managed == getAddressItems({"manager"}, deployed)
           body(i) == mergeTPItem(i, deployed, indexed(findByCollectionId(c), i))
<1>0. /\ c \in Collections /\ items \subseteq Items /\ collections \subseteq Collections
      /\ itemsOf(c) \subseteq items /\ \A i \in itemsOf(c) : CollectionOf[i] = c
      /\ \A i \in deployed : existsByItemId(i)
  BY DEF ReadsInv, RefinementInv, TypeInv, TypeOK, TablesTypeOK, itemsOf, existsByItemId
<1>1. list.collection = getTPCollection(c) /\ list.items = {body(i) : i \in itemsOf(c)}
  <2> DEFINE read == itemsOfCollection(c, "any", "any", FALSE, deployed)
             wanted == {i \in itemsOf(c) : FALSE => existsByItemId(i)}
  <2>1. list = read BY ReviewerReads
  <2>2. read.collection = getTPCollection(c) /\ read.items = {body(i) : i \in wanted}
    BY CollectionItems, Zenon
  <2>3. wanted = itemsOf(c) OBVIOUS
  <2> HIDE DEF read, wanted, list, body
  <2> QED BY <2>1, <2>2, <2>3
<1>2. \A i \in itemsOf(c) : /\ body(i).id = i
                            /\ body(i).is_published <=> existsByItemId(i)
                            /\ body(i) = mergeTPItem(i, deployed, indexed(itemCurations, i))
  BY <1>0, BodyOf, SameBody, CurationsListed
<1>3. list.collection = getCollection(reviewer, c).body.collection
  BY <1>1, ReviewerReads
<1>4. isOk(public) <=> isOk(getCollection(visitor, c)) BY VisitorReads
<1>5. ASSUME isOk(public) PROVE public.body.items = {item \in list.items : item.is_published}
  <2> DEFINE read == itemsOfCollection(c, "any", "any", TRUE, deployed)
             wanted == {i \in itemsOf(c) : TRUE => existsByItemId(i)}
  <2>1. public.body = read BY <1>5, VisitorReads, Zenon
  <2>2. read.items = {body(i) : i \in wanted} BY CollectionItems, Zenon
  <2>3. \A i : i \in wanted <=> i \in itemsOf(c) /\ existsByItemId(i) OBVIOUS
  <2> HIDE DEF read, wanted, body, public, list
  <2> QED BY <1>1, <1>2, <2>1, <2>2, <2>3
<1>6. ASSUME isOk(committee) PROVE list.items \subseteq committee.body
  <2>1. committee = consolidateTPItems(items, itemCurations, collections, deployed)
    BY DEF getItems, reviewer
  <2>2. committee.body = {mergeTPItem(i, deployed, indexed(itemCurations, i)) : i \in items}
    BY <1>6, <2>1 DEF consolidateTPItems, isOk, ok, failed
  <2> HIDE DEF body, committee, list
  <2> QED BY <1>0, <1>1, <1>2, <2>2
<1>7. list.items \subseteq managed.body
  <2> DEFINE wanted == findItemsByAddress(Collections)
  <2>1. managed = consolidateTPItems(wanted, itemCurations, collections, deployed)
    BY DEF getAddressItems
  <2>2. /\ \A i \in wanted : CollectionOf[i] \in collections
        /\ itemsOf(c) \subseteq wanted
    BY <1>0 DEF findItemsByAddress
  <2> HIDE DEF wanted
  <2>3. managed.body = {mergeTPItem(i, deployed, indexed(itemCurations, i)) : i \in wanted}
    BY <2>1, <2>2 DEF consolidateTPItems, ok
  <2> HIDE DEF body, managed, list
  <2> QED BY <1>1, <1>2, <2>2, <2>3
<1>8. ASSUME NEW i \in itemsOf(c), body(i).is_published
      PROVE  getItem(visitor, body(i).id, deployed).body.item = body(i)
  <2> DEFINE alone == mergeTPItem(i, deployed, findLastByCollectionId(c))
  <2>1. findLastByCollectionId(c) # {} BY <1>0, LastFound
  <2>2. indexed(findByCollectionId(c), i) # {} BY <1>0, <1>2, <1>8, CurationsListed
  <2>3. alone = body(i) BY <2>1, <2>2, SameBody
  <2>4. getTPItem(i, deployed).item = alone BY <1>0 DEF getTPItem
  <2>5. alone.is_published BY <2>3, <1>8
  <2> HIDE DEF alone, body
  <2>6. hasPublicItemAccess(visitor, getTPItem(i, deployed).item,
                            getTPItem(i, deployed).found)
    BY <2>4, <2>5 DEF hasPublicItemAccess
  <2>7. getItem(visitor, i, deployed).body.item = alone
    BY <1>0, <1>8, <2>4, <2>6 DEF getItem, ok
  <2>8. body(i).id = i BY <1>2
  <2> QED BY <2>3, <2>7, <2>8
<1>9. \A item \in list.items :
          item.is_published => getItem(visitor, item.id, deployed).body.item = item
  <2> HIDE DEF body, list
  <2> QED BY <1>1, <1>8
<1> QED BY <1>3, <1>4, <1>5, <1>6, <1>7, <1>9

\* However an item of a collection with curations is read, the answers agree
\* (ReadsAgree), in every state the requests can bring the tables to and for any
\* number of them: the five handlers merge an item with the curations of its own
\* collection, of all, or with the first one found, and the index of curations
\* never tells another item's.
THEOREM ReadersAgree == Spec => []ReadsAgree
<1>1. ReadsInv => ReadsAgree
  <2> SUFFICES ASSUME ReadsInv, NEW c \in {c \in collections : existsByCollectionId(c)},
                      NEW deployed \in {{i} : i \in CuratedItems}
               PROVE  LET list == getCollectionItems(reviewer, c, "any", "any", deployed).body
                          public == getCollectionItems(visitor, c, "any", "any", deployed)
                          committee == getItems(reviewer, deployed)
                      IN  /\ list.collection = getCollection(reviewer, c).body.collection
                          /\ isOk(public) <=> isOk(getCollection(visitor, c))
                          /\ isOk(public) =>
                                 public.body.items = {item \in list.items : item.is_published}
                          /\ isOk(committee) => list.items \subseteq committee.body
                          /\ list.items \subseteq getAddressItems({"manager"}, deployed).body
                          /\ \A item \in list.items :
                                 item.is_published =>
                                     getItem(visitor, item.id, deployed).body.item = item
    BY DEF ReadsAgree
  <2>1. deployed \in SUBSET CuratedItems OBVIOUS
  <2>2. c \in collections /\ existsByCollectionId(c) OBVIOUS
  <2> QED BY <2>1, <2>2, ReadsAgreeOn
<1> QED BY <1>1, ReadsInvariant, PTL

-----------------------------------------------------------------------------
(* What is published where.  A review request that is served together with *)
(* the rollback of the publication of its item may outlive it: there are   *)
(* no review requests here, or requests are served one at a time.          *)

\* A review request was made for an item that a publication of it, which is
\* over, has under review.
PublishedFirst ==
    \A cur \in itemCurations :
        \/ cur.by \in Publishers
        \/ \E first \in itemCurations :
               /\ first.item = cur.item /\ first.by \in Publishers
               /\ pubPc[first.by] \in {"done", "unposted", "dirty", "crashed"}

\* A step that leaves publications, and who wrote which row, alone.
LEMMA KeptFirst ==
    ASSUME PublishedFirst, pubPc' = pubPc,
           \A new \in itemCurations' :
               \E cur \in itemCurations : cur.by = new.by /\ cur.item = new.item,
           \A cur \in itemCurations, new \in itemCurations' : cur.item = new.item =>
               \E kept \in itemCurations' : kept.by = cur.by /\ kept.item = cur.item
    PROVE  PublishedFirst'
BY DEF PublishedFirst

LEMMA PublishFirst ==
    ASSUME TypeInv, PublishedFirst, NEW p \in Publishers, Publish(p)
    PROVE  PublishedFirst'
<1>1. \A q \in Publishers \ {p} : pubPc'[q] = pubPc[q]
  BY PublishKeepsOthers DEF KeepsLocalsOf
<1>2. pubPc[p] \notin {"done", "unposted", "dirty", "crashed"}
  BY DEF Publish, PublishStep, StartPublish, CheckSlots, FindItems, CheckPending,
     CreateCheque, CreateItemCuration, FinishItemCurations, CreateCollectionCuration,
     DeleteCheque, DeleteItemCurations, CreatePost, UpdatePost, LinkPost, CrashPublish,
     PubFinal, pubAt
<1>3. /\ \A new \in itemCurations' : new.by = p \/ new \in itemCurations
      /\ \A cur \in itemCurations : cur.by = p \/ cur \in itemCurations'
  BY PublishWrites DEF CreateItemCuration, curationsOfIds
<1> QED BY <1>1, <1>2, <1>3 DEF PublishedFirst

LEMMA SubmitFirst ==
    ASSUME TypeInv, TraceByStage, SerialInv, RowsDated, PublishedFirst,
           NEW s \in Submitters, SubmitAction(s), UNCHANGED otherThanSb, OnlySubmitter(s)
    PROVE  PublishedFirst'
<1>1. pubPc' = pubPc BY DEF otherThanSb, pubVars
<1>2. CASE itemCurations' = itemCurations
  BY <1>1, <1>2 DEF PublishedFirst
<1>3. CASE itemCurations' # itemCurations
  <2>1. /\ sbPc[s] = "insert" /\ sbTarget[s] \in items
        /\ itemCurations \subseteq itemCurations'
        /\ \A new \in itemCurations' : new \in itemCurations \/ new.item = sbTarget[s]
    BY <1>3 DEF SubmitAction, SubmitStep, StartSubmit, ReadSubmittedItem, InsertCuration, tables
  <2>2. SubmitterHolds(s) /\ sbTarget[s] \in Items
    BY <2>1 DEF SerialInv, SubmittersInFlight, TypeInv, TypeOK, TablesTypeOK
  <2>3. PICK cur \in itemCurations : cur.item = sbTarget[s]
    BY <2>2 DEF SubmitterHolds
  <2>4. PICK first \in itemCurations :
            /\ first.item = sbTarget[s] /\ first.by \in Publishers
            /\ pubPc[first.by] \in {"done", "unposted", "dirty", "crashed"}
    <3>1. CASE cur.by \in Publishers
      <4>1. cur \in itemCurationsOf(cur.by) BY DEF itemCurationsOf
      <4>2. pubPc[cur.by] \notin {"idle", "rejected"}
        BY <3>1, <4>1 DEF TraceByStage, TraceOf, BeforeCheque
      <4>3. pubPc[cur.by] \in PubFinal \cup {"idle"}
        BY <3>1 DEF OnlySubmitter, PublishersInFlight
      <4> QED BY <2>3, <3>1, <4>2, <4>3 DEF PubFinal
    <3>2. CASE cur.by \notin Publishers
      BY <2>3, <3>2 DEF PublishedFirst
    <3> QED BY <3>1, <3>2
  <2> QED BY <1>1, <2>1, <2>4 DEF PublishedFirst
<1> QED BY <1>2, <1>3

LEMMA FirstStep ==
    ASSUME MaxInFlight = 1, TypeInv, TraceByStage, SerialInv, RowsDated, PublishedFirst,
           [Next]_vars
    PROVE  PublishedFirst'
<1>1. CASE UNCHANGED vars
  BY <1>1 DEF vars, tables, pubVars, PublishedFirst
<1>2. CASE \E e \in Editors : EditAction(e) /\ UNCHANGED otherThanEd
  <2>1. PICK e \in Editors : EditAction(e) /\ UNCHANGED pubPc
    BY <1>2 DEF otherThanEd, pubVars
  <2>2. ASSUME NEW cur \in itemCurations
        PROVE  synced(e, cur).by = cur.by /\ synced(e, cur).item = cur.item
    BY DEF TypeInv, TypeOK, TablesTypeOK, ItemCuration, synced
  <2>3. \/ itemCurations' = itemCurations
        \/ itemCurations' = {synced(e, cur) : cur \in itemCurations}
    BY <2>1 DEF EditAction, EditStep, StartUpsert, UpsertItem, AbortUpsert,
       SyncPendingCurations, tables
  <2> QED BY <2>1, <2>2, <2>3, KeptFirst
<1>3. CASE \E d \in Removers : RemoveAction(d) /\ UNCHANGED otherThanRm
  <2>1. UNCHANGED pubPc BY <1>3 DEF otherThanRm, pubVars
  <2>2. \/ itemCurations' = itemCurations
        \/ \E gone : itemCurations' = {cur \in itemCurations : cur.item \notin gone}
    BY <1>3 DEF RemoveAction, RemoveStep, StartDeleteItem, StartDeleteCollection, DeleteItem,
       DeleteCollection, DeleteItemsOfCollection, AbortDelete, deleteItems, tables
  <2> QED BY <2>1, <2>2, KeptFirst
<1>4. CASE \E v \in Reviewers : ReviewAction(v) /\ UNCHANGED otherThanRv
  <2>1. PICK v \in Reviewers : ReviewAction(v) /\ UNCHANGED pubPc
    BY <1>4 DEF otherThanRv, pubVars
  <2>2. ASSUME NEW cur \in itemCurations
        PROVE  decidedItem(v, cur).by = cur.by /\ decidedItem(v, cur).item = cur.item
    BY DEF TypeInv, TypeOK, TablesTypeOK, ItemCuration, decidedItem
  <2>3. \/ itemCurations' = itemCurations
        \/ itemCurations' = {decidedItem(v, cur) : cur \in itemCurations}
    BY <2>1, ReviewReads DEF UpdateCuration, tables
  <2> QED BY <2>1, <2>2, <2>3, KeptFirst
<1>5. CASE Next
  BY <1>2, <1>3, <1>4, <1>5, MovesAlone, PublishFirst, SubmitFirst DEF SerialInv
<1> QED BY <1>1, <1>5

\* A stored publication has its cheque and the review of its collection.
LEMMA CuratedIsWhole ==
    ASSUME ReadsInv, CurationsArePaid, PublishedFirst, Quiescent, NoCrash,
           NEW c \in collections, existsByCollectionId(c)
    PROVE  /\ \E cheque \in cheques : cheque.collection = c
           /\ \E review \in collectionCurations : review.collection = c
<1>1. PICK cur \in itemCurations : CollectionOf[cur.item] = c /\ cur.by \in Publishers
  BY DEF existsByCollectionId, PublishedFirst
<1> DEFINE p == cur.by
<1>2. p \in Publishers BY <1>1
<1>3. cur \in itemCurationsOf(p) BY DEF itemCurationsOf
<1>4. pubPc[p] \in PubStages /\ pubPc[p] \notin {"idle", "rejected", "dirty", "crashed"}
  BY <1>2, <1>3 DEF ReadsInv, RefinementInv, TypeInv, TypeOK, PubTypeOK, TraceByStage,
     TraceOf, BeforeCheque, NoCrash
<1>5. pubPc[p] \in {"done", "unposted"}
  BY <1>2, <1>4 DEF Quiescent, PublishersInFlight, PubFinal
<1> HIDE DEF p
<1>6. \E cheque \in chequesOf(p) : cheque.collection = c
  BY <1>1, <1>2, <1>3, <1>5 DEF CurationsArePaid
<1>7. \E review \in collectionCurationsOf(p) : review.collection = c
  BY <1>1, <1>2, <1>3, <1>5 DEF ReadsInv, ReviewableOf, statusOfStage
<1> QED BY <1>6, <1>7 DEF chequesOf, collectionCurationsOf

LEMMA ListedByCuration ==
    ASSUME ReadsInv, NEW c \in collections, NEW isPublished \in BOOLEAN
    PROVE  /\ c \in idsIn(getCollections(reviewer, isPublished, FALSE)) <=>
                  isInPublishedJoin(c, isPublished)
           /\ isPublished => (c \in idsIn(getCollections(visitor, isPublished, TRUE)) <=>
                                 isInPublishedJoin(c, isPublished))
<1> DEFINE listing == ok({consolidateTPCollection(d) : d \in findAllPublished(isPublished)})
<1>1. \A d : consolidateTPCollection(d).id = d
  BY DEF consolidateTPCollection, mergedWith, mergeTPCollection, collectionRow
<1>2. idsIn(listing) = findAllPublished(isPublished)
  BY <1>1 DEF idsIn, ok
<1>3. c \in findAllPublished(isPublished) <=> isInPublishedJoin(c, isPublished)
  BY DEF findAllPublished
<1>4. getCollections(reviewer, isPublished, FALSE) = listing
  BY DEF getCollections, reviewer
<1>5. isPublished => getCollections(visitor, isPublished, TRUE) = listing
  BY DEF getCollections, visitor
<1> HIDE DEF listing
<1> QED BY <1>2, <1>3, <1>4, <1>5

LEMMA FoundByStatus ==
    ASSUME ReadsInv, NEW c \in collections, NEW status \in CurationStatus
    PROVE  c \in idsIn(getCollectionsByStatus(reviewer, status, {})) <=>
               \E cur \in latestCollectionCurations(c) : cur.status = status
<1> DEFINE listing == ok({consolidateTPCollection(d) : d \in findAllByStatus(status, {})})
<1>1. \A d : consolidateTPCollection(d).id = d
  BY DEF consolidateTPCollection, mergedWith, mergeTPCollection, collectionRow
<1>2. idsIn(listing) = findAllByStatus(status, {})
  BY <1>1 DEF idsIn, ok
<1>3. hasStatus(c, status, {}) <=> \E cur \in latestCollectionCurations(c) : cur.status = status
  BY DEF hasStatus, CurationStatus
<1>4. getCollectionsByStatus(reviewer, status, {}) = listing
  BY DEF getCollectionsByStatus, reviewer
<1> HIDE DEF listing
<1> QED BY <1>2, <1>3, <1>4 DEF findAllByStatus

LEMMA PublishedEverywhereOn ==
    ASSUME ReadsInv, CurationsArePaid, PublishedFirst, Quiescent, NoCrash,
           NEW c \in collections
    PROVE  LET published == isOk(getCollection(visitor, c))
               listed(isPublished) ==
                   idsIn(getCollections(reviewer, isPublished, FALSE))
               found(status) == idsIn(getCollectionsByStatus(reviewer, status, {}))
           IN  /\ published <=> approvalDataAccess(reviewer, c) = "ok"
               /\ published <=> c \in idsIn(getCollections(visitor, TRUE, TRUE))
               /\ ~published => c \in listed(FALSE) \ listed(TRUE)
               /\ published =>
                      /\ getCollectionCuration(reviewer, c).body # {}
                      /\ \E cur \in getCollectionCurations(reviewer) : cur.collection = c
                      /\ \E status \in CurationStatus : c \in found(status)
<1> DEFINE published == isOk(getCollection(visitor, c))
<1>0. /\ c \in Collections /\ collectionCurations \subseteq CollectionCuration
      /\ items \subseteq Items
  BY DEF ReadsInv, RefinementInv, TypeInv, TypeOK, TablesTypeOK
<1>1. published <=> existsByCollectionId(c) BY PublishedWhenCurated
<1> HIDE DEF published
<1>2. published <=> approvedItems(c) # {} BY <1>0, <1>1, LastFound
<1>3. published => findLastChequeByCollectionId(c) # {}
  BY <1>1, CuratedIsWhole, ChequeFound
<1>4. published <=> approvalDataAccess(reviewer, c) = "ok"
  BY <1>2, <1>3 DEF approvalDataAccess, reviewer
<1>5. published <=> isInPublishedJoin(c, TRUE)
  BY <1>2 DEF isInPublishedJoin, approvedItems
<1>6. ~published => isInPublishedJoin(c, FALSE)
  BY <1>2 DEF isInPublishedJoin, approvedItems
<1>7. ASSUME published
      PROVE  /\ getCollectionCuration(reviewer, c).body # {}
             /\ \E cur \in getCollectionCurations(reviewer) : cur.collection = c
             /\ \E status \in CurationStatus :
                    c \in idsIn(getCollectionsByStatus(reviewer, status, {}))
  <2>1. latestCollectionCurations(c) # {} BY <1>1, <1>7, CuratedIsWhole, LatestReviewFound
  <2>2. PICK cur \in latestCollectionCurations(c) : TRUE BY <2>1
  <2>3. cur \in collectionCurations /\ cur.collection = c
        /\ cur.status \in CurationStatus /\ cur.created \in Nat
        /\ \A other \in collectionCurations :
               other.created \in Nat /\ (other.collection = c => other.created <= cur.created)
    BY <1>0, <2>2 DEF latestCollectionCurations, CollectionCuration
  <2>4. validateCollection(reviewer, c) = "ok"
    <3>1. findLastByCollectionId(c) # {} BY <1>0, <1>1, <1>7, LastFound
    <3>2. hasAccess(reviewer, getTPCollection(c)) BY DEF hasAccess, reviewer
    <3> QED BY <3>1, <3>2 DEF validateCollection, validateAccessToCuration
  <2>5. getCollectionCuration(reviewer, c).body = latestCollectionCurations(c)
    BY <2>4 DEF getCollectionCuration, answered, ok
  <2>6. cur \in getLatestByIds(Collections)
    BY <1>0, <2>3 DEF getLatestByIds
  <2>7. cur \in getCollectionCurations(reviewer)
    BY <2>6 DEF getCollectionCurations, getLatest, reviewer
  <2>8. c \in idsIn(getCollectionsByStatus(reviewer, cur.status, {}))
    BY <2>2, <2>3, FoundByStatus
  <2> QED BY <2>1, <2>3, <2>5, <2>7, <2>8
<1>8. /\ c \in idsIn(getCollections(visitor, TRUE, TRUE)) <=> isInPublishedJoin(c, TRUE)
      /\ c \in idsIn(getCollections(reviewer, TRUE, FALSE)) <=> isInPublishedJoin(c, TRUE)
      /\ c \in idsIn(getCollections(reviewer, FALSE, FALSE)) <=> isInPublishedJoin(c, FALSE)
  BY ListedByCuration
<1> QED BY <1>4, <1>5, <1>6, <1>7, <1>8 DEF published

\* Once nothing is being served, every endpoint tells the same collections
\* published (PublishedEverywhere), for any number of publications, edits,
\* deletes and reviews served together and failing on the way, and with review
\* requests too when requests are served one at a time: what a publication
\* stores in the three tables it stores or rolls back as one.
THEOREM PublishedIsTold ==
    ASSUME Submitters = {} \/ MaxInFlight = 1 PROVE Spec => []PublishedEverywhere
<1>1. ReadsInv /\ CurationsArePaid /\ PublishedFirst => PublishedEverywhere
  BY PublishedEverywhereOn DEF PublishedEverywhere
<1>2. Spec => []PublishedFirst
  <2>1. CASE Submitters = {}
    <3>1. ReadsInv => PublishedFirst BY <2>1 DEF ReadsInv, RowsDated, PublishedFirst
    <3> QED BY <3>1, ReadsInvariant, PTL
  <2>2. CASE MaxInFlight = 1
    <3>1. Init => PublishedFirst BY DEF Init, TablesInit, PublishedFirst
    <3>2. ReadsInv /\ SerialInv /\ PublishedFirst /\ [Next]_vars => PublishedFirst'
      BY <2>2, FirstStep DEF ReadsInv, RefinementInv
    <3>3. Spec => []SerialInv BY <2>2, SerialInvariant
    <3> QED BY <3>1, <3>2, <3>3, ReadsInvariant, PTL DEF Spec
  <2> QED BY <2>1, <2>2
<1> QED BY <1>1, <1>2, ReadsInvariant, PaidCurations, PTL

-----------------------------------------------------------------------------
(* The listing of all items.                                               *)

\* An item without its collection is left by a delete that is not over, and
\* nobody writes an item back into a collection that was deleted.
ItemsListed ==
    /\ \A i \in items :
           \/ CollectionOf[i] \in collections
           \/ \E d \in Removers :
                  rmTarget[d] = CollectionOf[i] /\ rmPc[d] \in {"items", "crashed"}
    /\ \A e \in Editors :
           edPc[e] = "upsert" => CollectionOf[edCall[e].item] \in collections

LEMMA ListedQuiet ==
    ASSUME ItemsListed, UNCHANGED <<items, collections, edVars, rmVars>>
    PROVE  ItemsListed'
BY DEF ItemsListed, edVars, rmVars

LEMMA PublishListed ==
    ASSUME ItemsListed, NEW p \in Publishers, Publish(p), UNCHANGED otherThanPub
    PROVE  ItemsListed'
<1>1. UNCHANGED <<items, collections>>
  BY DEF Publish, PublishStep, StartPublish, CheckSlots, FindItems, CheckPending, CreateCheque,
     CreateItemCuration, FinishItemCurations, CreateCollectionCuration, DeleteCheque,
     DeleteItemCurations, CreatePost, UpdatePost, LinkPost, CrashPublish, tables
<1> QED BY <1>1, ListedQuiet DEF otherThanPub

LEMMA EditListed ==
    ASSUME TypeInv, ItemsListed, NEW e \in Editors, EditAction(e), UNCHANGED otherThanEd
    PROVE  ItemsListed'
<1> USE DEF TypeInv, TypeOK, ItemsTypeOK, ItemsListed
<1>0. UNCHANGED <<rmPc, rmTarget>> BY DEF otherThanEd, rmVars
<1>1. CASE StartUpsert(e)
  <2>1. PICK i \in Items, h \in Hashes :
            /\ CollectionOf[i] \in collections
            /\ edCall' = [edCall EXCEPT ![e] = [item |-> i, hash |-> h, existed |-> i \in items]]
    BY <1>1 DEF StartUpsert, isPlaced
  <2>2. edCall'[e].item = i BY <2>1
  <2>3. \A other \in Editors \ {e} : edCall'[other] = edCall[other] /\ edPc'[other] = edPc[other]
    BY <1>1, <2>1 DEF StartUpsert
  <2>4. UNCHANGED <<items, collections>> BY <1>1 DEF StartUpsert, tables
  <2> QED BY <1>0, <2>1, <2>2, <2>3, <2>4
<1>2. CASE UpsertItem(e)
  <2>1. /\ edPc[e] = "upsert" /\ edPc'[e] # "upsert"
        /\ items' = items \cup {edCall[e].item} /\ UNCHANGED collections
        /\ \A other \in Editors \ {e} :
               edCall'[other] = edCall[other] /\ edPc'[other] = edPc[other]
    BY <1>2 DEF UpsertItem, edEnd
  <2> QED BY <1>0, <2>1
<1>3. CASE SyncPendingCurations(e) \/ AbortUpsert(e)
  <2>1. /\ edPc'[e] # "upsert" /\ UNCHANGED <<items, collections>>
        /\ \A other \in Editors \ {e} :
               edCall'[other] = edCall[other] /\ edPc'[other] = edPc[other]
    BY <1>3 DEF SyncPendingCurations, AbortUpsert, edEnd, tables
  <2> QED BY <1>0, <2>1
<1> QED BY <1>1, <1>2, <1>3 DEF EditAction, EditStep

LEMMA RemoveListed ==
    ASSUME TypeInv, ItemsListed, NEW d \in Removers, RemoveAction(d), UNCHANGED otherThanRm,
           OnlyRemover(d)
    PROVE  ItemsListed'
<1> USE DEF TypeInv, TypeOK, ItemsTypeOK, ItemsListed
<1>0. UNCHANGED <<edPc, edCall>> BY DEF otherThanRm, edVars
<1>1. \A e \in Editors : edPc[e] # "upsert" BY DEF OnlyRemover, EditorsInFlight
<1>2. \A other \in Removers \ {d} : rmPc'[other] = rmPc[other] /\ rmTarget'[other] = rmTarget[other]
  BY DEF RemoveAction, RemoveStep, StartDeleteItem, StartDeleteCollection, DeleteItem,
     DeleteCollection, DeleteItemsOfCollection, AbortDelete
<1>3. CASE StartDeleteItem(d) \/ StartDeleteCollection(d)
  <2>1. rmPc[d] = "idle" /\ UNCHANGED <<items, collections>>
    BY <1>3 DEF StartDeleteItem, StartDeleteCollection, tables
  <2> QED BY <1>0, <1>1, <1>2, <2>1
<1>4. CASE DeleteItem(d)
  <2>1. rmPc[d] = "item" /\ items' \subseteq items /\ UNCHANGED collections
    BY <1>4 DEF DeleteItem, deleteItems
  <2> QED BY <1>0, <1>1, <1>2, <2>1
<1>5. CASE DeleteCollection(d)
  <2>1. /\ rmPc'[d] = "items" /\ rmTarget' = rmTarget
        /\ collections' = collections \ {rmTarget[d]} /\ UNCHANGED items
    BY <1>5 DEF DeleteCollection, deleteCollection
  <2>2. rmPc[d] = "collection" BY <1>5 DEF DeleteCollection
  <2> QED BY <1>0, <1>1, <1>2, <2>1, <2>2
<1>6. CASE DeleteItemsOfCollection(d)
  <2>1. /\ items' = {i \in items : CollectionOf[i] # rmTarget[d]}
        /\ UNCHANGED collections
    BY <1>6 DEF DeleteItemsOfCollection, deleteItems
  <2> QED BY <1>0, <1>1, <1>2, <2>1
<1>7. CASE AbortDelete(d)
  <2>1. rmPc'[d] = "crashed" /\ rmTarget' = rmTarget /\ UNCHANGED <<items, collections>>
    BY <1>7 DEF AbortDelete, tables
  <2> QED BY <1>0, <1>1, <1>2, <2>1
<1> QED BY <1>3, <1>4, <1>5, <1>6, <1>7 DEF RemoveAction, RemoveStep

LEMMA ReviewListed ==
    ASSUME ItemsListed, \/ \E v \in Reviewers : ReviewAction(v) /\ UNCHANGED otherThanRv
                        \/ \E s \in Submitters : SubmitAction(s) /\ UNCHANGED otherThanSb
    PROVE  ItemsListed'
<1>1. UNCHANGED <<items, collections>>
  BY DEF ReviewAction, ReviewStep, StartReview, TouchCollectionCuration, ReadReviewedItem,
     UpdateCuration, SubmitAction, SubmitStep, StartSubmit, ReadSubmittedItem,
     InsertCuration, tables
<1> QED BY <1>1, ListedQuiet DEF otherThanRv, otherThanSb

\* The committee can list all items as long as no delete was cut short
\* (CommitteeCanListItems), when requests are served one at a time: the two
\* statements that delete a collection leave no item without one, and no edit
\* writes an item back between them.
THEOREM ItemsAreListed ==
    ASSUME MaxInFlight = 1 PROVE Spec => []CommitteeCanListItems
<1>1. Init => ItemsListed
  BY CollectionOfAssumption DEF Init, TablesInit, ItemsInit, ItemsListed
<1>2. TypeInv /\ SerialInv /\ ItemsListed /\ [Next]_vars => ItemsListed'
  <2> SUFFICES ASSUME TypeInv, SerialInv, ItemsListed, [Next]_vars PROVE ItemsListed'
    OBVIOUS
  <2>1. CASE UNCHANGED vars BY <2>1, ListedQuiet DEF vars, tables
  <2> QED
    BY <2>1, MovesAlone, PublishListed, EditListed, RemoveListed, ReviewListed DEF SerialInv
<1>3. ItemsListed => CommitteeCanListItems
  <2> SUFFICES ASSUME ItemsListed, Quiescent, NoCrash PROVE isOk(getItems(reviewer, {}))
    BY DEF CommitteeCanListItems
  <2>1. \A d \in Removers : rmPc[d] \notin {"items", "crashed"}
    BY DEF Quiescent, RemoversInFlight, NoCrash
  <2>2. \A i \in items : CollectionOf[i] \in collections BY <2>1 DEF ItemsListed
  <2> QED BY <2>2 DEF getItems, consolidateTPItems, isOk, ok, reviewer
<1> QED BY <1>1, <1>2, <1>3, TypeInvariant, SerialInvariant, PTL DEF Spec

-----------------------------------------------------------------------------
(* Approval data, of requests that are served one at a time: the last      *)
(* curation updated is the last one created.                               *)

\* A row that stays keeps its date, and a row that is inserted or decided on is
\* the latest of its item.
RowsTracked ==
    /\ \A new \in itemCurations' :
           new.by \in writersOf(new.item) =>
               \E old \in itemCurations :
                   old.by = new.by /\ old.item = new.item /\ old.created = new.created
    /\ \A new, other \in itemCurations' :
           new.by \in touched(new.item) /\ other.item = new.item /\ other # new =>
               other.created < new.created

LEMMA UpdatesTracked ==
    ASSUME TypeInv, TypeInv', CurationsKeyed, UpdatedAsCreated, TrackUpdates, RowsTracked
    PROVE  UpdatedAsCreated'
<1>1. \A cur \in itemCurations' : cur.created \in Nat /\ cur.by \in Requests
  BY DEF TypeInv, TypeOK, TablesTypeOK, ItemCuration
<1> SUFFICES ASSUME NEW i \in Items, NEW x \in Requests, NEW y \in Requests
             PROVE  <<x, y>> \in updatedBefore'[i] <=>
                        \E a, b \in itemCurations' :
                            /\ a.by = x /\ b.by = y /\ a.item = i /\ b.item = i
                            /\ a.created < b.created
  BY DEF UpdatedAsCreated
<1>2. CASE itemCurations' = itemCurations /\ rvPc' = rvPc
  <2>1. updatedBefore' = updatedBefore BY <1>2 DEF TrackUpdates
  <2>2. <<x, y>> \in updatedBefore[i] <=>
            \E a, b \in itemCurations :
                a.by = x /\ b.by = y /\ a.item = i /\ b.item = i /\ a.created < b.created
    BY DEF UpdatedAsCreated
  <2> QED BY <1>2, <2>1, <2>2
<1>3. CASE ~(itemCurations' = itemCurations /\ rvPc' = rvPc)
  <2>1. <<x, y>> \in updatedBefore'[i] <=>
            /\ x \in writersOf(i)' /\ y \in writersOf(i)' /\ x \notin touched(i)
            /\ y \in touched(i) \/ <<x, y>> \in updatedBefore[i]
    BY <1>3 DEF TrackUpdates, reordered
  <2>2. ASSUME NEW a \in itemCurations', NEW b \in itemCurations',
               a.item = i, b.item = i, a.by = x, b.by = y, x \notin touched(i),
               y \notin touched(i)
        PROVE  <<x, y>> \in updatedBefore[i] <=> a.created < b.created
    <3>1. x \in writersOf(i) /\ y \in writersOf(i)
      BY <2>2 DEF touched, writersOf
    <3>2. PICK a0 \in itemCurations : a0.by = x /\ a0.item = i /\ a0.created = a.created
      BY <2>2, <3>1 DEF RowsTracked
    <3>3. PICK b0 \in itemCurations : b0.by = y /\ b0.item = i /\ b0.created = b.created
      BY <2>2, <3>1 DEF RowsTracked
    <3> QED BY <3>2, <3>3 DEF UpdatedAsCreated, CurationsKeyed
  <2>3. ASSUME <<x, y>> \in updatedBefore'[i]
        PROVE  \E a, b \in itemCurations' :
                   /\ a.by = x /\ b.by = y /\ a.item = i /\ b.item = i
                   /\ a.created < b.created
    <3>1. PICK a \in itemCurations' : a.by = x /\ a.item = i
      BY <2>1, <2>3 DEF writersOf
    <3>2. PICK b \in itemCurations' : b.by = y /\ b.item = i
      BY <2>1, <2>3 DEF writersOf
    <3>3. CASE y \in touched(i)
      BY <2>1, <2>3, <3>1, <3>2, <3>3 DEF RowsTracked
    <3>4. CASE y \notin touched(i)
      BY <2>1, <2>2, <2>3, <3>1, <3>2, <3>4
    <3> QED BY <3>3, <3>4
  <2>4. ASSUME NEW a \in itemCurations', NEW b \in itemCurations',
               a.by = x, b.by = y, a.item = i, b.item = i, a.created < b.created
        PROVE  <<x, y>> \in updatedBefore'[i]
    <3>1. x \in writersOf(i)' /\ y \in writersOf(i)'
      BY <2>4 DEF writersOf
    <3>2. x \notin touched(i)
      BY <1>1, <2>4 DEF RowsTracked
    <3> QED BY <2>1, <2>2, <2>4, <3>1, <3>2
  <2> QED BY <2>3, <2>4
<1> QED BY <1>2, <1>3

\* Nothing is decided by a step that leaves the reviews alone.
LEMMA NoneDecided ==
    ASSUME rvPc' = rvPc \/ \A v \in Reviewers : rvPc[v] = "update" => rvPc'[v] # "done",
           NEW i
    PROVE  decided(i) = {}
BY DEF decided

LEMMA FewerTracked ==
    ASSUME itemCurations' \subseteq itemCurations, \A i : decided(i) = {}
    PROVE  RowsTracked
<1>1. \A new \in itemCurations' : new.by \notin touched(new.item)
  BY DEF touched, writersOf
<1> QED BY <1>1 DEF RowsTracked

LEMMA InsertTracked ==
    ASSUME CurationsKeyed', LatestIsOpen', NEW new, new.status = "pending",
           itemCurations' = itemCurations \cup {new}, \A i : decided(i) = {}
    PROVE  RowsTracked
<1>1. ASSUME NEW cur \in itemCurations', cur.by \in touched(cur.item)
      PROVE  cur = new
  BY <1>1 DEF touched, writersOf
<1>2. ASSUME NEW cur \in itemCurations', cur.by \in writersOf(cur.item)
      PROVE  cur \in itemCurations
  BY <1>2 DEF writersOf, CurationsKeyed
<1> QED BY <1>1, <1>2 DEF RowsTracked, LatestIsOpen

LEMMA MappedTracked ==
    ASSUME NEW f, RowsMapped(f), \A i : decided(i) = {}
    PROVE  RowsTracked
<1>1. ASSUME NEW cur \in itemCurations' PROVE cur.by \notin touched(cur.item)
  BY DEF touched, writersOf, RowsMapped
<1> QED BY <1>1 DEF RowsTracked, RowsMapped

LEMMA DecisionTracked ==
    ASSUME TypeInv, TypeInv', SerialInv, CurationsKeyed', NEW v \in Reviewers, UpdateCuration(v)
    PROVE  RowsTracked
<1> DEFINE f == [cur \in itemCurations |-> decidedItem(v, cur)]
<1>1. RowsMapped(f)
  BY DEF TypeInv, TypeOK, TablesTypeOK, ItemCuration, decidedItem, RowsMapped, UpdateCuration
<1> HIDE DEF f
<1>2. ReviewerHolds(v) BY DEF SerialInv, UpdateCuration, ReviewersInFlight
<1>3. ASSUME NEW i PROVE decided(i) \subseteq {rvBy[v]} /\ (i # rvTarget[v] => decided(i) = {})
  BY DEF decided, UpdateCuration, rvEnd, rvGoto, TypeInv, TypeOK, ReviewTypeOK
<1>4. ASSUME NEW new \in itemCurations', new.by \in touched(new.item)
      PROVE  new.by = rvBy[v] /\ new.item = rvTarget[v]
  <2>1. new.by \in writersOf(new.item) BY <1>1 DEF RowsMapped, writersOf
  <2> QED BY <1>3, <1>4, <2>1 DEF touched
<1>5. ASSUME NEW new \in itemCurations', NEW other \in itemCurations',
             new.by \in touched(new.item), other.item = new.item, other # new
      PROVE  other.created < new.created
  <2>1. other.created <= new.created
    BY <1>1, <1>2, <1>4, <1>5 DEF RowsMapped, ReviewerHolds
  <2>2. other.created # new.created BY <1>5 DEF CurationsKeyed
  <2>3. other.created \in Nat /\ new.created \in Nat
    BY DEF TypeInv, TypeOK, TablesTypeOK, ItemCuration
  <2> QED BY <2>1, <2>2, <2>3
<1> QED BY <1>1, <1>5 DEF RowsTracked, RowsMapped

LEMMA UpdatedStep ==
    ASSUME MaxInFlight = 1, TypeInv, TypeInv', SerialInv, SerialInv', UpdatedAsCreated,
           [Next]_vars, TrackUpdates
    PROVE  UpdatedAsCreated'
<1>1. CurationsKeyed /\ CurationsKeyed' /\ LatestIsOpen'
  BY DEF SerialInv, TablesHold
<1>2. CASE UNCHANGED vars
  <2>1. UNCHANGED <<itemCurations, rvPc>> BY <1>2 DEF vars, tables, rvVars
  <2> QED BY <1>1, <2>1, FewerTracked, NoneDecided, UpdatesTracked
<1>3. CASE \E p \in Publishers : Publish(p) /\ UNCHANGED otherThanPub
  <2>1. PICK p \in Publishers : Publish(p) /\ UNCHANGED rvPc
    BY <1>3 DEF otherThanPub, rvVars
  <2>2. \A i : decided(i) = {} BY <2>1, NoneDecided
  <2>3. CASE CreateItemCuration(p)
    <3>1. PICK i : \/ itemCurations' = itemCurations
                   \/ itemCurations' = itemCurations \cup
                          {[by |-> p, item |-> i, status |-> "pending",
                            hash |-> pubItems[p][i], created |-> pubCreated[p]]}
      BY <2>3 DEF CreateItemCuration
    <3> DEFINE new == [by |-> p, item |-> i, status |-> "pending",
                       hash |-> pubItems[p][i], created |-> pubCreated[p]]
    <3>2. new.status = "pending" OBVIOUS
    <3>3. \/ itemCurations' = itemCurations
          \/ itemCurations' = itemCurations \cup {new}
      BY <3>1
    <3> HIDE DEF new
    <3>4. RowsTracked BY <1>1, <2>2, <3>2, <3>3, InsertTracked, FewerTracked
    <3> QED BY <1>1, <3>4, UpdatesTracked
  <2>4. CASE ~CreateItemCuration(p)
    <3>1. itemCurations' \subseteq itemCurations BY <2>1, <2>4, PublishWrites
    <3> QED BY <1>1, <2>2, <3>1, FewerTracked, UpdatesTracked
  <2> QED BY <2>3, <2>4
<1>4. CASE \E e \in Editors : EditAction(e) /\ UNCHANGED otherThanEd
  <2>1. PICK e \in Editors : EditAction(e) /\ UNCHANGED rvPc
    BY <1>4 DEF otherThanEd, rvVars
  <2>2. \A i : decided(i) = {} BY <2>1, NoneDecided
  <2>3. CASE SyncPendingCurations(e)
    <3> DEFINE f == [cur \in itemCurations |-> synced(e, cur)]
    <3>1. RowsMapped(f)
      BY <2>3 DEF TypeInv, TypeOK, TablesTypeOK, ItemCuration, synced, RowsMapped,
         SyncPendingCurations
    <3> HIDE DEF f
    <3> QED BY <1>1, <2>2, <3>1, MappedTracked, UpdatesTracked
  <2>4. CASE ~SyncPendingCurations(e)
    <3>1. itemCurations' = itemCurations
      BY <2>1, <2>4 DEF EditAction, EditStep, StartUpsert, UpsertItem, AbortUpsert, tables
    <3> QED BY <1>1, <2>2, <3>1, FewerTracked, UpdatesTracked
  <2> QED BY <2>3, <2>4
<1>5. CASE \E d \in Removers : RemoveAction(d) /\ UNCHANGED otherThanRm
  <2>1. itemCurations' \subseteq itemCurations /\ UNCHANGED rvPc
    BY <1>5 DEF RemoveAction, RemoveStep, StartDeleteItem, StartDeleteCollection, DeleteItem,
       DeleteCollection, DeleteItemsOfCollection, AbortDelete, deleteItems, tables,
       otherThanRm, rvVars
  <2> QED BY <1>1, <2>1, NoneDecided, FewerTracked, UpdatesTracked
<1>6. CASE \E v \in Reviewers : ReviewAction(v) /\ UNCHANGED otherThanRv
  <2>1. PICK v \in Reviewers : ReviewAction(v) BY <1>6
  <2>2. CASE UpdateCuration(v) BY <1>1, <2>2, DecisionTracked, UpdatesTracked
  <2>3. CASE ~UpdateCuration(v)
    <3>1. itemCurations' = itemCurations BY <2>1, <2>3, ReviewReads DEF tables
    <3>2. \A w \in Reviewers : rvPc[w] = "update" => rvPc'[w] # "done"
      BY <2>1, <2>3 DEF ReviewAction, ReviewStep, StartReview, TouchCollectionCuration,
         ReadReviewedItem, rvEnd, rvGoto, TypeInv, TypeOK, ReviewTypeOK
    <3> QED BY <1>1, <3>1, <3>2, NoneDecided, FewerTracked, UpdatesTracked
  <2> QED BY <2>2, <2>3
<1>7. CASE \E s \in Submitters : SubmitAction(s) /\ UNCHANGED otherThanSb
  <2>1. PICK s \in Submitters : SubmitAction(s) /\ UNCHANGED rvPc
    BY <1>7 DEF otherThanSb, rvVars
  <2>2. \A i : decided(i) = {} BY <2>1, NoneDecided
  <2> DEFINE new == [by |-> s, item |-> sbTarget[s], status |-> "pending",
                     hash |-> sbHash[s], created |-> sbCreated[s]]
  <2>3. \/ itemCurations' = itemCurations
        \/ itemCurations' = itemCurations \cup {new}
    BY <2>1 DEF SubmitAction, SubmitStep, StartSubmit, ReadSubmittedItem, InsertCuration, tables
  <2>4. new.status = "pending" OBVIOUS
  <2> HIDE DEF new
  <2>5. RowsTracked BY <1>1, <2>2, <2>3, <2>4, InsertTracked, FewerTracked
  <2> QED BY <1>1, <2>5, UpdatesTracked
<1> QED BY <1>2, <1>3, <1>4, <1>5, <1>6, <1>7, NextActions

-----------------------------------------------------------------------------
(* What is under review is what the item holds, unless an edit is half way *)
(* through: of requests served one at a time, none of which is cut short.  *)

\* An edit that goes on until it has carried the hash over to the open review.
LEMMA EditsAreEnded ==
    ASSUME "crash" \notin Faults, TypeInv, Next, NEW e \in Editors
    PROVE  ~AbortUpsert(e)
<1> SUFFICES ASSUME AbortUpsert(e) PROVE FALSE
    OBVIOUS
<1> USE DEF TypeInv, TypeOK, ItemsTypeOK
<1>1. edPc[e] # "crashed" /\ edPc'[e] = "crashed"
  BY DEF AbortUpsert, edEnd
<1>2. Start \/ Step BY DEF Next, Crash, mayFail
<1>3. edPc' # edPc BY <1>1
<1>4. \E o \in Editors : StartUpsert(o) \/ EditStep(o)
  BY <1>2, <1>3 DEF Start, Step, otherThanPub, otherThanRm, otherThanRv, otherThanSb, edVars
<1> QED BY <1>1, <1>4 DEF StartUpsert, EditStep, UpsertItem, SyncPendingCurations, edEnd

ContentInv == OpenIsCurrent /\ HashesAreCurrent

LEMMA PublisherContent ==
    ASSUME TypeInv, ContentInv, NEW p \in Publishers, Publish(p), UNCHANGED otherThanPub,
           OnlyPublisher(p), OnlyPublisher(p)'
    PROVE  ContentInv'
<1>1. contentHash' = contentHash /\ UNCHANGED <<edPc, edCall>>
  BY DEF Publish, PublishStep, StartPublish, CheckSlots, FindItems, CheckPending, CreateCheque,
     CreateItemCuration, FinishItemCurations, CreateCollectionCuration, DeleteCheque,
     DeleteItemCurations, CreatePost, UpdatePost, LinkPost, CrashPublish, tables,
     otherThanPub, edVars
<1>2. OpenIsCurrent'
  <2>1. CASE CreateItemCuration(p)
    <3>1. PICK i \in pubTodo[p] :
              \/ itemCurations' = itemCurations
              \/ itemCurations' = itemCurations \cup
                     {[by |-> p, item |-> i, status |-> "pending",
                       hash |-> pubItems[p][i], created |-> pubCreated[p]]}
      BY <2>1 DEF CreateItemCuration
    <3>2. pubPc[p] = "curations" /\ p \in PublishersInFlight
      BY <2>1 DEF CreateItemCuration, pubAt, PublishersInFlight, PubFinal
    <3>3. i \in dbItems(p) BY DEF TypeInv, TodoWasFound
    <3>4. pubItems[p][i] = contentHash[i]
      BY <3>2, <3>3 DEF ContentInv, HashesAreCurrent
    <3> QED BY <1>1, <3>1, <3>4 DEF ContentInv, OpenIsCurrent
  <2>2. CASE ~CreateItemCuration(p)
    <3>1. itemCurations' \subseteq itemCurations BY <2>2, PublishWrites
    <3> QED BY <1>1, <3>1 DEF ContentInv, OpenIsCurrent
  <2> QED BY <2>1, <2>2
<1>3. HashesAreCurrent'
  <2>1. ASSUME pubPc'[p] \in {"pending", "cheque", "curations"}, NEW i \in dbItems(p)'
        PROVE  pubItems'[p][i] = contentHash[i]
    <3>1. CASE FindItems(p)
      BY <2>1, <3>1 DEF FindItems, pubGoto, pubReject, pubFail, pubAt, TypeInv, TypeOK,
         PubTypeOK, dbItems
    <3>2. CASE ~FindItems(p)
      <4>1. /\ pubPc[p] \in {"pending", "cheque", "curations"}
            /\ pubItems' = pubItems
        BY <2>1, <3>2
        DEF Publish, PublishStep, StartPublish, CheckSlots, CheckPending, CreateCheque,
            CreateItemCuration, FinishItemCurations, CreateCollectionCuration, DeleteCheque,
            DeleteItemCurations, CreatePost, UpdatePost, LinkPost, CrashPublish, pubLocals,
            pubGoto, pubReject, pubFail, pubAt, TypeInv, TypeOK, PubTypeOK, PubFinal
      <4>2. p \in PublishersInFlight BY <4>1 DEF PublishersInFlight, PubFinal
      <4> QED BY <2>1, <4>1, <4>2 DEF ContentInv, HashesAreCurrent, dbItems
    <3> QED BY <3>1, <3>2
  <2> QED BY <1>1, <2>1 DEF HashesAreCurrent, OnlyPublisher
<1> QED BY <1>2, <1>3 DEF ContentInv

LEMMA EditorContent ==
    ASSUME TypeInv, SerialInv, ContentInv, NEW e \in Editors, EditAction(e), ~AbortUpsert(e),
           UNCHANGED otherThanEd, OnlyEditor(e), OnlyEditor(e)'
    PROVE  ContentInv'
<1> USE DEF TypeInv, TypeOK, TablesTypeOK, ItemsTypeOK, EdCall
<1>0. edCall[e] \in EdCall /\ contentHash \in [Items -> Hashes]
  OBVIOUS
<1>1. CASE StartUpsert(e)
  <2>1. UNCHANGED <<itemCurations, contentHash, items>>
        /\ edCall'[e].existed = (edCall'[e].item \in items) /\ edPc'[e] = "upsert"
    BY <1>1 DEF StartUpsert, tables
  <2>2. \A o \in Editors : edPc[o] # "sync"
    BY <1>1 DEF OnlyEditor, EditorsInFlight, StartUpsert
  <2>3. OpenIsCurrent' BY <2>1, <2>2 DEF ContentInv, OpenIsCurrent
  <2> QED BY <2>1, <2>3 DEF ContentInv, HashesAreCurrent, OnlyEditor
<1>2. CASE UpsertItem(e)
  <2>1. /\ itemCurations' = itemCurations /\ edPc[e] = "upsert"
        /\ contentHash' = [contentHash EXCEPT ![edCall[e].item] = edCall[e].hash]
    BY <1>2 DEF UpsertItem
  <2>2. ASSUME NEW cur \in itemCurations, cur.status = "pending"
        PROVE  cur.hash = contentHash[cur.item] /\ cur.item \in items /\ cur.item \in Items
    <3>1. \A o \in Editors : edPc[o] # "sync"
      BY <2>1 DEF OnlyEditor, EditorsInFlight
    <3> QED BY <2>2, <3>1
            DEF ContentInv, OpenIsCurrent, SerialInv, TablesHold, CurationsPlaced
  <2>3. CASE edCall[e].existed
    <3>1. edPc'[e] = "sync" /\ edCall' = edCall BY <1>2, <2>3 DEF UpsertItem
    <3>2. contentHash'[edCall[e].item] = edCall[e].hash
      BY <1>0, <2>1
    <3>3. OpenIsCurrent' BY <1>0, <2>1, <2>2, <3>1 DEF OpenIsCurrent
    <3> QED BY <2>3, <3>1, <3>2, <3>3 DEF ContentInv, HashesAreCurrent, OnlyEditor
  <2>4. CASE ~edCall[e].existed
    <3>1. edPc'[e] = "done" BY <1>2, <2>4 DEF UpsertItem, edEnd
    <3>2. edCall[e].item \notin items
      BY <2>1, <2>4 DEF ContentInv, HashesAreCurrent, EditorsInFlight
    <3>3. OpenIsCurrent' BY <1>0, <2>1, <2>2, <3>2 DEF OpenIsCurrent
    <3>4. EditorsInFlight' = {} BY <3>1 DEF OnlyEditor, EditorsInFlight
    <3> QED BY <3>3, <3>4 DEF ContentInv, HashesAreCurrent, OnlyEditor
  <2> QED BY <2>3, <2>4
<1>3. CASE SyncPendingCurations(e)
  <2>1. /\ itemCurations' = {synced(e, cur) : cur \in itemCurations}
        /\ contentHash' = contentHash /\ edPc[e] = "sync" /\ edPc'[e] = "done"
    BY <1>3 DEF SyncPendingCurations, edEnd
  <2>2. edCall[e].hash = contentHash[edCall[e].item]
    BY <2>1 DEF ContentInv, HashesAreCurrent, EditorsInFlight
  <2>3. \A o \in Editors : edPc[o] = "sync" => o = e
    BY DEF OnlyEditor, EditorsInFlight
  <2>4. ASSUME NEW cur \in itemCurations, synced(e, cur).status = "pending"
        PROVE  synced(e, cur).hash = contentHash[synced(e, cur).item]
    <3>1. cur \in ItemCuration OBVIOUS
    <3>2. CASE cur.item = edCall[e].item /\ cur.status = "pending"
      <4>1. synced(e, cur) = [cur EXCEPT !.hash = edCall[e].hash]
        BY <3>2 DEF synced
      <4> QED BY <2>2, <3>1, <3>2, <4>1 DEF ItemCuration
    <3>3. CASE ~(cur.item = edCall[e].item /\ cur.status = "pending")
      <4>1. synced(e, cur) = cur BY <3>3 DEF synced
      <4> QED BY <2>3, <2>4, <3>3, <4>1 DEF ContentInv, OpenIsCurrent
    <3> QED BY <3>2, <3>3
  <2>5. OpenIsCurrent' BY <2>1, <2>4 DEF OpenIsCurrent
  <2>6. EditorsInFlight' = {} BY <2>1 DEF OnlyEditor, EditorsInFlight
  <2> QED BY <2>5, <2>6 DEF ContentInv, HashesAreCurrent, OnlyEditor
<1> QED BY <1>1, <1>2, <1>3 DEF EditAction, EditStep

LEMMA RemoverContent ==
    ASSUME ContentInv, NEW d \in Removers, RemoveAction(d), UNCHANGED otherThanRm,
           OnlyRemover(d)'
    PROVE  ContentInv'
<1>1. /\ itemCurations' \subseteq itemCurations
      /\ UNCHANGED <<contentHash, edPc, edCall>>
  BY DEF RemoveAction, RemoveStep, StartDeleteItem, StartDeleteCollection, DeleteItem,
     DeleteCollection, DeleteItemsOfCollection, AbortDelete, deleteItems, tables,
     otherThanRm, edVars
<1>2. OpenIsCurrent' BY <1>1 DEF ContentInv, OpenIsCurrent
<1> QED BY <1>2 DEF ContentInv, HashesAreCurrent, OnlyRemover

LEMMA ReviewerContent ==
    ASSUME TypeInv, ContentInv, NEW v \in Reviewers, ReviewAction(v), UNCHANGED otherThanRv,
           OnlyReviewer(v), OnlyReviewer(v)'
    PROVE  ContentInv'
<1> USE DEF TypeInv, TypeOK, TablesTypeOK, ReviewTypeOK
<1>1. UNCHANGED <<contentHash, edPc, edCall>>
  BY DEF ReviewAction, ReviewStep, StartReview, TouchCollectionCuration, ReadReviewedItem,
     UpdateCuration, tables, otherThanRv, edVars
<1>2. \A cur \in itemCurations : cur.status = "pending" => cur.hash = contentHash[cur.item]
  BY DEF ContentInv, OpenIsCurrent, OnlyReviewer, EditorsInFlight
<1>3. CASE UpdateCuration(v)
  <2>1. /\ itemCurations' = {decidedItem(v, cur) : cur \in itemCurations}
        /\ rvPc[v] = "update" /\ rvPc'[v] = "done"
    BY <1>3 DEF UpdateCuration, rvEnd, rvGoto
  <2>2. ASSUME NEW cur \in itemCurations, decidedItem(v, cur).status = "pending"
        PROVE  decidedItem(v, cur).hash = contentHash[decidedItem(v, cur).item]
    <3>1. cur \in ItemCuration OBVIOUS
    <3>2. CASE cur.by = rvBy[v] /\ cur.item = rvTarget[v]
      <4>1. decidedItem(v, cur) =
                [cur EXCEPT !.status = decidedStatus(v, cur), !.hash = rvHash[v]]
        BY <3>2 DEF decidedItem
      <4>2. rvHash[v] = contentHash[cur.item]
        BY <2>1, <3>1, <3>2
        DEF ContentInv, HashesAreCurrent, ReviewersInFlight, ItemCuration
      <4> QED BY <3>1, <4>1, <4>2 DEF ItemCuration
    <3>3. CASE ~(cur.by = rvBy[v] /\ cur.item = rvTarget[v])
      <4>1. decidedItem(v, cur) = cur BY <3>3 DEF decidedItem
      <4> QED BY <1>2, <2>2, <4>1
    <3> QED BY <3>2, <3>3
  <2>3. OpenIsCurrent' BY <1>1, <2>1, <2>2 DEF OpenIsCurrent
  <2>4. ReviewersInFlight' = {} BY <2>1 DEF OnlyReviewer, ReviewersInFlight
  <2> QED BY <2>3, <2>4 DEF ContentInv, HashesAreCurrent, OnlyReviewer
<1>4. CASE ~UpdateCuration(v)
  <2>1. itemCurations' = itemCurations BY <1>4, ReviewReads DEF tables
  <2>2. OpenIsCurrent' BY <1>1, <1>2, <2>1 DEF OpenIsCurrent
  <2>3. rvPc'[v] = "update" /\ rvTarget'[v] \in Items =>
            rvHash'[v] = contentHash[rvTarget'[v]]
    BY <1>4 DEF ReviewAction, ReviewStep, StartReview, TouchCollectionCuration,
       ReadReviewedItem, rvGoto, rvEnd
  <2> QED BY <1>1, <2>2, <2>3 DEF ContentInv, HashesAreCurrent, OnlyReviewer
<1> QED BY <1>3, <1>4

LEMMA SubmitterContent ==
    ASSUME TypeInv, ContentInv, NEW s \in Submitters, SubmitAction(s), UNCHANGED otherThanSb,
           OnlySubmitter(s), OnlySubmitter(s)'
    PROVE  ContentInv'
<1> USE DEF TypeInv, TypeOK, TablesTypeOK, ReviewTypeOK
<1>1. UNCHANGED <<contentHash, edPc, edCall>>
  BY DEF SubmitAction, SubmitStep, StartSubmit, ReadSubmittedItem, InsertCuration, tables,
     otherThanSb, edVars
<1>2. CASE InsertCuration(s)
  <2>1. sbPc[s] = "insert" /\ sbPc'[s] \in {"done", "refused"}
    BY <1>2 DEF InsertCuration, sbEnd, sbGoto
  <2>2. sbTarget[s] \in Items => sbHash[s] = contentHash[sbTarget[s]]
    BY <2>1 DEF ContentInv, HashesAreCurrent, SubmittersInFlight
  <2>3. OpenIsCurrent'
    BY <1>1, <1>2, <2>2 DEF ContentInv, OpenIsCurrent, InsertCuration
  <2>4. SubmittersInFlight' = {} BY <2>1 DEF OnlySubmitter, SubmittersInFlight
  <2> QED BY <2>3, <2>4 DEF ContentInv, HashesAreCurrent, OnlySubmitter
<1>3. CASE ~InsertCuration(s)
  <2>1. itemCurations' = itemCurations
    BY <1>3 DEF SubmitAction, SubmitStep, StartSubmit, ReadSubmittedItem, tables
  <2>2. OpenIsCurrent' BY <1>1, <2>1 DEF ContentInv, OpenIsCurrent
  <2>3. sbPc'[s] = "insert" /\ sbTarget'[s] \in Items =>
            sbHash'[s] = contentHash[sbTarget'[s]]
    BY <1>3 DEF SubmitAction, SubmitStep, StartSubmit, ReadSubmittedItem, sbGoto, sbEnd
  <2> QED BY <1>1, <2>2, <2>3 DEF ContentInv, HashesAreCurrent, OnlySubmitter
<1> QED BY <1>2, <1>3

LEMMA ContentStep ==
    ASSUME MaxInFlight = 1, "crash" \notin Faults, TypeInv, SerialInv, ContentInv, [Next]_vars
    PROVE  ContentInv'
<1>1. CASE UNCHANGED vars
  <2> SUFFICES ASSUME UNCHANGED vars PROVE ContentInv'
    BY <1>1
  <2> USE DEF vars, tables, pubVars, pubLocals, edVars, rmVars, rvVars, rvLocals, sbVars,
              sbLocals
  <2>1. OpenIsCurrent' BY DEF ContentInv, OpenIsCurrent
  <2>2. /\ PublishersInFlight' = PublishersInFlight /\ EditorsInFlight' = EditorsInFlight
        /\ ReviewersInFlight' = ReviewersInFlight
        /\ SubmittersInFlight' = SubmittersInFlight
        /\ \A p \in Publishers : dbItems(p)' = dbItems(p)
    BY DEF PublishersInFlight, EditorsInFlight, ReviewersInFlight, SubmittersInFlight, dbItems
  <2>3. PublishersInFlight \subseteq Publishers BY DEF PublishersInFlight
  <2>4. HashesAreCurrent' BY <2>2, <2>3 DEF ContentInv, HashesAreCurrent
  <2> QED BY <2>1, <2>4 DEF ContentInv
<1>2. CASE Next
  BY <1>2, MovesAlone, EditsAreEnded, PublisherContent, EditorContent, RemoverContent,
     ReviewerContent, SubmitterContent DEF SerialInv
<1> QED BY <1>1, <1>2

-----------------------------------------------------------------------------
(* What the committee is given to approve.                                 *)

\* The last curation updated is the last one created, and the only one so.
LEMMA ApprovalRows ==
    ASSUME ReadsInv, CurationsKeyed, UpdatedAsCreated, NEW c
    PROVE  /\ findDBApprovalData(c) = findByCollectionId(c)
           /\ \A a, b \in findByCollectionId(c) : a.item = b.item => a = b
<1>1. \A cur \in itemCurations : /\ cur.created \in Nat /\ cur.by \in Requests
                                 /\ cur.item \in Items
  BY DEF ReadsInv, RefinementInv, TypeInv, TypeOK, TablesTypeOK, ItemCuration
<1>2. ASSUME NEW cur \in itemCurations
      PROVE  (\A by \in Requests : <<cur.by, by>> \notin updatedBefore[cur.item])
                 <=> cur \in latestItemCurations(cur.item)
  <2>1. ASSUME NEW by \in Requests, <<cur.by, by>> \in updatedBefore[cur.item]
        PROVE  cur \notin latestItemCurations(cur.item)
    <3>1. PICK a \in itemCurations, b \in itemCurations :
              /\ a.by = cur.by /\ a.item = cur.item /\ b.item = cur.item
              /\ a.created < b.created
      BY <1>1, <2>1 DEF UpdatedAsCreated
    <3>2. a = cur BY <3>1 DEF CurationsKeyed
    <3> QED BY <1>1, <3>1, <3>2 DEF latestItemCurations
  <2>2. ASSUME cur \notin latestItemCurations(cur.item)
        PROVE  \E by \in Requests : <<cur.by, by>> \in updatedBefore[cur.item]
    <3>1. PICK other \in itemCurations :
              other.item = cur.item /\ ~(other.created <= cur.created)
      BY <2>2 DEF latestItemCurations
    <3>2. cur.created < other.created BY <1>1, <3>1
    <3>3. <<cur.by, other.by>> \in updatedBefore[cur.item]
      BY <1>1, <3>1, <3>2 DEF UpdatedAsCreated
    <3> QED BY <1>1, <3>3
  <2> QED BY <2>1, <2>2
<1>3. findDBApprovalData(c) = {cur \in itemCurations :
          cur.item \in itemsOf(c) /\ cur \in latestItemCurations(cur.item)}
  BY <1>2 DEF findDBApprovalData
<1>4. findByCollectionId(c) = {cur \in itemCurations :
          cur.item \in itemsOf(c) /\ cur \in latestItemCurations(cur.item)}
  BY DEF findByCollectionId, latestItemCurations
<1>5. ASSUME NEW a \in findByCollectionId(c), NEW b \in findByCollectionId(c), a.item = b.item
      PROVE  a = b
  <2>1. /\ a \in itemCurations /\ b \in itemCurations
        /\ a.created <= b.created /\ b.created <= a.created
    BY <1>4, <1>5 DEF latestItemCurations
  <2>2. a.created = b.created BY <1>1, <2>1
  <2> QED BY <1>5, <2>1, <2>2 DEF CurationsKeyed
<1> QED BY <1>3, <1>4, <1>5

\* The answer is the hashes of those curations, item by item.
LEMMA ApprovalBody ==
    ASSUME ReadsInv, CurationsKeyed, UpdatedAsCreated, NEW c,
           isOk(getApprovalData(reviewer, c))
    PROVE  LET body == getApprovalData(reviewer, c).body
           IN  /\ DOMAIN body = {cur.item : cur \in findByCollectionId(c)}
               /\ \A cur \in findByCollectionId(c) : body[cur.item] = cur.hash
<1> DEFINE rows == findByCollectionId(c)
           body == [i \in {cur.item : cur \in rows} |-> (CHOOSE cur \in rows : cur.item = i).hash]
<1>1. rows = findDBApprovalData(c) /\ \A a, b \in rows : a.item = b.item => a = b
  BY ApprovalRows
<1>2. getApprovalData(reviewer, c) = ok(body)
  BY <1>1 DEF getApprovalData, isOk, failed, approvalDataAccess
<1> HIDE DEF rows
<1>3. ASSUME NEW cur \in rows PROVE body[cur.item] = cur.hash
  <2>1. (CHOOSE other \in rows : other.item = cur.item) = cur BY <1>1
  <2> QED BY <2>1
<1>4. DOMAIN body = {cur.item : cur \in rows} OBVIOUS
<1> HIDE DEF body
<1> QED BY <1>2, <1>3, <1>4 DEF ok, rows

LEMMA ApprovalOn ==
    ASSUME ReadsInv, CurationsKeyed, UpdatedAsCreated, OpenIsCurrent, Quiescent,
           NEW c \in collections, isOk(getApprovalData(reviewer, c))
    PROVE  LET body == getApprovalData(reviewer, c).body
               listed(status, sync) ==
                   selectByCollectionIds({c}, statusOf(status), sync, FALSE)
               current == {i \in DOMAIN body : body[i] = contentHash[i]}
           IN  /\ {<<i, body[i]>> : i \in DOMAIN body}
                  = {<<cur.item, cur.hash>> : cur \in
                        getCollectionItemCurations(reviewer, c, {}).body}
               /\ listed("any", "yes") \cup listed("pending", "any") \subseteq current
               /\ listed("any", "no") \cap current = {}
<1> DEFINE body == getApprovalData(reviewer, c).body
           rows == findByCollectionId(c)
           listed(status, sync) == selectByCollectionIds({c}, statusOf(status), sync, FALSE)
           current == {i \in DOMAIN body : body[i] = contentHash[i]}
<1>1. /\ DOMAIN body = {cur.item : cur \in rows}
      /\ \A cur \in rows : body[cur.item] = cur.hash
  BY ApprovalBody
<1>2. c \in Collections
  BY DEF ReadsInv, RefinementInv, TypeInv, TypeOK, TablesTypeOK
<1>3. getCollectionItemCurations(reviewer, c, {}).body = rows
  <2>1. approvalDataAccess(reviewer, c) = "ok"
    BY DEF getApprovalData, isOk, failed
  <2>2. approvedItems(c) # {} BY <2>1 DEF approvalDataAccess, reviewer
  <2>3. findLastByCollectionId(c) # {} BY <1>2, <2>2, LastFound
  <2>4. hasAccess(reviewer, getTPCollection(c)) BY DEF hasAccess, reviewer
  <2>5. validateCollection(reviewer, c) = "ok"
    BY <2>3, <2>4 DEF validateCollection, validateAccessToCuration
  <2> QED BY <2>5 DEF getCollectionItemCurations, answered, ok
<1>4. \A i \in items : CollectionOf[i] = c =>
          \A cur \in latestItemCurations(i) : cur \in rows /\ cur.item = i
  BY DEF findByCollectionId, latestItemCurations, itemsOf
<1>5. \A cur \in rows : cur \in itemCurations
  BY DEF findByCollectionId, latestItemCurations
<1> HIDE DEF body, rows
<1>6. \A cur \in itemCurations : cur.status = "pending" => cur.hash = contentHash[cur.item]
  BY DEF OpenIsCurrent, Quiescent, EditorsInFlight
<1>7. ASSUME NEW i \in listed("any", "yes") \cup listed("pending", "any") PROVE i \in current
  <2>1. PICK cur \in latestItemCurations(i) : cur.hash = contentHash[i] \/ cur.status = "pending"
    BY DEF selectByCollectionIds, statusOf, isSelected, joinedCurations
  <2>2. cur \in rows /\ cur.item = i
    BY <1>4 DEF selectByCollectionIds
  <2>3. cur.hash = contentHash[i] BY <1>5, <1>6, <2>1, <2>2
  <2> QED BY <1>1, <2>2, <2>3
<1>8. ASSUME NEW i \in listed("any", "no") PROVE i \notin current
  <2>1. PICK cur \in latestItemCurations(i) : cur.hash # contentHash[i]
    BY DEF selectByCollectionIds, isSelected, joinedCurations
  <2>2. cur \in rows /\ cur.item = i
    BY <1>4 DEF selectByCollectionIds
  <2> QED BY <1>1, <2>1, <2>2
<1>9. {<<i, body[i]>> : i \in DOMAIN body} = {<<cur.item, cur.hash>> : cur \in rows}
  BY <1>1
<1> HIDE DEF listed, current
<1>10. /\ {<<i, body[i]>> : i \in DOMAIN body}
          = {<<cur.item, cur.hash>> : cur \in getCollectionItemCurations(reviewer, c, {}).body}
       /\ listed("any", "yes") \cup listed("pending", "any") \subseteq current
       /\ listed("any", "no") \cap current = {}
  BY <1>3, <1>7, <1>8, <1>9
<1> QED BY <1>10 DEF body, listed, current

\* The workflow with the dates of its updates is the workflow.
LEMMA TrackedIsWorkflow == TrackedSpec => Spec
<1>1. TrackedInit => Init BY DEF TrackedInit
<1>2. [TrackedNext]_<<vars, updatedBefore>> => [Next]_vars BY DEF TrackedNext
<1> QED BY <1>1, <1>2, PTL DEF TrackedSpec, Spec

\* The curations of an item are updated in the order they are created in, when
\* requests are served one at a time, whatever fails.
THEOREM UpdatesInvariant ==
    ASSUME MaxInFlight = 1 PROVE TrackedSpec => []UpdatedAsCreated
<1>1. TrackedInit => UpdatedAsCreated
  BY DEF TrackedInit, Init, TablesInit, UpdatedAsCreated
<1>2. TypeInv /\ TypeInv' /\ SerialInv /\ SerialInv' /\ UpdatedAsCreated
      /\ [TrackedNext]_<<vars, updatedBefore>> => UpdatedAsCreated'
  <2> SUFFICES ASSUME TypeInv, TypeInv', SerialInv, SerialInv', UpdatedAsCreated,
                      [TrackedNext]_<<vars, updatedBefore>>
               PROVE  UpdatedAsCreated'
    OBVIOUS
  <2>1. [Next]_vars BY DEF TrackedNext
  <2>2. TrackUpdates BY DEF TrackedNext, TrackUpdates, vars, tables, rvVars
  <2> QED BY <2>1, <2>2, UpdatedStep
<1> QED
  BY <1>1, <1>2, TrackedIsWorkflow, TypeInvariant, SerialInvariant, PTL DEF TrackedSpec

\* What the committee is given to approve is the newest curation of each item, in
\* every state of requests that are served one at a time, even when they are half
\* way or were cut short: the row found by updated_at is the row found by
\* created_at.
THEOREM ApprovalsAreLatest ==
    ASSUME MaxInFlight = 1
    PROVE  TrackedSpec => [](\A c \in collections :
                                findDBApprovalData(c) = findByCollectionId(c))
<1>1. ReadsInv /\ SerialInv /\ UpdatedAsCreated =>
          \A c \in collections : findDBApprovalData(c) = findByCollectionId(c)
  BY ApprovalRows DEF SerialInv, TablesHold
<1> QED
  BY <1>1, TrackedIsWorkflow, ReadsInvariant, SerialInvariant, UpdatesInvariant, PTL

\* While no edit is cut short, what is under review is what the item holds too:
\* the inductive invariant behind the approval data.
THEOREM ApprovalsInvariant ==
    ASSUME MaxInFlight = 1, "crash" \notin Faults
    PROVE  TrackedSpec => []ApprovalsInv
<1>1. Init => ContentInv
  BY DEF Init, TablesInit, PubInit, ItemsInit, ReviewInit, ContentInv,
     OpenIsCurrent, HashesAreCurrent, PublishersInFlight, EditorsInFlight,
     ReviewersInFlight, SubmittersInFlight
<1>2. TypeInv /\ SerialInv /\ ContentInv /\ [Next]_vars => ContentInv'
  BY ContentStep
<1>3. Spec => []ContentInv
  BY <1>1, <1>2, TypeInvariant, SerialInvariant, PTL DEF Spec
<1>4. UpdatedAsCreated /\ ContentInv => ApprovalsInv BY DEF ApprovalsInv, ContentInv
<1> QED BY <1>3, <1>4, TrackedIsWorkflow, UpdatesInvariant, PTL

\* The committee approves what it reviews (ApprovalDataIsNewest), when requests
\* are served one at a time and no edit is cut short: the curation updated last,
\* which getApprovalData takes, is the one every other read takes, and an edit
\* has been carried over to it if it is under review.
THEOREM ApprovalsAreNewest ==
    ASSUME MaxInFlight = 1, "crash" \notin Faults
    PROVE  TrackedSpec => []ApprovalDataIsNewest
<1>1. ReadsInv /\ SerialInv /\ ApprovalsInv => ApprovalDataIsNewest
  BY ApprovalOn DEF ApprovalDataIsNewest, ApprovalsInv, SerialInv, TablesHold
<1> QED
  BY <1>1, TrackedIsWorkflow, ReadsInvariant, SerialInvariant, ApprovalsInvariant, PTL

============================================================================
