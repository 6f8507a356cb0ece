------------------------- MODULE ThirdPartyWorkflow -------------------------
(***************************************************************************)
(* The third party workflow: publish requests, edits, deletes, reviews and *)
(* review requests served at the same time over the same tables.           *)
(***************************************************************************)
EXTENDS ThirdPartyPublication, ThirdPartyItems, CurationReview

CONSTANT MaxInFlight    \* bound on the requests being served at a time

ASSUME RequestsAssumption == Publishers \cap Submitters = {}

vars == <<tables, clock, pubVars, edVars, rmVars, rvVars, sbVars>>

otherThanPub == <<edVars, rmVars, rvVars, sbVars>>
otherThanEd == <<pubVars, rmVars, rvVars, sbVars>>
otherThanRm == <<pubVars, edVars, rvVars, sbVars>>
otherThanRv == <<pubVars, edVars, rmVars, sbVars>>
otherThanSb == <<pubVars, edVars, rmVars, rvVars>>

PublishersInFlight == {p \in Publishers : pubPc[p] \notin PubFinal \cup {"idle"}}
EditorsInFlight == {e \in Editors : edPc[e] \in {"upsert", "sync"}}
RemoversInFlight == {d \in Removers : rmPc[d] \in {"item", "collection", "items"}}
ReviewersInFlight == {v \in Reviewers : rvPc[v] \in {"touch", "read", "update"}}
SubmittersInFlight == {s \in Submitters : sbPc[s] \in {"read", "insert"}}

InFlight == Cardinality(PublishersInFlight) + Cardinality(EditorsInFlight)
            + Cardinality(RemoversInFlight) + Cardinality(ReviewersInFlight)
            + Cardinality(SubmittersInFlight)

Quiescent == /\ PublishersInFlight = {}
             /\ EditorsInFlight = {}
             /\ RemoversInFlight = {}
             /\ ReviewersInFlight = {}
             /\ SubmittersInFlight = {}

Init == TablesInit /\ PubInit /\ ItemsInit /\ ReviewInit

Start ==
    /\ InFlight < MaxInFlight
    /\ \/ \E p \in Publishers : StartPublish(p) /\ UNCHANGED otherThanPub
       \/ \E e \in Editors : StartUpsert(e) /\ UNCHANGED otherThanEd
       \/ \E d \in Removers : StartDeleteItem(d) /\ UNCHANGED otherThanRm
       \/ \E d \in Removers : StartDeleteCollection(d) /\ UNCHANGED otherThanRm
       \/ \E v \in Reviewers : StartReview(v) /\ UNCHANGED otherThanRv
       \/ \E s \in Submitters : StartSubmit(s) /\ UNCHANGED otherThanSb

Step ==
    \/ \E p \in Publishers : PublishStep(p) /\ UNCHANGED otherThanPub
    \/ \E e \in Editors : EditStep(e) /\ UNCHANGED otherThanEd
    \/ \E d \in Removers : RemoveStep(d) /\ UNCHANGED otherThanRm
    \/ \E v \in Reviewers : ReviewStep(v) /\ UNCHANGED otherThanRv
    \/ \E s \in Submitters : SubmitStep(s) /\ UNCHANGED otherThanSb

Crash ==
    /\ mayFail("crash")
    /\ \/ \E p \in Publishers : CrashPublish(p) /\ UNCHANGED otherThanPub
       \/ \E e \in Editors : AbortUpsert(e) /\ UNCHANGED otherThanEd
       \/ \E d \in Removers : AbortDelete(d) /\ UNCHANGED otherThanRm

Next == Start \/ Step \/ Crash

Spec == Init /\ [][Next]_vars

\* The server goes on as long as it has accepted requests: promises settle.  All
\* of them come to their turn, since a request is sent once and has an end.
Fairness == WF_vars(Step)

FairSpec == Spec /\ Fairness

-----------------------------------------------------------------------------
(* Properties.                                                             *)

\* Every variable keeps the type its column or local has.
TypeOK == TablesTypeOK /\ PubTypeOK /\ ItemsTypeOK /\ ReviewTypeOK

chequesOf(p) == {cheque \in cheques : cheque.by = p}
itemCurationsOf(p) == {cur \in itemCurations : cur.by = p}
collectionCurationsOf(p) == {cur \in collectionCurations : cur.by = p}
Settled(p) == pubPc[p] \in {"done", "unposted"}
NoCrash == /\ \A p \in Publishers : pubPc[p] \notin {"dirty", "crashed"}
           /\ \A d \in Removers : rmPc[d] # "crashed"

\* A publish request that was refused, before its first write or after its
\* rollback, leaves no cheque and no curation behind (the catch of
\* publishTPCollection), whatever other requests did to the tables meanwhile.
RefusedLeavesNoTrace ==
    \A p \in Publishers :
        pubPc[p] = "rejected" =>
            /\ chequesOf(p) = {}
            /\ itemCurationsOf(p) = {}
            /\ collectionCurationsOf(p) = {}

\* Unless the rollback of its publication was left half way, each item under
\* review is paid for by the cheque of that publication: a cheque of the
\* collection of the item, for at least as many items as the publication has
\* under review, in every order in which its inserts, other requests, failing
\* statements and a crash may come.
CurationsArePaid ==
    \A p \in Publishers : \A cur \in itemCurationsOf(p) :
        pubPc[p] \notin {"undoCurations", "dirty"} =>
            \E cheque \in chequesOf(p) :
                /\ cheque.collection = CollectionOf[cur.item]
                /\ Cardinality(itemCurationsOf(p)) <= cheque.qty

\* A delete request, of the item or of its collection, ran to its end.
DeletedItem(i) ==
    \E d \in Removers : rmPc[d] = "done" /\ rmTarget[d] \in {i, CollectionOf[i]}

\* Unless the process dies or a rollback fails, an item put under review gets
\* the collection curation PATCH /items/:id/curation needs, or loses its
\* curation again: neither a publication interrupted by an error nor the two
\* steps of a delete leave it under a review nobody can close, as long as no
\* more than two requests are served together.
CuratedBecomesReviewable ==
    \A i \in Items :
        i \in CuratedItems ~>
            \/ i \notin CuratedItems
            \/ \E virtual \in collectionCurations :
                   virtual.collection = CollectionOf[i]
            \/ ~NoCrash

-----------------------------------------------------------------------------
(* The inductive invariants behind the theorems: what the tables hold of a *)
(* publication at each of its stages.                                      *)

BeforeCheque == {"idle", "slots", "items", "pending", "cheque"}

\* Creates are pending for items that were found only, and while the batch of
\* them runs.
TodoWasFound ==
    \A p \in Publishers :
        /\ pubTodo[p] \subseteq dbItems(p)
        /\ pubTodo[p] # {} => pubPc[p] \in {"curations", "crashed"}

\* Up to which stage no row of a publication exists, table by table.
TraceOf(p) ==
    /\ pubPc[p] \in BeforeCheque \cup {"undoCurations", "rejected"} =>
           chequesOf(p) = {}
    /\ pubPc[p] \in BeforeCheque \cup {"rejected"} => itemCurationsOf(p) = {}
    /\ pubPc[p] \in BeforeCheque \cup {"curations", "collection", "undoCheque",
                                      "undoCurations", "undoRest", "rejected"} =>
           collectionCurationsOf(p) = {}

TraceByStage == \A p \in Publishers : TraceOf(p)

\* The cheque of a publication is for the items it found, and it has at most
\* one curation for each of them, none for one whose create is still to run.
hasPaid(p) ==
    \E cheque \in chequesOf(p) :
        /\ cheque.qty = Cardinality(dbItems(p))
        /\ \A i \in dbItems(p) : CollectionOf[i] = cheque.collection

LedgerOf(p) ==
    /\ pubPc[p] \in {"pending", "cheque"} =>
           /\ pubCall[p].qty = Cardinality(dbItems(p))
           /\ \A i \in dbItems(p) : CollectionOf[i] = pubCall[p].collection
    /\ pubPc[p] \in {"curations", "collection"} => hasPaid(p)
    /\ pubPc[p] \notin {"undoCurations", "dirty"} =>
           itemCurationsOf(p) = {} \/ hasPaid(p)
    /\ \A cur \in itemCurationsOf(p) :
           /\ pubPc[p] # "dirty" => cur.item \in dbItems(p) \ pubTodo[p]
           /\ \A other \in itemCurationsOf(p) : other.item = cur.item => other = cur

LedgerByStage == \A p \in Publishers : LedgerOf(p)

-----------------------------------------------------------------------------
(* Properties that hold when requests are served one at a time.            *)

\* The third party never has more items curated than slots bought
\* (getThirdPartyAvailableSlots), over any sequence of publications, review
\* requests, edits and deletes.
SlotsRespected == Cardinality(CuratedItems) <= MaxItems

\* An item never has two review requests open (publishTPCollection and
\* insertCuration both refuse to open a second one).
OnePendingPerItem ==
    \A a, b \in itemCurations :
        a.item = b.item /\ a.status = "pending" /\ b.status = "pending" => a = b

\* An item of a stored publication is never deleted, neither by itself nor with
\* its collection (deleteThirdPartyItem, deleteCollection).
PublishedIsKept ==
    \A p \in Publishers :
        Settled(p) => \A i \in dbItems(p) :
            \E cur \in itemCurationsOf(p) : cur.item = i

\* A collection gets a second forum topic only when the link to the first was
\* lost (upsertThirdPartyCollectionForumPost).
OneTopicPerCollection ==
    \A p, q \in topics :
        p # q /\ pubCall[p].collection = pubCall[q].collection =>
            "unposted" \in {pubPc[p], pubPc[q]}

\* No curation is decided on once a later one exists for the same item: the
\* latest by created_at is the one under review.
OnlyLatestChangesStatus ==
    [][\A cur \in itemCurations, new \in itemCurations' :
          /\ cur.by = new.by
          /\ cur.item = new.item
          /\ cur.status # new.status
          => \A other \in itemCurations :
                 other.item = cur.item => other.created <= cur.created]_vars

-----------------------------------------------------------------------------
(* What the documentation says and the code does not do.                   *)

\* "Curations store content_hash at approval time": the hash of a curation that
\* is and stays approved changes only with a PATCH that approves it again.
ApprovedHashIsFixed ==
    [][\A cur \in itemCurations, new \in itemCurations' :
          /\ cur.by = new.by
          /\ cur.item = new.item
          /\ {cur.status, new.status} = {"approved"}
          /\ cur.hash # new.hash
          => \E v \in Reviewers :
                 rvPc[v] = "update" /\ rvBy[v] = cur.by /\ rvStatus[v] = "approved"]_vars

=============================================================================
