--------------------------- MODULE CurationReview ---------------------------
(***************************************************************************)
(* The review of curations (Curation.router.ts, Curation.service.ts) for   *)
(* third party collections:                                                *)
(*   - reviewers:  PATCH /items/:id/curation and                           *)
(*                 PATCH /collections/:id/curation (updateCuration);       *)
(*   - submitters: POST /items/:id/curation and                            *)
(*                 POST /collections/:id/curation (insertCuration).        *)
(*                                                                         *)
(* The target of a request is an item or a collection.  Every caller has   *)
(* access to it; reviewers outside the committee can only move a curation  *)
(* back to pending.  Assignees and updated_at are left out.                *)
(***************************************************************************)
EXTENDS CurationTables

CONSTANTS Reviewers, Committee, Submitters

ASSUME CommitteeAssumption == Committee \subseteq Reviewers
ASSUME SubmittersAssumption == Submitters \subseteq Requests

VARIABLES
    rvPc,       \* stage of each reviewer
    rvTarget,   \* item or collection under review
    rvBy,       \* the request that created the curation getLatestById returned
    rvStatus,   \* status of the body, NoStatus when it has none
    rvHash,     \* local_content_hash of the item, read before the update
    sbPc,       \* stage of each submitter
    sbTarget,   \* item or collection submitted
    sbHash,     \* local_content_hash of the item
    sbCreated   \* created_at

rvLocals == <<rvTarget, rvBy, rvStatus, rvHash>>
sbLocals == <<sbTarget, sbHash, sbCreated>>
rvVars == <<rvPc, rvLocals>>
sbVars == <<sbPc, sbLocals>>

NoStatus == "unset"

RvStages == {"idle", "touch", "read", "update", "done", "refused"}
SbStages == {"idle", "read", "insert", "done", "refused"}

ReviewTypeOK ==
    /\ rvPc \in [Reviewers -> RvStages]
    /\ rvTarget \in [Reviewers -> Items \cup Collections]
    /\ rvBy \in [Reviewers -> Requests]
    /\ rvStatus \in [Reviewers -> CurationStatus \cup {NoStatus}]
    /\ rvHash \in [Reviewers -> Hashes]
    /\ sbPc \in [Submitters -> SbStages]
    /\ sbTarget \in [Submitters -> Items \cup Collections]
    /\ sbHash \in [Submitters -> Hashes]
    /\ sbCreated \in [Submitters -> Nat]

ReviewInit ==
    /\ rvPc = [v \in Reviewers |-> "idle"]
    /\ rvStatus = [v \in Reviewers |-> "pending"]
    /\ sbPc = [s \in Submitters |-> "idle"]
    /\ sbCreated = [s \in Submitters |-> 0]
    /\ rvTarget = [v \in Reviewers |-> someItem]
    /\ rvBy = [v \in Reviewers |-> someRequest]
    /\ rvHash = [v \in Reviewers |-> someHash]
    /\ sbTarget = [s \in Submitters |-> someItem]
    /\ sbHash = [s \in Submitters |-> someHash]

rvGoto(v, stage) == rvPc' = [rvPc EXCEPT ![v] = stage]
sbGoto(s, stage) == sbPc' = [sbPc EXCEPT ![s] = stage]

\* The request is answered; what it had read is forgotten.
rvEnd(v, stage) ==
    /\ rvGoto(v, stage)
    /\ rvTarget' = [rvTarget EXCEPT ![v] = someItem]
    /\ rvBy' = [rvBy EXCEPT ![v] = someRequest]
    /\ rvStatus' = [rvStatus EXCEPT ![v] = "pending"]
    /\ rvHash' = [rvHash EXCEPT ![v] = someHash]
sbEnd(s, stage) ==
    /\ sbGoto(s, stage)
    /\ sbTarget' = [sbTarget EXCEPT ![s] = someItem]
    /\ sbHash' = [sbHash EXCEPT ![s] = someHash]
    /\ sbCreated' = [sbCreated EXCEPT ![s] = 0]

\* hasAccess: the collection is found and, being a third party one, is merged
\* with the last curation of its items, which must exist.
canBeMerged(c) == c \in collections /\ existsByCollectionId(c)

isReviewable(t) ==
    \/ t \in items /\ canBeMerged(CollectionOf[t])
    \/ t \in Collections /\ canBeMerged(t)

getLatestById(t) == IF t \in Items THEN latestItemCurations(t)
                                   ELSE latestCollectionCurations(t)

-----------------------------------------------------------------------------
(* Reviewers.                                                              *)

\* The curations an update may be about, none when it is refused.
updatable(v, t, status) ==
    {cur \in getLatestById(t) :
        /\ isReviewable(t)
        /\ status \in {"approved", "rejected"} => v \in Committee}

\* updateItemCuration and updateCollectionCuration.
StartReview(v) ==
    /\ rvPc[v] = "idle"
    /\ \E t \in Items \cup Collections, status \in CurationStatus \cup {NoStatus} :
           /\ \E cur \in updatable(v, t, status) : rvBy' = [rvBy EXCEPT ![v] = cur.by]
           /\ rvTarget' = [rvTarget EXCEPT ![v] = t]
           /\ rvStatus' = [rvStatus EXCEPT ![v] = status]
           /\ rvGoto(v, IF t \in Items THEN "touch" ELSE "update")
    /\ UNCHANGED <<tables, clock, rvHash>>

\* CollectionCuration.updateByItemId: refused when it updates no row.
TouchCollectionCuration(v) ==
    LET touched == {cur \in collectionCurations :
                       /\ rvTarget[v] \in items
                       /\ cur.collection = CollectionOf[rvTarget[v]]}
    IN  /\ rvPc[v] = "touch"
        /\ \/ touched = {} /\ rvEnd(v, "refused")
           \/ touched # {} /\ rvGoto(v, "read") /\ UNCHANGED rvLocals
        /\ UNCHANGED <<tables, clock>>

\* getItemCurationContentHashAndMappingCompletion
ReadReviewedItem(v) ==
    /\ rvPc[v] = "read"
    /\ \/ /\ rvTarget[v] \in items
          /\ rvHash' = [rvHash EXCEPT ![v] = contentHash[rvTarget[v]]]
          /\ rvGoto(v, "update")
          /\ UNCHANGED <<rvTarget, rvBy, rvStatus>>
       \/ /\ rvTarget[v] \notin items
          /\ rvEnd(v, "refused")
    /\ UNCHANGED <<tables, clock>>

\* fieldsToUpdate: a PATCH without a status (it sets the assignee) keeps the
\* status and takes the hash all the same.
decidedStatus(v, cur) == IF rvStatus[v] = NoStatus THEN cur.status ELSE rvStatus[v]

decidedItem(v, cur) ==
    IF cur.by = rvBy[v] /\ cur.item = rvTarget[v]
    THEN [cur EXCEPT !.status = decidedStatus(v, cur), !.hash = rvHash[v]] ELSE cur

decidedCollection(v, cur) ==
    IF cur.by = rvBy[v] /\ cur.collection = rvTarget[v]
    THEN [cur EXCEPT !.status = decidedStatus(v, cur)] ELSE cur

\* updateById: the row may be gone, and need not be the latest any more.
UpdateCuration(v) ==
    /\ rvPc[v] = "update"
    /\ itemCurations' = {decidedItem(v, cur) : cur \in itemCurations}
    /\ collectionCurations' = {decidedCollection(v, cur) : cur \in collectionCurations}
    /\ rvEnd(v, "done")
    /\ UNCHANGED <<collections, items, contentHash, forumId, cheques, clock>>

ReviewStep(v) ==
    TouchCollectionCuration(v) \/ ReadReviewedItem(v) \/ UpdateCuration(v)

-----------------------------------------------------------------------------
(* Submitters.                                                             *)

\* An item has to have been curated before; the latest curation, if any, must
\* not be pending.
mayBeSubmitted(t) ==
    /\ isReviewable(t)
    /\ t \in Items => getLatestById(t) # {}
    /\ \A cur \in getLatestById(t) : cur.status # "pending"

\* insertItemCuration and insertCollectionCuration.
StartSubmit(s) ==
    /\ sbPc[s] = "idle"
    /\ \E t \in Items \cup Collections :
           /\ mayBeSubmitted(t)
           /\ sbTarget' = [sbTarget EXCEPT ![s] = t]
           /\ sbGoto(s, IF t \in Items THEN "read" ELSE "insert")
    /\ sbCreated' = [sbCreated EXCEPT ![s] = clock]
    /\ clock' = clock + 1
    /\ UNCHANGED <<tables, sbHash>>

ReadSubmittedItem(s) ==
    /\ sbPc[s] = "read"
    /\ \/ /\ sbTarget[s] \in items
          /\ sbHash' = [sbHash EXCEPT ![s] = contentHash[sbTarget[s]]]
          /\ sbGoto(s, "insert")
          /\ UNCHANGED <<sbTarget, sbCreated>>
       \/ /\ sbTarget[s] \notin items
          /\ sbEnd(s, "refused")
    /\ UNCHANGED <<tables, clock>>

\* The insert fails on its foreign key when the target was deleted meanwhile.
InsertCuration(s) ==
    LET t == sbTarget[s]
    IN  /\ sbPc[s] = "insert"
        /\ \/ /\ t \in items
              /\ itemCurations' = itemCurations \cup
                     {[by |-> s, item |-> t, status |-> "pending",
                       hash |-> sbHash[s], created |-> sbCreated[s]]}
              /\ sbEnd(s, "done")
              /\ UNCHANGED collectionCurations
           \/ /\ t \in collections
              /\ collectionCurations' = collectionCurations \cup
                     {[by |-> s, collection |-> t, status |-> "pending",
                       created |-> sbCreated[s]]}
              /\ sbEnd(s, "done")
              /\ UNCHANGED itemCurations
           \/ /\ t \notin items \cup collections
              /\ sbEnd(s, "refused")
              /\ UNCHANGED <<itemCurations, collectionCurations>>
        /\ UNCHANGED <<collections, items, contentHash, forumId, cheques, clock>>

SubmitStep(s) == ReadSubmittedItem(s) \/ InsertCuration(s)

=============================================================================
