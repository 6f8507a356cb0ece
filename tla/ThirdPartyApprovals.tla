------------------------- MODULE ThirdPartyApprovals ------------------------
(***************************************************************************)
(* The approval data of a third party collection (getApprovalData): what   *)
(* the committee signs on chain and uploads to the content server.         *)
(*                                                                         *)
(* It takes the curation of an item that was updated last, while every     *)
(* other read takes the one created last.  The workflow is extended with   *)
(* the order of updated_at, which only matters within an item.  A request  *)
(* reads new Date() and writes it in two steps: the order of the writes is *)
(* that of the dates when requests are served one at a time, which is what *)
(* is checked and proved of it (MaxInFlight = 1).                          *)
(***************************************************************************)
EXTENDS ThirdPartyReads

CONSTANT MaxRequests    \* bound on the requests sent

ASSUME MaxRequestsAssumption == MaxRequests \in Nat

VARIABLE updatedBefore  \* of each item, who wrote which curation before which,
                        \* by updated_at

writersOf(i) == {cur.by : cur \in {cur \in itemCurations : cur.item = i}}

\* updateById sets updated_at; carrying an edit over to a curation does not.
decided(i) ==
    {rvBy[v] : v \in {v \in Reviewers :
        /\ rvPc[v] = "update" /\ rvPc'[v] = "done"
        /\ rvTarget[v] = i}}

\* A curation is inserted with the updated_at of its created_at.
touched(i) == decided(i) \cup (writersOf(i)' \ writersOf(i))

reordered(i) ==
    {pair \in writersOf(i)' \X writersOf(i)' :
        /\ pair[1] \notin touched(i)
        /\ pair[2] \in touched(i) \/ pair \in updatedBefore[i]}

TrackUpdates ==
    updatedBefore' = IF itemCurations' = itemCurations /\ rvPc' = rvPc
                     THEN updatedBefore ELSE [i \in Items |-> reordered(i)]

sentRequests ==
    LET sent(pc) == {r \in DOMAIN pc : pc[r] # "idle"}
    IN  Cardinality(sent(pubPc)) + Cardinality(sent(edPc)) + Cardinality(sent(rmPc))
        + Cardinality(sent(rvPc)) + Cardinality(sent(sbPc))

TrackedInit == Init /\ updatedBefore = [i \in Items |-> {}]
TrackedNext == Next /\ TrackUpdates /\ sentRequests' <= MaxRequests
TrackedSpec == TrackedInit /\ [][TrackedNext]_<<vars, updatedBefore>>

-----------------------------------------------------------------------------

\* Item.findDBApprovalDataByCollectionId: DISTINCT ON ... ORDER BY updated_at DESC
findDBApprovalData(c) ==
    {cur \in itemCurations :
        /\ cur.item \in itemsOf(c)
        /\ \A by \in Requests : <<cur.by, by>> \notin updatedBefore[cur.item]}

getApprovalData(roles, c) ==
    LET rows == findDBApprovalData(c)
        access == approvalDataAccess(roles, c)
    IN  IF access # "ok" THEN failed(access)
        ELSE ok([i \in {cur.item : cur \in rows} |->
                   (CHOOSE cur \in rows : cur.item = i).hash])

\* The committee approves what it reviews, whatever the order of publications,
\* review requests, edits and decisions: the approval data has the hash of the
\* newest curation of each curated item, it is what the item holds unless the
\* listing of the items that are not synced shows the item, and what the item
\* holds for every item the listing of the pending shows.
ApprovalDataIsNewest ==
    Quiescent =>
        \A c \in collections :
            LET approval == getApprovalData(reviewer, c)
                listed(status, sync) ==
                    selectByCollectionIds({c}, statusOf(status), sync, FALSE)
                current == {i \in DOMAIN approval.body : approval.body[i] = contentHash[i]}
            IN  isOk(approval) =>
                    /\ {<<i, approval.body[i]>> : i \in DOMAIN approval.body}
                       = {<<cur.item, cur.hash>> : cur \in
                             getCollectionItemCurations(reviewer, c, {}).body}
                    /\ listed("any", "yes") \cup listed("pending", "any") \subseteq current
                    /\ listed("any", "no") \cap current = {}

-----------------------------------------------------------------------------
(* The inductive invariants behind the theorem, of requests that are       *)
(* served one at a time.                                                   *)

\* The curations of an item were updated in the order they were created in.
UpdatedAsCreated ==
    \A i \in Items : \A x, y \in Requests :
        <<x, y>> \in updatedBefore[i] <=>
            \E a, b \in itemCurations :
                a.by = x /\ b.by = y /\ a.item = i /\ b.item = i /\ a.created < b.created

\* An open review is of the content of its item, unless the edit that wrote the
\* content has still to carry it over.
OpenIsCurrent ==
    \A cur \in itemCurations :
        cur.status = "pending" =>
            \/ cur.hash = contentHash[cur.item]
            \/ \E e \in Editors : edPc[e] = "sync" /\ edCall[e].item = cur.item

\* What the request being served has read of the content of an item.
HashesAreCurrent ==
    /\ \A p \in PublishersInFlight :
           pubPc[p] \in {"pending", "cheque", "curations"} =>
               \A i \in dbItems(p) : pubItems[p][i] = contentHash[i]
    /\ \A e \in EditorsInFlight :
           /\ ~edCall[e].existed => edPc[e] = "upsert" /\ edCall[e].item \notin items
           /\ edPc[e] = "sync" => edCall[e].hash = contentHash[edCall[e].item]
    /\ \A v \in ReviewersInFlight :
           rvPc[v] = "update" /\ rvTarget[v] \in Items =>
               rvHash[v] = contentHash[rvTarget[v]]
    /\ \A s \in SubmittersInFlight :
           sbPc[s] = "insert" /\ sbTarget[s] \in Items =>
               sbHash[s] = contentHash[sbTarget[s]]

ApprovalsInv == UpdatedAsCreated /\ OpenIsCurrent /\ HashesAreCurrent

=============================================================================
