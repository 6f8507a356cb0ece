------------------------ MODULE ThirdPartyRefinement ------------------------
(***************************************************************************)
(* The third party workflow implements Publication: what a publication is  *)
(* at each stage of its request, read off the tables it writes to.         *)
(***************************************************************************)
EXTENDS ThirdPartyWorkflow

statusOfStage(stage) ==
    CASE stage \in {"forum", "link", "done", "unposted"} -> "stored"
      [] stage = "rejected" -> "refused"
      [] stage \in {"dirty", "crashed"} -> "broken"
      [] OTHER -> "open"

curatedBy(p) == {cur.item : cur \in itemCurationsOf(p)}
paidBy(p) == {cheque.qty : cheque \in chequesOf(p)}

statusBar == [p \in Publishers |-> statusOfStage(pubPc[p])]
wantedBar == [p \in Publishers |-> dbItems(p)]
curatedBar == [p \in Publishers |-> curatedBy(p)]
paidBar == [p \in Publishers |-> paidBy(p)]
reviewableBar == {p \in Publishers : collectionCurationsOf(p) # {}}
deletedBar == {i \in Items : DeletedItem(i)}

promised == INSTANCE Publication WITH
    status <- statusBar,
    wanted <- wantedBar,
    curated <- curatedBar,
    paid <- paidBar,
    reviewable <- reviewableBar,
    deleted <- deletedBar

\* Every publication is stored whole or refused without a trace, in whichever
\* order its statements, those of other requests and the failures come: the
\* checks, the inserts and the rollback of publishTPCollection implement the
\* steps of Publication, and no edit, delete or review of other requests does
\* anything to it that Publication does not allow.
PublicationIsKept == promised!Spec

-----------------------------------------------------------------------------
(* What the proof that it does rests on, besides the ledger.               *)

\* A delete is of an item or of a collection, as its stage says.
TargetsByStage ==
    \A d \in Removers :
        /\ rmPc[d] = "item" => rmTarget[d] \in Items
        /\ rmPc[d] \in {"collection", "items"} => rmTarget[d] \in Collections

\* The foreign key of item_curations.
CuratedItemsExist == CuratedItems \subseteq items

\* While its curations are stored, a publication has paid for what it found and
\* nothing else, and what it has stored already is there, unless it was deleted
\* or one of its creates failed.
BatchOf(p) ==
    /\ pubPc[p] \in BeforeCheque => ~pubError[p]
    /\ pubPc[p] \in {"curations", "collection"} =>
           paidBy(p) = {Cardinality(dbItems(p))}
    /\ pubPc[p] = "collection" => ~pubError[p] /\ pubTodo[p] = {}
    /\ pubPc[p] \in {"curations", "collection"} /\ ~pubError[p] =>
           dbItems(p) \ (pubTodo[p] \cup curatedBy(p)) \subseteq deletedBar

BatchByStage == \A p \in Publishers : BatchOf(p)

=============================================================================
