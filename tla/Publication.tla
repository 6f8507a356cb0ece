----------------------------- MODULE Publication ----------------------------
(***************************************************************************)
(* What publishing third party items promises, whatever the server has to  *)
(* do for it (CollectionService.publishTPCollection): a publication is     *)
(* stored as a whole, paid for and open to review, or refused without a    *)
(* trace.  Until then it may only curate what it has paid for; afterwards  *)
(* only deletes touch what it stored.                                      *)
(***************************************************************************)
EXTENDS FiniteSets, Naturals

CONSTANTS Publishers, Items

VARIABLES
    status,         \* open, stored, refused, or broken by a crash
    wanted,         \* items each publication is for
    curated,        \* items it has curations of
    paid,           \* how many items it has paid for, a set of at most one number
    reviewable,     \* publications the committee can review
    deleted         \* items that were deleted at some time

vars == <<status, wanted, curated, paid, reviewable, deleted>>

Init ==
    /\ status = [p \in Publishers |-> "open"]
    /\ wanted = [p \in Publishers |-> {}]
    /\ curated = [p \in Publishers |-> {}]
    /\ paid = [p \in Publishers |-> {}]
    /\ reviewable = {}
    /\ deleted = {}

Choose(p) ==
    /\ status[p] = "open" /\ paid[p] = {} /\ curated[p] = {}
    /\ \E chosen \in SUBSET Items : wanted' = [wanted EXCEPT ![p] = chosen]
    /\ UNCHANGED <<status, curated, paid, reviewable, deleted>>

Pay(p) ==
    /\ status[p] = "open" /\ paid[p] = {} /\ curated[p] = {}
    /\ paid' = [paid EXCEPT ![p] = {Cardinality(wanted[p])}]
    /\ UNCHANGED <<status, wanted, curated, reviewable, deleted>>

Curate(p) ==
    /\ status[p] = "open" /\ paid[p] # {}
    /\ \E i \in wanted[p] : curated' = [curated EXCEPT ![p] = @ \cup {i}]
    /\ UNCHANGED <<status, wanted, paid, reviewable, deleted>>

\* All it wanted was curated, but for what was deleted meanwhile.
Commit(p) ==
    /\ status[p] = "open"
    /\ paid[p] = {Cardinality(wanted[p])}
    /\ wanted[p] \ curated[p] \subseteq deleted
    /\ status' = [status EXCEPT ![p] = "stored"]
    /\ reviewable' = reviewable \cup {p}
    /\ UNCHANGED <<wanted, curated, paid, deleted>>

Refund(p) ==
    /\ status[p] = "open"
    /\ paid' = [paid EXCEPT ![p] = {}]
    /\ UNCHANGED <<status, wanted, curated, reviewable, deleted>>

Refuse(p) ==
    /\ status[p] = "open"
    /\ status' = [status EXCEPT ![p] = "refused"]
    /\ wanted' = [wanted EXCEPT ![p] = {}]
    /\ curated' = [curated EXCEPT ![p] = {}]
    /\ paid' = [paid EXCEPT ![p] = {}]
    /\ UNCHANGED <<reviewable, deleted>>

\* The process died or a rollback failed: what was written may stay.
Break(p) ==
    /\ status[p] \in {"open", "stored"}
    /\ status' = [status EXCEPT ![p] = "broken"]
    /\ \E chosen \in {wanted[p], {}} : wanted' = [wanted EXCEPT ![p] = chosen]
    /\ \E left \in {curated[p], {}} : curated' = [curated EXCEPT ![p] = left]
    /\ UNCHANGED <<paid, reviewable, deleted>>

\* Items are deleted with their curations, a collection with its review.
Delete ==
    /\ \E gone \in SUBSET Items :
           /\ deleted' = deleted \cup gone
           /\ curated' = [p \in Publishers |-> curated[p] \ gone]
    /\ reviewable' \subseteq reviewable
    /\ UNCHANGED <<status, wanted, paid>>

Next ==
    \/ \E p \in Publishers :
           \/ Choose(p) \/ Pay(p) \/ Curate(p) \/ Commit(p)
           \/ Refund(p) \/ Refuse(p) \/ Break(p)
    \/ Delete

Spec == Init /\ [][Next]_vars

=============================================================================
