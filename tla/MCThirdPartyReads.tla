------------------------- MODULE MCThirdPartyReads --------------------------
(***************************************************************************)
(* Instances of the reads of third party collections, and of the uploads   *)
(* of files, those of their items among them, for TLC.                     *)
(***************************************************************************)
EXTENDS ThirdPartyReads, ThirdPartyRefinement, Uploads, TLC

CONSTANTS i1, i2, c1, p1, p2

MCItems == {i1, i2}
MCCollectionOf == (i1 :> c1) @@ (i2 :> c1)
MCIdRank == (i1 :> 1) @@ (i2 :> 2)

\* Rows and files share nothing, so that an interleaving of the ones with the
\* others shows no more than each of them: a behaviour keeps to either.  That of
\* the uploads has no items.
MCNext ==
    \/ UploadInit /\ Next /\ UNCHANGED uploadVars
    \/ items = {} /\ Init /\ UploadNext /\ UNCHANGED vars
MCSpec == Init /\ UploadInit /\ [][MCNext]_<<vars, uploadVars>>

MCSymmetry == Permutations({p1, p2})

=============================================================================
