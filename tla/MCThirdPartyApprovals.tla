----------------------- MODULE MCThirdPartyApprovals ------------------------
(***************************************************************************)
(* Instances of the third party workflow with its approval data for TLC:   *)
(* two items in one collection and one in another, of one third party.     *)
(***************************************************************************)
EXTENDS ThirdPartyApprovals, TLC

CONSTANTS i1, i2, i3, c1, c2

MCItems == {i1, i2, i3}
MCCollectionOf == (i1 :> c1) @@ (i2 :> c1) @@ (i3 :> c2)
MCIdRank == (i1 :> 2) @@ (i2 :> 1) @@ (i3 :> 3)

=============================================================================
