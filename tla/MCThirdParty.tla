---------------------------- MODULE MCThirdParty ----------------------------
(***************************************************************************)
(* Instances of the third party workflow for TLC: two items in one         *)
(* collection and one in another, all of the same third party.             *)
(***************************************************************************)
EXTENDS ThirdPartyRefinement, TLC

CONSTANTS i1, i2, i3, c1, c2, p1, p2

MCItems == {i1, i2, i3}
MCCollectionOf == (i1 :> c1) @@ (i2 :> c1) @@ (i3 :> c2)

MCTwoItems == {i1, i2}
MCTwoItemsCollectionOf == (i1 :> c1) @@ (i2 :> c1)

MCSymmetry == Permutations({p1, p2})

=============================================================================
