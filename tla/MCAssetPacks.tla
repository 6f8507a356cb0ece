---------------------------- MODULE MCAssetPacks ----------------------------
(***************************************************************************)
(* Instances of the asset packs for TLC.                                   *)
(***************************************************************************)
EXTENDS AssetPacks, TLC

CONSTANTS p1, p2, a1, a2, alice, bob, u1, u2

\* Only the first pack is stored, with one asset.
MCOneOwner == (p1 :> alice) @@ (p2 :> NoUser)
MCOnePack == (a1 :> p1) @@ (a2 :> NoPack)

MCSymmetry == Permutations({u1, u2})

=============================================================================
