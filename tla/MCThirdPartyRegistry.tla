------------------------ MODULE MCThirdPartyRegistry ------------------------
(***************************************************************************)
(* Instances of the third party registry for TLC.                          *)
(***************************************************************************)
EXTENDS ThirdPartyRegistry, TLC

MCSymmetry ==
    Permutations(ThirdParties) \cup Permutations(Collections)
    \cup Permutations(Items) \cup Permutations(Suffixes) \cup Permutations(ItemSuffixes)
    \cup Permutations(Requests)

=============================================================================
