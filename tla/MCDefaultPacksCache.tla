------------------------- MODULE MCDefaultPacksCache -------------------------
(***************************************************************************)
(* Instances of the cache of the default asset packs for TLC.              *)
(***************************************************************************)
EXTENDS DefaultPacksCache

\* There are no default asset packs at the second version only.
MCEmptyVersions == {2}

=============================================================================
