-------------------------- MODULE MCCommitteeCache --------------------------
(***************************************************************************)
(* Instances of the cache of the committee for TLC.                        *)
(***************************************************************************)
EXTENDS CommitteeCache

CONSTANTS r1, r2, r3

\* Any two of the requests may have an answer on its way while the third asks.
MCThreeRequests == {r1, r2, r3}

=============================================================================
