----------------------- MODULE MCStandardCollections ------------------------
(***************************************************************************)
(* Instances of the standard collections for TLC.                          *)
(***************************************************************************)
EXTENDS StandardReads

CONSTANTS c1, c2, i1, i2, alice, bob, d1, d2, common, epic, r1, r2

\* Two draft collections of alice; the first has one item.
MCStoredCollections ==
    [c \in {c1, c2} |-> [owner |-> alice, lock |-> "none", data |-> d1]]
MCStoredItems ==
    (i1 :> [owner |-> alice, place |-> c1, chainId |-> None, rarity |-> common,
            created |-> 1])
    @@ (i2 :> None)

\* The first collection alone, with both items.
MCOneCollection == (c1 :> MCStoredCollections[c1])
MCItsItems ==
    (i1 :> MCStoredItems[i1]) @@ (i2 :> [MCStoredItems[i1] EXCEPT !.created = 2])

MCSymmetry == Permutations({r1, r2})

=============================================================================
