-------------------------- MODULE AssetPacks_proofs --------------------------
(***************************************************************************)
(* The packs that have an owner stay his, for any number of packs, assets, *)
(* users and requests, and whatever statements fail.  While requests are   *)
(* served one at a time, packs keep to their limit as well, and packs and  *)
(* assets stay with whoever claimed them first.                            *)
(***************************************************************************)
EXTENDS AssetPacks, FiniteSetTheorems, TLAPS

\* Past the check on the pack it read, an upload of a pack that had an owner
\* is an upload of that owner.
UploadsAreAuthorized ==
    \A u \in UpInFlight : StoredOwner[upPack[u]] # NoUser
        => upUser[u] = StoredOwner[upPack[u]]

Inv == TypeOK /\ StoredPacksAreTheirOwners /\ UploadsAreAuthorized

LEMMA SomePackType == somePack \in Packs /\ someUser \in Users
    BY PacksAssumption, UsersAssumption DEF somePack, someUser

LEMMA InitInv == Init => Inv
<1> SUFFICES ASSUME Init PROVE Inv
    OBVIOUS
<1> USE DEF Init
<1>1. TypeOK
    BY SomePackType, StoredAssumption DEF TypeOK, UpStages, RmStages
<1>2. StoredPacksAreTheirOwners
    BY StoredAssumption, UsersAssumption, PacksAssumption
    DEF StoredPacksAreTheirOwners, assetsOf
<1>3. UploadsAreAuthorized
    BY DEF UploadsAreAuthorized, UpInFlight
<1> QED
    BY <1>1, <1>2, <1>3 DEF Inv

\* Where an upload goes next, its locals keep their type, and an upload still
\* in flight keeps them.
LEMMA GotoType ==
    ASSUME TypeOK, NEW u \in Uploads, NEW stage \in UpStages, upGoto(u, stage)
    PROVE  /\ upPc' \in [Uploads -> UpStages]
           /\ upPack' \in [Uploads -> Packs]
           /\ upUser' \in [Uploads -> Users]
           /\ upAssets' \in [Uploads -> SUBSET Assets]
           /\ upOk' \in [Uploads -> BOOLEAN]
<1>1. CASE stage \in UpFinal
    BY <1>1, SomePackType DEF upGoto, TypeOK
<1>2. CASE stage \notin UpFinal
    BY <1>2 DEF upGoto, TypeOK
<1> QED
    BY <1>1, <1>2

LEMMA GotoAuthorized ==
    ASSUME TypeOK, UploadsAreAuthorized, NEW u \in Uploads, u \in UpInFlight,
           NEW stage \in UpStages, upGoto(u, stage)
    PROVE  UploadsAreAuthorized'
<1> SUFFICES ASSUME NEW v \in UpInFlight', StoredOwner[upPack'[v]] # NoUser
             PROVE  upUser'[v] = StoredOwner[upPack'[v]]
    BY DEF UploadsAreAuthorized
<1>1. v \in Uploads /\ upPc'[v] \notin UpFinal \cup {"idle"}
    BY DEF UpInFlight
<1>2. CASE stage \in UpFinal
    <2>1. v # u
        BY <1>1, <1>2 DEF upGoto, TypeOK
    <2>2. upPc'[v] = upPc[v] /\ upPack'[v] = upPack[v] /\ upUser'[v] = upUser[v]
        BY <1>1, <1>2, <2>1 DEF upGoto, TypeOK
    <2> QED
        BY <1>1, <2>2 DEF UploadsAreAuthorized, UpInFlight
<1>3. CASE stage \notin UpFinal
    <2>1. upPack' = upPack /\ upUser' = upUser
        BY <1>3 DEF upGoto
    <2>2. v \in UpInFlight
        BY <1>1, <1>3 DEF upGoto, UpInFlight, TypeOK
    <2> QED
        BY <2>1, <2>2 DEF UploadsAreAuthorized
<1> QED
    BY <1>2, <1>3

\* A step of an upload that writes no row and goes on only from a stage in
\* flight keeps the invariant.
LEMMA ReadStep ==
    ASSUME Inv, NEW u \in Uploads, u \in UpInFlight, UNCHANGED <<rows, rmVars>>,
           overlapped' \in BOOLEAN,
           NEW stage \in UpStages, upGoto(u, stage),
           upTodo' \in [Uploads -> SUBSET Assets]
    PROVE  Inv'
<1> USE DEF Inv, rows, rmVars
<1>1. TypeOK'
    BY GotoType DEF TypeOK
<1>2. StoredPacksAreTheirOwners'
    BY DEF StoredPacksAreTheirOwners, assetsOf
<1>3. UploadsAreAuthorized'
    BY GotoAuthorized
<1> QED
    BY <1>1, <1>2, <1>3

LEMMA StartUploadInv ==
    ASSUME Inv, NEW u \in Uploads, StartUpload(u), overlapped' \in BOOLEAN
    PROVE  Inv'
<1> USE DEF Inv, rows, rmVars
<1>1. UNCHANGED <<rows, rmVars, upTodo>>
    BY DEF StartUpload
<1>2. StoredPacksAreTheirOwners'
    BY <1>1 DEF StoredPacksAreTheirOwners, assetsOf
<1>3. PICK p \in Packs, user \in Users, body \in SUBSET Assets :
          \/ /\ mayWrite(user, p)
             /\ upPc' = [upPc EXCEPT ![u] = "owners"]
             /\ upPack' = [upPack EXCEPT ![u] = p]
             /\ upUser' = [upUser EXCEPT ![u] = user]
             /\ upAssets' = [upAssets EXCEPT ![u] = body]
             /\ UNCHANGED upOk
          \/ upGoto(u, "refused")
    BY DEF StartUpload, callers
<1>4. CASE upGoto(u, "refused")
    <2>1. "refused" \in UpStages
        BY DEF UpStages
    <2>2. TypeOK'
        BY <1>1, <1>4, <2>1, GotoType DEF TypeOK
    <2>3. UploadsAreAuthorized'
        <3> SUFFICES ASSUME NEW v \in UpInFlight', StoredOwner[upPack'[v]] # NoUser
                     PROVE  upUser'[v] = StoredOwner[upPack'[v]]
            BY DEF UploadsAreAuthorized
        <3>1. v # u
            BY <1>4 DEF upGoto, TypeOK, UpInFlight, UpFinal
        <3>2. upPc'[v] = upPc[v] /\ upPack'[v] = upPack[v] /\ upUser'[v] = upUser[v]
            BY <1>4, <3>1 DEF upGoto, TypeOK, UpInFlight, UpFinal
        <3> QED
            BY <3>2 DEF UploadsAreAuthorized, UpInFlight
    <2> QED
        BY <1>2, <2>2, <2>3
<1>5. CASE /\ mayWrite(user, p)
           /\ upPc' = [upPc EXCEPT ![u] = "owners"]
           /\ upPack' = [upPack EXCEPT ![u] = p]
           /\ upUser' = [upUser EXCEPT ![u] = user]
           /\ upAssets' = [upAssets EXCEPT ![u] = body]
           /\ UNCHANGED upOk
    <2>1. upPc' \in [Uploads -> UpStages]
        BY <1>5 DEF TypeOK, UpStages
    <2>2. /\ upPack' \in [Uploads -> Packs]
          /\ upUser' \in [Uploads -> Users]
          /\ upAssets' \in [Uploads -> SUBSET Assets]
        BY <1>5 DEF TypeOK
    <2>3. TypeOK'
        BY <1>1, <1>5, <2>1, <2>2 DEF TypeOK
    <2>4. UploadsAreAuthorized'
        <3> SUFFICES ASSUME NEW v \in UpInFlight', StoredOwner[upPack'[v]] # NoUser
                     PROVE  upUser'[v] = StoredOwner[upPack'[v]]
            BY DEF UploadsAreAuthorized
        <3>1. CASE v = u
            <4>1. upPack'[v] = p /\ upUser'[v] = user /\ v \in Uploads
                BY <1>5, <3>1 DEF TypeOK
            <4> QED
                BY <1>5, <4>1, StoredAssumption
                DEF mayWrite, stored, StoredPacksAreTheirOwners
        <3>2. CASE v # u
            BY <1>5, <3>2 DEF UploadsAreAuthorized, UpInFlight, TypeOK
        <3> QED
            BY <3>1, <3>2
    <2> QED
        BY <1>2, <2>3, <2>4
<1> QED
    BY <1>3, <1>4, <1>5

LEMMA UploadStepInv ==
    ASSUME Inv, NEW u \in Uploads, UploadStep(u), overlapped' \in BOOLEAN
    PROVE  Inv'
<1> USE DEF Inv
<1>1. CASE CheckOwners(u)
    <2>1. u \in UpInFlight
        BY <1>1 DEF CheckOwners, UpInFlight, UpFinal
    <2> DEFINE stage == IF existsAnyWithADifferentEthAddress(upAssets[u], upUser[u])
                        THEN "refused" ELSE "packs"
    <2>2. stage \in UpStages /\ upGoto(u, stage)
        BY <1>1 DEF CheckOwners, UpStages
    <2> QED
        BY <1>1, <2>1, <2>2, ReadStep DEF CheckOwners, TypeOK
<1>2. CASE CheckPacks(u)
    <2>1. u \in UpInFlight
        BY <1>2 DEF CheckPacks, UpInFlight, UpFinal
    <2> DEFINE stage == IF existsAnyWithADifferentAssetPackId(upAssets[u], upPack[u])
                        THEN "refused" ELSE "current"
    <2>2. stage \in UpStages /\ upGoto(u, stage)
        BY <1>2 DEF CheckPacks, UpStages
    <2> QED
        BY <1>2, <2>1, <2>2, ReadStep DEF CheckPacks, TypeOK
<1>3. CASE ReadPack(u)
    <2>1. u \in UpInFlight
        BY <1>3 DEF ReadPack, UpInFlight, UpFinal
    <2>2. \E stage \in UpStages : upGoto(u, stage)
        BY <1>3 DEF ReadPack, UpStages
    <2> QED
        BY <1>3, <2>1, <2>2, ReadStep DEF ReadPack, TypeOK
<1>4. CASE ReadAssets(u)
    <2>1. u \in UpInFlight
        BY <1>4 DEF ReadAssets, UpInFlight, UpFinal
    <2>2. PICK current \in findByAssetPackId(upPack[u]) :
              /\ upGoto(u, IF hasTooMany(u, current) THEN "tooMany" ELSE "delete")
              /\ upTodo' = [upTodo EXCEPT ![u] = IF hasTooMany(u, current) THEN {}
                                                 ELSE assetIdsToDelete(upAssets[u], current)]
        BY <1>4 DEF ReadAssets
    <2>3. current \subseteq Assets
        BY DEF findByAssetPackId, assetsOf
    <2>4. upTodo' \in [Uploads -> SUBSET Assets]
        BY <2>2, <2>3 DEF TypeOK, assetIdsToDelete
    <2>5. \E stage \in UpStages : upGoto(u, stage)
        BY <2>2 DEF UpStages
    <2> QED
        BY <1>4, <2>1, <2>4, <2>5, ReadStep DEF ReadAssets
<1>5. CASE DeleteAssets(u)
    <2>0. u \in UpInFlight /\ upPc' = [upPc EXCEPT ![u] = "pack"]
          /\ UNCHANGED <<upPack, upUser, upAssets, upOk>>
        BY <1>5 DEF DeleteAssets, UpInFlight, upGoto, UpFinal
    <2> USE <1>5, <2>0 DEF DeleteAssets, rmVars
    <2>1. TypeOK'
        BY DEF TypeOK, UpStages
    <2>2. \A a \in Assets : packOf'[a] \in {packOf[a], NoPack} /\ writer'[a] = writer[a]
        BY DEF TypeOK
    <2>3. StoredPacksAreTheirOwners'
        BY <2>2, PacksAssumption DEF StoredPacksAreTheirOwners, assetsOf
    <2>4. UploadsAreAuthorized'
        BY DEF UploadsAreAuthorized, UpInFlight, TypeOK
    <2> QED
        BY <2>1, <2>3, <2>4
<1>6. CASE UpsertPack(u)
    <2>0. u \in UpInFlight /\ upPc' = [upPc EXCEPT ![u] = "upsert"]
          /\ UNCHANGED <<upPack, upUser, upAssets, upOk>>
        BY <1>6 DEF UpsertPack, UpInFlight, upGoto, UpFinal
    <2> USE <1>6, <2>0 DEF UpsertPack, rmVars
    <2>1. TypeOK'
        BY DEF TypeOK, UpStages
    <2>2. StoredOwner[upPack[u]] # NoUser => upUser[u] = StoredOwner[upPack[u]]
        BY DEF UploadsAreAuthorized
    <2>3. StoredPacksAreTheirOwners'
        BY <2>2 DEF StoredPacksAreTheirOwners, assetsOf, TypeOK
    <2>4. UploadsAreAuthorized'
        BY DEF UploadsAreAuthorized, UpInFlight, TypeOK
    <2> QED
        BY <2>1, <2>3, <2>4
<1>7. CASE UpsertAsset(u)
    <2> USE DEF UpsertAsset, rmVars
    <2>1. PICK a \in upTodo[u] :
              /\ upTodo' = [upTodo EXCEPT ![u] = @ \ {a}]
              /\ \/ /\ packOf' = [packOf EXCEPT ![a] = upPack[u]]
                    /\ writer' = [writer EXCEPT ![a] = upUser[u]]
                    /\ UNCHANGED upOk
                 \/ /\ MayFail
                    /\ upOk' = [upOk EXCEPT ![u] = FALSE]
                    /\ UNCHANGED <<packOf, writer>>
        BY <1>7
    <2>2. a \in Assets
        BY DEF TypeOK
    <2>3. TypeOK'
        <3>1. upTodo' \in [Uploads -> SUBSET Assets]
            BY <2>1 DEF TypeOK
        <3>2. packOf' \in [Assets -> Packs \cup {NoPack}] /\ writer' \in [Assets -> Users]
            BY <2>1, <2>2 DEF TypeOK
        <3>3. upOk' \in [Uploads -> BOOLEAN]
            BY <2>1 DEF TypeOK
        <3> QED
            BY <1>7, <3>1, <3>2, <3>3 DEF TypeOK
    <2>4. StoredOwner[upPack[u]] # NoUser => upUser[u] = StoredOwner[upPack[u]]
        BY <1>7 DEF UploadsAreAuthorized, UpInFlight, UpFinal
    <2>5. StoredPacksAreTheirOwners'
        BY <1>7, <2>1, <2>2, <2>4 DEF StoredPacksAreTheirOwners, assetsOf, TypeOK
    <2>6. UploadsAreAuthorized'
        BY <1>7 DEF UploadsAreAuthorized, UpInFlight
    <2> QED
        BY <2>3, <2>5, <2>6
<1>8. CASE FinishUpload(u)
    <2>1. u \in UpInFlight
        BY <1>8 DEF FinishUpload, UpInFlight, UpFinal
    <2>2. \E stage \in UpStages : upGoto(u, stage)
        BY <1>8 DEF FinishUpload, UpStages
    <2> QED
        BY <1>8, <2>1, <2>2, ReadStep DEF FinishUpload, TypeOK
<1>9. CASE FailUpload(u)
    <2>1. u \in UpInFlight
        BY <1>9 DEF FailUpload, UpInFlight, UpFinal
    <2>2. \E stage \in UpStages : upGoto(u, stage)
        BY <1>9 DEF FailUpload, UpStages
    <2>3. upTodo' \in [Uploads -> SUBSET Assets]
        BY <1>9 DEF FailUpload, TypeOK
    <2> QED
        BY <1>9, <2>1, <2>2, <2>3, ReadStep DEF FailUpload
<1> QED
    BY <1>1, <1>2, <1>3, <1>4, <1>5, <1>6, <1>7, <1>8, <1>9 DEF UploadStep

LEMMA RemovalInv ==
    ASSUME Inv, NEW r \in Removals, StartRemoval(r) \/ Authorize(r) \/ DeletePack(r),
           overlapped' \in BOOLEAN
    PROVE  Inv'
<1> USE DEF Inv, rmGoto
<1>1. TypeOK'
    <2>1. CASE StartRemoval(r)
        BY <2>1, SomePackType DEF StartRemoval, TypeOK, RmStages, rows, upVars
    <2>2. CASE Authorize(r)
        BY <2>2, SomePackType DEF Authorize, TypeOK, RmStages, rows, upVars
    <2>3. CASE DeletePack(r)
        BY <2>3, SomePackType DEF DeletePack, removedIfOwned, TypeOK, RmStages, upVars
    <2> QED
        BY <2>1, <2>2, <2>3
<1>2. UNCHANGED <<owner, packOf, writer, upPc, upPack, upUser>>
    BY DEF StartRemoval, Authorize, DeletePack, rows, upVars
<1>3. StoredPacksAreTheirOwners'
    BY <1>2 DEF StoredPacksAreTheirOwners, assetsOf
<1>4. UploadsAreAuthorized'
    BY <1>2 DEF UploadsAreAuthorized, UpInFlight
<1> QED
    BY <1>1, <1>3, <1>4

\* The authorization of every upload is never lost to another request: the
\* inductive invariant behind OwnersKeepPacks.
THEOREM UploadInvariant == Spec => []Inv
<1>1. Inv /\ [Next]_vars => Inv'
    <2> SUFFICES ASSUME Inv, [Next]_vars PROVE Inv'
        OBVIOUS
    <2>1. CASE Start
        <3>1. overlapped' \in BOOLEAN
            BY <2>1 DEF Start, Inv, TypeOK
        <3> QED
            BY <2>1, <3>1, StartUploadInv, RemovalInv DEF Start
    <2>2. CASE Step
        <3>1. overlapped' \in BOOLEAN
            BY <2>2 DEF Step, Inv, TypeOK
        <3> QED
            BY <2>2, <3>1, UploadStepInv, RemovalInv DEF Step
    <2>3. CASE UNCHANGED vars
        BY <2>3 DEF vars, rows, upVars, rmVars, Inv, TypeOK, UpInFlight,
                    StoredPacksAreTheirOwners, assetsOf, UploadsAreAuthorized
    <2> QED
        BY <2>1, <2>2, <2>3 DEF Next
<1> QED
    BY InitInv, <1>1, PTL DEF Spec

\* A pack that had an owner when the server started keeps him, and holds only
\* assets he wrote, whatever uploads and removals of other users do meanwhile.
THEOREM OwnersKeepPacks == Spec => []StoredPacksAreTheirOwners
<1>1. Inv => StoredPacksAreTheirOwners
    BY DEF Inv
<1> QED
    BY UploadInvariant, <1>1, PTL

\* Every row and every local of a request keeps its type.
THEOREM PacksTypeCorrect == Spec => []TypeOK
<1>1. Inv => TypeOK
    BY DEF Inv
<1> QED
    BY UploadInvariant, <1>1, PTL

-----------------------------------------------------------------------------
(* While requests are served one at a time.                                *)

\* Nobody else is served next to an upload.
OneAtATime ==
    /\ \A u, v \in UpInFlight : u = v
    /\ UpInFlight = {} \/ RmInFlight = {}

\* The limit applies to the packs of ordinary users after the split date.
isLimited(user, p) == user # DefaultUser /\ p \notin Legacy

\* What an upload has checked of its pack, and what it has written of it.
UploadHolds(u) ==
    LET p == upPack[u]
        user == upUser[u]
        body == upAssets[u]
    IN  /\ mayWrite(user, p)
        /\ upPc[u] \notin {"owners", "packs"} =>
               \A a \in body : packOf[a] \in {NoPack, p}
        /\ upPc[u] \in {"assets", "delete"} => stored(p) /\ p \notin deleted
        /\ upPc[u] = "upsert" => owner[p] = user /\ upTodo[u] \subseteq body
        /\ isLimited(user, p) =>
               /\ upPc[u] \in {"delete", "pack", "upsert"} => Cardinality(body) <= MaxAssets
               /\ upPc[u] = "delete" => assetsOf(p) \ upTodo[u] \subseteq body
               /\ upPc[u] \in {"pack", "upsert"} => p \in deleted \/ assetsOf(p) \subseteq body

\* A pack that is not stored has no assets, one that is has no more than it may.
LimitsHold ==
    \A p \in Packs :
        /\ ~stored(p) => assetsOf(p) = {}
        /\ stored(p) /\ p \notin deleted /\ isLimited(owner[p], p)
              => Cardinality(assetsOf(p)) <= MaxAssets

LoneInv ==
    ~overlapped => OneAtATime /\ LimitsHold /\ \A u \in UpInFlight : UploadHolds(u)

LEMMA AssetsFinite ==
    ASSUME NEW S \in SUBSET Assets
    PROVE  /\ Cardinality(S) \in Nat
           /\ \A T \in SUBSET S : Cardinality(T) \in Nat /\ Cardinality(T) <= Cardinality(S)
<1>1. IsFiniteSet(S)
    BY FS_Subset, LimitAssumption
<1>2. \A T \in SUBSET S : IsFiniteSet(T) /\ Cardinality(T) <= Cardinality(S)
    BY <1>1, FS_Subset
<1> QED
    BY <1>1, <1>2, FS_CardinalityType

\* Fewer assets are no more than a pack may have.
LEMMA LimitsShrink ==
    ASSUME LimitsHold, UNCHANGED owner, deleted \subseteq deleted',
           \A p \in Packs : assetsOf(p)' \subseteq assetsOf(p)
    PROVE  LimitsHold'
<1> SUFFICES ASSUME NEW p \in Packs
             PROVE  /\ ~stored(p)' => assetsOf(p)' = {}
                    /\ stored(p)' /\ p \notin deleted' /\ isLimited(owner[p], p)'
                          => Cardinality(assetsOf(p)') <= MaxAssets
    BY DEF LimitsHold
<1>1. assetsOf(p)' \subseteq assetsOf(p) /\ assetsOf(p) \subseteq Assets
    BY DEF assetsOf
<1>2. /\ Cardinality(assetsOf(p)') <= Cardinality(assetsOf(p))
      /\ Cardinality(assetsOf(p)') \in Nat /\ Cardinality(assetsOf(p)) \in Nat
    BY <1>1, AssetsFinite
<1> QED
    BY <1>1, <1>2, LimitAssumption DEF LimitsHold, stored, isLimited

\* The assets the checks count twice and those they keep: the body has no more
\* assets than were counted.
LEMMA CountedBody ==
    ASSUME NEW body \in SUBSET Assets, NEW current \in SUBSET Assets,
           finalAssetsCount(body, current) <= MaxAssets
    PROVE  Cardinality(body) <= MaxAssets
<1>1. current \ body \in SUBSET current
    OBVIOUS
<1>2. /\ Cardinality(body) \in Nat /\ Cardinality(current) \in Nat
      /\ Cardinality(current \ body) \in Nat
      /\ Cardinality(current \ body) <= Cardinality(current)
    BY <1>1, AssetsFinite
<1> QED
    BY <1>2, LimitAssumption DEF finalAssetsCount, assetIdsToDelete

\* An upload that goes on keeps its locals; one that is answered is not in flight.
LEMMA GotoStage ==
    ASSUME TypeOK, NEW u \in Uploads, u \in UpInFlight, NEW stage \in UpStages,
           upGoto(u, stage)
    PROVE  /\ UpInFlight' \subseteq UpInFlight
           /\ u \in UpInFlight' => /\ upPc'[u] = stage /\ upPack'[u] = upPack[u]
                                   /\ upUser'[u] = upUser[u] /\ upAssets'[u] = upAssets[u]
<1>1. /\ upPc'[u] = stage
      /\ \A v \in Uploads \ {u} : upPc'[v] = upPc[v]
    BY DEF upGoto, TypeOK
<1>2. stage \notin UpFinal => UNCHANGED <<upPack, upUser, upAssets>>
    BY DEF upGoto
<1> QED
    BY <1>1, <1>2 DEF UpInFlight

\* A step of an upload that nobody else is served next to.
LEMMA LoneUploadStep ==
    ASSUME TypeOK, OneAtATime, LimitsHold, NEW u \in Uploads, UploadStep(u),
           u \in UpInFlight => UploadHolds(u)
    PROVE  OneAtATime' /\ LimitsHold' /\ \A v \in UpInFlight' : UploadHolds(v)'
<1> DEFINE p == upPack[u]
           user == upUser[u]
           body == upAssets[u]
<1>1. u \in UpInFlight
    BY DEF UploadStep, CheckOwners, CheckPacks, ReadPack, ReadAssets, DeleteAssets, UpsertPack,
           UpsertAsset, FinishUpload, FailUpload, UpInFlight, UpFinal
<1>2. p \in Packs /\ user \in Users /\ body \in SUBSET Assets /\ UploadHolds(u)
    BY <1>1 DEF TypeOK
<1>3. \A q \in Packs : assetsOf(q) \in SUBSET Assets
    BY DEF assetsOf
<1>4. UNCHANGED rmVars
    BY DEF UploadStep, CheckOwners, CheckPacks, ReadPack, ReadAssets, DeleteAssets, UpsertPack,
           UpsertAsset, FinishUpload, FailUpload
<1>5. ASSUME NEW stage \in UpStages, upGoto(u, stage), LimitsHold',
             ASSUME u \in UpInFlight' PROVE UploadHolds(u)'
      PROVE  OneAtATime' /\ LimitsHold' /\ \A v \in UpInFlight' : UploadHolds(v)'
    <2>1. UpInFlight' \subseteq {u} /\ RmInFlight' = {}
        BY <1>1, <1>4, <1>5, GotoStage DEF OneAtATime, RmInFlight, rmVars
    <2> QED
        BY <1>5, <2>1 DEF OneAtATime
<1>6. ASSUME NEW stage \in UpStages, upGoto(u, stage), u \in UpInFlight'
      PROVE  upPc'[u] = stage /\ upPack'[u] = p /\ upUser'[u] = user /\ upAssets'[u] = body
    BY <1>1, <1>6, GotoStage
<1>7. UNCHANGED rows => LimitsHold'
    BY LimitsShrink DEF rows, assetsOf
<1>8. CASE CheckOwners(u)
    <2>1. PICK stage \in {"refused", "packs"} : upGoto(u, stage)
        BY <1>8 DEF CheckOwners
    <2>2. stage \in UpStages
        BY DEF UpStages
    <2>3. ASSUME u \in UpInFlight' PROVE UploadHolds(u)'
        <3>1. upPc'[u] = "packs"
            BY <1>6, <2>1, <2>2, <2>3 DEF UpInFlight, UpFinal
        <3> QED
            BY <1>2, <1>6, <1>8, <2>1, <2>2, <2>3, <3>1
               DEF UploadHolds, CheckOwners, rows, mayWrite, stored
    <2> QED
        BY <1>5, <1>7, <1>8, <2>1, <2>2, <2>3 DEF CheckOwners
<1>9. CASE CheckPacks(u)
    <2>1. PICK stage \in {"refused", "current"} :
              /\ upGoto(u, stage)
              /\ stage = "current" => ~existsAnyWithADifferentAssetPackId(body, p)
        BY <1>9 DEF CheckPacks
    <2>2. stage \in UpStages
        BY DEF UpStages
    <2>3. ASSUME u \in UpInFlight' PROVE UploadHolds(u)'
        <3>1. upPc'[u] = "current" /\ stage = "current"
            BY <1>6, <2>1, <2>2, <2>3 DEF UpInFlight, UpFinal
        <3>2. \A a \in body : packOf[a] \in {NoPack, p}
            BY <2>1, <3>1 DEF existsAnyWithADifferentAssetPackId
        <3> QED
            BY <1>2, <1>6, <1>9, <2>1, <2>2, <2>3, <3>1, <3>2
               DEF UploadHolds, CheckPacks, rows, mayWrite, stored
    <2> QED
        BY <1>5, <1>7, <1>9, <2>1, <2>2, <2>3 DEF CheckPacks
<1>10. CASE ReadPack(u)
    <2>1. PICK stage \in {"assets", "tooMany", "pack"} :
              /\ upGoto(u, stage)
              /\ stage = "assets" => stored(p) /\ p \notin deleted
              /\ stage = "pack" => ~tooManyForNewPack(u) /\ (~stored(p) \/ p \in deleted)
        BY <1>10 DEF ReadPack
    <2>2. stage \in UpStages
        BY DEF UpStages
    <2>3. ASSUME u \in UpInFlight' PROVE UploadHolds(u)'
        <3>1. upPc'[u] = stage /\ stage \in {"assets", "pack"}
            BY <1>6, <2>1, <2>2, <2>3 DEF UpInFlight, UpFinal
        <3>2. stage = "pack" => /\ Cardinality(body) <= MaxAssets
                                /\ p \in deleted \/ assetsOf(p) = {}
            <4>1. Cardinality(body) \in Nat
                BY <1>2, AssetsFinite
            <4> QED
                BY <1>2, <2>1, <4>1, LimitAssumption DEF tooManyForNewPack, LimitsHold
        <3>3. \A a \in body : packOf[a] \in {NoPack, p}
            BY <1>2, <1>10 DEF UploadHolds, ReadPack
        <3>4. UNCHANGED rows
            BY <1>10 DEF ReadPack
        <3> QED
            BY <1>2, <1>6, <2>1, <2>2, <2>3, <3>1, <3>2, <3>3, <3>4
               DEF UploadHolds, rows, mayWrite, stored, assetsOf
    <2> QED
        BY <1>5, <1>7, <1>10, <2>1, <2>2, <2>3 DEF ReadPack
<1>11. CASE ReadAssets(u)
    <2>1. PICK current \in findByAssetPackId(p) :
              /\ upGoto(u, IF hasTooMany(u, current) THEN "tooMany" ELSE "delete")
              /\ upTodo' = [upTodo EXCEPT ![u] = IF hasTooMany(u, current) THEN {}
                                                 ELSE assetIdsToDelete(body, current)]
        BY <1>11 DEF ReadAssets
    <2>2. PICK stage \in {"tooMany", "delete"} :
              upGoto(u, stage) /\ (stage = "delete" <=> ~hasTooMany(u, current))
        BY <2>1
    <2>3. stage \in UpStages
        BY DEF UpStages
    <2>4. ASSUME u \in UpInFlight' PROVE UploadHolds(u)'
        <3>1. upPc'[u] = "delete" /\ ~hasTooMany(u, current)
            BY <1>6, <2>2, <2>3, <2>4 DEF UpInFlight, UpFinal
        <3>2. /\ stored(p) /\ p \notin deleted /\ owner[p] = user
              /\ \A a \in body : packOf[a] \in {NoPack, p}
            BY <1>2, <1>11 DEF UploadHolds, ReadAssets, mayWrite
        <3>3. upTodo'[u] = current \ body
            BY <2>1, <3>1 DEF TypeOK, assetIdsToDelete
        <3>4. UNCHANGED rows
            BY <1>11 DEF ReadAssets
        <3>5. ASSUME isLimited(user, p)
              PROVE  Cardinality(body) <= MaxAssets /\ assetsOf(p) \ upTodo'[u] \subseteq body
            <4>1. current = assetsOf(p)
                <5>1. Cardinality(assetsOf(p)) <= MaxAssets
                    BY <1>2, <3>2, <3>5 DEF LimitsHold
                <5> QED
                    BY <2>1, <5>1 DEF findByAssetPackId
            <4>2. ~(finalAssetsCount(body, current) > MaxAssets)
                BY <3>1, <3>5 DEF hasTooMany, isLimited
            <4>3. Cardinality(body) <= MaxAssets
                <5>1. current \in SUBSET Assets
                    BY <1>2, <1>3, <4>1
                <5>2. current \ body \in SUBSET current
                    OBVIOUS
                <5>3. finalAssetsCount(body, current) \in Int
                    BY <1>2, <5>1, <5>2, AssetsFinite DEF finalAssetsCount, assetIdsToDelete
                <5>4. finalAssetsCount(body, current) <= MaxAssets
                    BY <4>2, <5>3, LimitAssumption
                <5> QED
                    BY <1>2, <5>1, <5>4, CountedBody
            <4> QED
                BY <3>3, <4>1, <4>3
        <3> QED
            BY <1>6, <2>2, <2>3, <2>4, <3>1, <3>2, <3>4, <3>5
               DEF UploadHolds, rows, mayWrite, stored, assetsOf
    <2> QED
        BY <1>5, <1>7, <1>11, <2>2, <2>3, <2>4 DEF ReadAssets
<1>12. CASE DeleteAssets(u)
    <2>1. upGoto(u, "pack") /\ "pack" \in UpStages
        BY <1>12 DEF DeleteAssets, UpStages
    <2>2. /\ UNCHANGED <<owner, deleted>>
          /\ \A a \in Assets : packOf'[a] = IF a \in upTodo[u] /\ packOf[a] = p
                                           THEN NoPack ELSE packOf[a]
        BY <1>12 DEF DeleteAssets
    <2>3. \A q \in Packs : assetsOf(q)' \subseteq assetsOf(q)
        BY <2>2, PacksAssumption DEF assetsOf
    <2>4. {a \in Assets : packOf'[a] = p} \subseteq assetsOf(p) \ upTodo[u]
        BY <1>2, <2>2, PacksAssumption DEF assetsOf
    <2>5. LimitsHold'
        BY <2>2, <2>3, LimitsShrink
    <2>6. ASSUME u \in UpInFlight' PROVE UploadHolds(u)'
        <3>1. \A a \in body : packOf'[a] \in {NoPack, p}
            BY <1>2, <1>12, <2>2 DEF UploadHolds, DeleteAssets
        <3>2. isLimited(user, p) => /\ Cardinality(body) <= MaxAssets
                                    /\ {a \in Assets : packOf'[a] = p} \subseteq body
            BY <1>2, <1>12, <2>4 DEF UploadHolds, DeleteAssets
        <3>3. assetsOf(upPack[u])' = {a \in Assets : packOf'[a] = p}
            BY <1>6, <2>1, <2>6 DEF assetsOf
        <3> QED
            BY <1>2, <1>6, <2>1, <2>2, <2>6, <3>1, <3>2, <3>3
               DEF UploadHolds, mayWrite, stored
    <2> QED
        BY <1>5, <2>1, <2>5, <2>6
<1>13. CASE UpsertPack(u)
    <2>1. upGoto(u, "upsert") /\ "upsert" \in UpStages
        BY <1>13 DEF UpsertPack, UpStages
    <2>2. /\ UNCHANGED <<deleted, packOf>>
          /\ owner' = [owner EXCEPT ![p] = user]
          /\ upTodo' = [upTodo EXCEPT ![u] = body]
        BY <1>13 DEF UpsertPack
    <2>3. /\ \A a \in body : packOf[a] \in {NoPack, p}
          /\ isLimited(user, p) => /\ Cardinality(body) <= MaxAssets
                                   /\ p \in deleted \/ assetsOf(p) \subseteq body
        BY <1>2, <1>13 DEF UploadHolds, UpsertPack
    <2>4. LimitsHold'
        <3>1. ASSUME NEW q \in Packs
              PROVE  /\ ~stored(q)' => assetsOf(q)' = {}
                     /\ stored(q)' /\ q \notin deleted' /\ isLimited(owner[q], q)'
                           => Cardinality(assetsOf(q)') <= MaxAssets
            <4>1. assetsOf(q)' = assetsOf(q)
                BY <2>2 DEF assetsOf
            <4>2. CASE q # p
                BY <2>2, <4>1, <4>2 DEF LimitsHold, stored, isLimited, TypeOK
            <4>3. CASE q = p
                <5>1. owner'[p] = user
                    BY <1>2, <2>2 DEF TypeOK
                <5>2. isLimited(user, p) /\ p \notin deleted
                        => Cardinality(assetsOf(p)) <= MaxAssets
                    <6>1. /\ Cardinality(body) \in Nat
                          /\ \A T \in SUBSET body :
                                Cardinality(T) \in Nat /\ Cardinality(T) <= Cardinality(body)
                        BY <1>2, AssetsFinite
                    <6> QED
                        BY <2>3, <6>1, LimitAssumption
                <5> QED
                    BY <1>2, <2>2, <4>1, <4>3, <5>1, <5>2, UsersAssumption
                       DEF stored, isLimited
            <4> QED
                BY <4>2, <4>3
        <3> QED
            BY <3>1 DEF LimitsHold
    <2>5. ASSUME u \in UpInFlight' PROVE UploadHolds(u)'
        <3>1. owner'[p] = user /\ upTodo'[u] = body
            BY <1>2, <2>2 DEF TypeOK
        <3>2. assetsOf(upPack[u])' = assetsOf(p)
            BY <1>6, <2>1, <2>2, <2>5 DEF assetsOf
        <3> QED
            BY <1>6, <2>1, <2>2, <2>3, <2>5, <3>1, <3>2 DEF UploadHolds, mayWrite, stored
    <2> QED
        BY <1>5, <2>1, <2>4, <2>5
<1>14. CASE UpsertAsset(u)
    <2>1. PICK a \in upTodo[u] :
              /\ upTodo' = [upTodo EXCEPT ![u] = @ \ {a}]
              /\ packOf' = [packOf EXCEPT ![a] = p] \/ UNCHANGED packOf
        BY <1>14 DEF UpsertAsset
    <2>2. /\ UNCHANGED <<owner, deleted, upPc, upPack, upUser, upAssets>>
          /\ upPc[u] = "upsert"
        BY <1>14 DEF UpsertAsset
    <2>3. /\ a \in body /\ a \in Assets /\ upTodo'[u] \subseteq body
          /\ owner[p] = user /\ stored(p)
        BY <1>2, <2>1, <2>2, UsersAssumption DEF UploadHolds, TypeOK, stored
    <2>4. /\ \A b \in Assets : packOf'[b] = packOf[b] \/ (b = a /\ packOf'[b] = p)
          /\ packOf[a] \in {NoPack, p}
        BY <1>2, <2>1, <2>2, <2>3 DEF UploadHolds, TypeOK
    <2>5. \A q \in Packs \ {p} : assetsOf(q)' \subseteq assetsOf(q)
        BY <2>4 DEF assetsOf
    <2>6. {b \in Assets : packOf'[b] = p} \subseteq assetsOf(p) \cup {a}
        BY <2>4 DEF assetsOf
    <2>7. isLimited(user, p) => /\ Cardinality(body) <= MaxAssets
                                /\ \/ p \in deleted
                                   \/ {b \in Assets : packOf'[b] = p} \subseteq body
        BY <1>2, <2>2, <2>3, <2>6 DEF UploadHolds
    <2>8. LimitsHold'
        <3>1. ASSUME NEW q \in Packs
              PROVE  /\ ~stored(q)' => assetsOf(q)' = {}
                     /\ stored(q)' /\ q \notin deleted' /\ isLimited(owner[q], q)'
                           => Cardinality(assetsOf(q)') <= MaxAssets
            <4>1. CASE q # p
                <5>1. assetsOf(q)' \subseteq assetsOf(q)
                    BY <2>5, <4>1
                <5>2. /\ Cardinality(assetsOf(q)') <= Cardinality(assetsOf(q))
                      /\ Cardinality(assetsOf(q)') \in Nat /\ Cardinality(assetsOf(q)) \in Nat
                    BY <1>3, <5>1, AssetsFinite
                <5> QED
                    BY <2>2, <5>1, <5>2, LimitAssumption DEF LimitsHold, stored, isLimited
            <4>2. CASE q = p
                <5>1. assetsOf(q)' = {b \in Assets : packOf'[b] = p}
                    BY <4>2 DEF assetsOf
                <5>2. /\ Cardinality(body) \in Nat
                      /\ \A T \in SUBSET body :
                            Cardinality(T) \in Nat /\ Cardinality(T) <= Cardinality(body)
                    BY <1>2, AssetsFinite
                <5> QED
                    BY <2>2, <2>3, <2>7, <4>2, <5>1, <5>2, LimitAssumption
                       DEF stored, isLimited
            <4> QED
                BY <4>1, <4>2
        <3> QED
            BY <3>1 DEF LimitsHold
    <2>9. UploadHolds(u)'
        <3>1. assetsOf(upPack[u])' = {b \in Assets : packOf'[b] = p}
            BY <2>2 DEF assetsOf
        <3>2. \A b \in body : packOf'[b] \in {NoPack, p}
            BY <1>2, <2>2, <2>4 DEF UploadHolds
        <3> QED
            BY <2>2, <2>3, <2>7, <3>1, <3>2 DEF UploadHolds, mayWrite, stored
    <2>10. UpInFlight' = UpInFlight /\ RmInFlight' = RmInFlight
        BY <1>4, <2>2 DEF UpInFlight, RmInFlight, rmVars
    <2> QED
        BY <1>1, <2>8, <2>9, <2>10 DEF OneAtATime
<1>15. CASE FinishUpload(u) \/ FailUpload(u)
    <2>1. PICK stage \in {"done", "failed"} : upGoto(u, stage)
        BY <1>15 DEF FinishUpload, FailUpload
    <2>2. stage \in UpStages
        BY DEF UpStages
    <2>3. u \notin UpInFlight'
        BY <1>6, <2>1, <2>2 DEF UpInFlight, UpFinal
    <2> QED
        BY <1>5, <1>7, <1>15, <2>1, <2>2, <2>3 DEF FinishUpload, FailUpload
<1> QED
    BY <1>8, <1>9, <1>10, <1>11, <1>12, <1>13, <1>14, <1>15 DEF UploadStep

\* The first request in flight: the check on the pack it read holds.
LEMMA LoneStart ==
    ASSUME TypeOK, Quiescent, LimitsHold,
           \/ \E u \in Uploads : StartUpload(u)
           \/ \E r \in Removals : StartRemoval(r)
    PROVE  OneAtATime' /\ LimitsHold' /\ \A v \in UpInFlight' : UploadHolds(v)'
<1>1. UNCHANGED rows
    BY DEF StartUpload, StartRemoval
<1>2. LimitsHold'
    BY <1>1, LimitsShrink DEF rows, assetsOf
<1>3. ASSUME NEW u \in Uploads, StartUpload(u)
      PROVE  OneAtATime' /\ \A v \in UpInFlight' : UploadHolds(v)'
    <2>1. \A v \in Uploads \ {u} : upPc'[v] = upPc[v]
        BY <1>3 DEF StartUpload, upGoto, TypeOK
    <2>2. UpInFlight' \subseteq {u} /\ RmInFlight' = {}
        BY <1>3, <2>1 DEF StartUpload, Quiescent, UpInFlight, RmInFlight, rmVars
    <2>3. ASSUME u \in UpInFlight' PROVE UploadHolds(u)'
        <3>1. upPc'[u] = "owners" /\ mayWrite(upUser'[u], upPack'[u])
            BY <1>3, <2>3 DEF StartUpload, upGoto, UpInFlight, UpFinal, TypeOK
        <3> QED
            BY <1>1, <3>1 DEF UploadHolds, mayWrite, stored, rows
    <2> QED
        BY <2>2, <2>3 DEF OneAtATime
<1>4. ASSUME NEW r \in Removals, StartRemoval(r)
      PROVE  OneAtATime' /\ UpInFlight' = {}
    BY <1>4 DEF StartRemoval, Quiescent, UpInFlight, upVars, OneAtATime
<1> QED
    BY <1>2, <1>3, <1>4

\* A removal that nobody else is served next to.
LEMMA LoneRemovalStep ==
    ASSUME TypeOK, OneAtATime, LimitsHold, NEW r \in Removals, Authorize(r) \/ DeletePack(r)
    PROVE  OneAtATime' /\ LimitsHold' /\ UpInFlight' = {}
<1>1. r \in RmInFlight
    BY DEF Authorize, DeletePack, RmInFlight, RmFinal
<1>2. UpInFlight' = {}
    BY <1>1 DEF OneAtATime, Authorize, DeletePack, UpInFlight, upVars
<1>3. UNCHANGED <<owner, packOf>> /\ deleted \subseteq deleted'
    BY DEF Authorize, DeletePack, rows
<1>4. LimitsHold'
    BY <1>3, LimitsShrink DEF assetsOf
<1> QED
    BY <1>2, <1>4 DEF OneAtATime

LEMMA InitLone == Init => LoneInv
<1> SUFFICES ASSUME Init PROVE OneAtATime /\ LimitsHold /\ UpInFlight = {}
    BY DEF LoneInv
<1>1. UpInFlight = {} /\ OneAtATime
    BY DEF Init, UpInFlight, OneAtATime
<1>2. \A p \in Packs : assetsOf(p) = {a \in Assets : StoredPack[a] = p} /\ owner = StoredOwner
    BY DEF Init, assetsOf
<1>3. LimitsHold
    BY <1>2, StoredAssumption DEF LimitsHold, stored, isLimited
<1> QED
    BY <1>1, <1>3

LEMMA LoneStep == TypeOK /\ LoneInv /\ [Next]_vars => LoneInv'
<1> SUFFICES ASSUME TypeOK, LoneInv, [Next]_vars, ~overlapped'
             PROVE  OneAtATime' /\ LimitsHold' /\ \A v \in UpInFlight' : UploadHolds(v)'
    BY DEF LoneInv
<1>1. ~overlapped
    BY DEF Next, Start, Step, vars
<1>2. OneAtATime /\ LimitsHold /\ \A u \in UpInFlight : UploadHolds(u)
    BY <1>1 DEF LoneInv
<1>3. CASE Start
    <2>1. Quiescent
        BY <1>3 DEF Start
    <2> QED
        BY <1>2, <1>3, <2>1, LoneStart DEF Start
<1>4. CASE Step
    BY <1>2, <1>4, LoneUploadStep, LoneRemovalStep DEF Step
<1>5. CASE UNCHANGED vars
    <2>1. UpInFlight' = UpInFlight /\ RmInFlight' = RmInFlight
        BY <1>5 DEF vars, upVars, rmVars, UpInFlight, RmInFlight
    <2>2. LimitsHold'
        BY <1>2, <1>5, LimitsShrink DEF vars, rows, assetsOf
    <2>3. \A v \in UpInFlight : UploadHolds(v)'
        BY <1>2, <1>5 DEF vars, rows, upVars, UploadHolds, mayWrite, stored, assetsOf
    <2> QED
        BY <1>2, <2>1, <2>2, <2>3 DEF OneAtATime
<1> QED
    BY <1>3, <1>4, <1>5 DEF Next

\* As long as requests are served one at a time, the checks an upload made
\* before its writes still hold when it writes.
THEOREM LoneInvariant == Spec => []LoneInv
BY InitLone, LoneStep, PacksTypeCorrect, PTL DEF Spec

\* A pack of an ordinary user created after the split date never has more than
\* MaxAssets assets, whatever uploads failed half way.
THEOREM PacksWithinLimit == Spec => []PackWithinLimit
<1>1. LoneInv => PackWithinLimit
    BY DEF LoneInv, LimitsHold, isLimited, PackWithinLimit
<1> QED
    BY LoneInvariant, <1>1, PTL

\* A pack is only written by its owner, and only assets that are in no pack, or
\* in the one of the URL, are.
LEMMA ClaimsStep ==
    ASSUME TypeOK, LoneInv, Next, ~overlapped
    PROVE  /\ \A p \in Packs : stored(p) => owner'[p] = owner[p]
           /\ \A a \in Assets : packOf[a] # NoPack => packOf'[a] \in {packOf[a], NoPack}
<1>1. \A u \in UpInFlight : UploadHolds(u)
    BY DEF LoneInv
<1>2. CASE Start
    BY <1>2 DEF Start, StartUpload, StartRemoval, rows
<1>3. ASSUME NEW r \in Removals, Authorize(r) \/ DeletePack(r)
      PROVE  UNCHANGED <<owner, packOf>>
    BY <1>3 DEF Authorize, DeletePack, rows
<1>4. ASSUME NEW u \in Uploads, UploadStep(u)
      PROVE  /\ \A p \in Packs : stored(p) => owner'[p] = owner[p]
             /\ \A a \in Assets : packOf[a] # NoPack => packOf'[a] \in {packOf[a], NoPack}
    <2>1. CASE UpsertPack(u)
        <3>1. mayWrite(upUser[u], upPack[u])
            BY <1>1, <2>1 DEF UploadHolds, UpsertPack, UpInFlight, UpFinal
        <3>2. owner' = [owner EXCEPT ![upPack[u]] = upUser[u]] /\ UNCHANGED packOf
            BY <2>1 DEF UpsertPack
        <3> QED
            BY <3>1, <3>2 DEF TypeOK, mayWrite, stored
    <2>2. CASE UpsertAsset(u)
        <3>1. UploadHolds(u) /\ upPc[u] = "upsert"
            BY <1>1, <2>2 DEF UpsertAsset, UpInFlight, UpFinal
        <3>2. \A a \in upTodo[u] : packOf[a] \in {NoPack, upPack[u]}
            BY <3>1 DEF UploadHolds
        <3>3. PICK a \in upTodo[u] :
                  packOf' = [packOf EXCEPT ![a] = upPack[u]] \/ UNCHANGED packOf
            BY <2>2 DEF UpsertAsset
        <3>4. UNCHANGED owner
            BY <2>2 DEF UpsertAsset
        <3> QED
            BY <3>2, <3>3, <3>4 DEF TypeOK
    <2>3. CASE DeleteAssets(u)
        BY <2>3 DEF DeleteAssets
    <2>4. CASE \/ CheckOwners(u) \/ CheckPacks(u) \/ ReadPack(u) \/ ReadAssets(u)
               \/ FinishUpload(u) \/ FailUpload(u)
        BY <2>4 DEF CheckOwners, CheckPacks, ReadPack, ReadAssets, FinishUpload, FailUpload, rows
    <2> QED
        BY <1>4, <2>1, <2>2, <2>3, <2>4 DEF UploadStep
<1> QED
    BY <1>2, <1>3, <1>4 DEF Next, Step

\* While requests are served one at a time, a pack stays with the user who
\* uploaded it first and no upload takes an asset from another pack.
THEOREM ClaimsKept == Spec => ClaimsAreKept
<1>1. TypeOK /\ LoneInv /\ [Next]_vars =>
      [~overlapped =>
          /\ \A p \in Packs : stored(p) => owner'[p] = owner[p]
          /\ \A a \in Assets : packOf[a] # NoPack => packOf'[a] \in {packOf[a], NoPack}]_vars
    BY ClaimsStep
<1> QED
    BY <1>1, LoneInvariant, PacksTypeCorrect, PTL DEF Spec, ClaimsAreKept

=============================================================================
