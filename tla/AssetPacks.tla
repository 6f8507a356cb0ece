----------------------------- MODULE AssetPacks -----------------------------
(***************************************************************************)
(* Asset packs and their assets (AssetPack.router.ts, AssetPack.model.ts,  *)
(* Asset.model.ts):                                                        *)
(*   - uploads:  PUT /assetPacks/:id (upsertAssetPack);                    *)
(*   - removals: DELETE /assetPacks/:id (deleteAssetPack);                 *)
(*   - reads:    GET /assetPacks and GET /assetPacks/:id, operators on the *)
(*     stored rows.                                                        *)
(*                                                                         *)
(* Every statement sent to the database is an action; the requests in      *)
(* flight interleave between them, and a request that was answered makes   *)
(* room for another.  The body is the set of asset ids it carries (it has  *)
(* passed the schema and names the pack of the URL); of an asset row the   *)
(* pack and the user who wrote its content are kept.                       *)
(***************************************************************************)
EXTENDS Integers, FiniteSets

CONSTANTS
    Packs, Assets, Users,
    DefaultUser,        \* DEFAULT_ETH_ADDRESS, owner of the default packs
    NoUser,             \* owner of a pack that is not stored
    NoPack,             \* pack of an asset that is not stored
    MaxAssets,          \* MAX_ASSETS_COUNT
    MaxPacks,           \* MAX_ASSET_PACKS_COUNT
    StoredOwner,        \* owner of each pack stored in the initial state
    StoredPack,         \* pack of each asset stored in the initial state
    Legacy,             \* packs created before getLimitSplitDate()
    Uploads, Removals,  \* requests
    MaxInFlight,        \* bound on the requests being served at a time
    MayFail             \* whether statements may fail

ASSUME UsersAssumption == DefaultUser # NoUser /\ NoUser \notin Users /\ Users # {}
ASSUME PacksAssumption == NoPack \notin Packs /\ Packs # {} /\ Legacy \subseteq Packs
ASSUME StoredAssumption ==
    /\ StoredOwner \in [Packs -> Users \cup {NoUser}]
    /\ StoredPack \in [Assets -> Packs \cup {NoPack}]
    /\ \A p \in Legacy : StoredOwner[p] # NoUser
    /\ \A p \in Packs :
          LET kept == {a \in Assets : StoredPack[a] = p}
          IN  /\ StoredOwner[p] = NoUser => kept = {}
              /\ p \notin Legacy /\ StoredOwner[p] # DefaultUser
                    => Cardinality(kept) <= MaxAssets
ASSUME LimitAssumption ==
    /\ MaxAssets \in Nat
    /\ MaxPacks \in Nat
    /\ MaxInFlight \in Nat
    /\ MayFail \in BOOLEAN
    /\ IsFiniteSet(Assets)

VARIABLES
    owner,      \* asset_packs.eth_address
    deleted,    \* packs with is_deleted
    packOf,     \* assets.asset_pack_id
    writer,     \* user whose request wrote the content of the asset
    upPc, upPack, upUser, upAssets,
    upTodo,     \* asset ids still to delete, or to upsert
    upOk,       \* no upsert of the Promise.all has failed
    rmPc, rmPack, rmUser,
    overlapped  \* two requests have been served at the same time (ghost)

rows == <<owner, deleted, packOf, writer>>
upVars == <<upPc, upPack, upUser, upAssets, upTodo, upOk>>
rmVars == <<rmPc, rmPack, rmUser>>
vars == <<rows, upVars, rmVars, overlapped>>

UpStages == {"idle", "owners", "packs", "current", "assets", "delete", "pack",
             "upsert", "done", "refused", "tooMany", "failed"}
RmStages == {"idle", "authorize", "delete", "done", "refused"}
UpFinal == {"done", "refused", "tooMany", "failed"}
RmFinal == {"done", "refused"}
UpInFlight == {u \in Uploads : upPc[u] \notin UpFinal \cup {"idle"}}
RmInFlight == {r \in Removals : rmPc[r] \notin RmFinal \cup {"idle"}}
Quiescent == UpInFlight = {} /\ RmInFlight = {}

somePack == CHOOSE p \in Packs : TRUE
someUser == CHOOSE user \in Users : TRUE

\* Every row and every local of a request keeps its type, whatever interleaves.
TypeOK ==
    /\ owner \in [Packs -> Users \cup {NoUser}]
    /\ deleted \subseteq Packs
    /\ packOf \in [Assets -> Packs \cup {NoPack}]
    /\ writer \in [Assets -> Users]
    /\ upPc \in [Uploads -> UpStages]
    /\ upPack \in [Uploads -> Packs]
    /\ upUser \in [Uploads -> Users]
    /\ upAssets \in [Uploads -> SUBSET Assets]
    /\ upTodo \in [Uploads -> SUBSET Assets]
    /\ upOk \in [Uploads -> BOOLEAN]
    /\ rmPc \in [Removals -> RmStages]
    /\ rmPack \in [Removals -> Packs]
    /\ rmUser \in [Removals -> Users]
    /\ overlapped \in BOOLEAN

\* Assets stored in a pack were written by its owner.
Init ==
    /\ owner = StoredOwner
    /\ deleted = {}
    /\ packOf = StoredPack
    /\ writer = [a \in Assets |->
                    IF StoredPack[a] \in Packs /\ StoredOwner[StoredPack[a]] \in Users
                    THEN StoredOwner[StoredPack[a]] ELSE someUser]
    /\ upPc = [u \in Uploads |-> "idle"]
    /\ upPack = [u \in Uploads |-> somePack]
    /\ upUser = [u \in Uploads |-> someUser]
    /\ upAssets = [u \in Uploads |-> {}]
    /\ upTodo = [u \in Uploads |-> {}]
    /\ upOk = [u \in Uploads |-> TRUE]
    /\ rmPc = [r \in Removals |-> "idle"]
    /\ rmPack = [r \in Removals |-> somePack]
    /\ rmUser = [r \in Removals |-> someUser]
    /\ overlapped = FALSE

stored(p) == owner[p] # NoUser
assetsOf(p) == {a \in Assets : packOf[a] = p}

\* A request that is answered forgets its locals.
upGoto(u, stage) ==
    /\ upPc' = [upPc EXCEPT ![u] = stage]
    /\ IF stage \in UpFinal
       THEN /\ upPack' = [upPack EXCEPT ![u] = somePack]
            /\ upUser' = [upUser EXCEPT ![u] = someUser]
            /\ upAssets' = [upAssets EXCEPT ![u] = {}]
            /\ upOk' = [upOk EXCEPT ![u] = TRUE]
       ELSE UNCHANGED <<upPack, upUser, upAssets, upOk>>

rmGoto(r, stage) ==
    /\ rmPc' = [rmPc EXCEPT ![r] = stage]
    /\ IF stage \in RmFinal
       THEN /\ rmPack' = [rmPack EXCEPT ![r] = somePack]
            /\ rmUser' = [rmUser EXCEPT ![r] = someUser]
       ELSE UNCHANGED <<rmPack, rmUser>>

mayStart == Cardinality(UpInFlight) + Cardinality(RmInFlight) < MaxInFlight

-----------------------------------------------------------------------------
(* upsertAssetPack.                                                        *)

\* Mutant: AssetPack.count, which does not find deleted packs, decides.
mayWriteDeleted(user, p) == ~stored(p) \/ owner[p] = user \/ p \in deleted

\* AssetPack.findOne(id), which finds deleted packs too.
mayWrite(user, p) == ~stored(p) \/ owner[p] = user

\* withAuthentication: a caller without a valid signature gets no further.
callers == Users

StartUpload(u) ==
    /\ u \notin UpInFlight
    /\ \E p \in Packs, user \in callers, body \in SUBSET Assets :
          \/ /\ mayWrite(user, p)
             /\ upPc' = [upPc EXCEPT ![u] = "owners"]
             /\ upPack' = [upPack EXCEPT ![u] = p]
             /\ upUser' = [upUser EXCEPT ![u] = user]
             /\ upAssets' = [upAssets EXCEPT ![u] = body]
             /\ UNCHANGED upOk
          \/ /\ ~mayWrite(user, p)
             /\ upGoto(u, "refused")
    /\ UNCHANGED <<rows, rmVars, upTodo>>

existsAnyWithADifferentEthAddress(ids, user) ==
    \E a \in ids : /\ packOf[a] # NoPack
                   /\ owner[packOf[a]] # user
                   /\ packOf[a] \notin deleted

CheckOwners(u) ==
    /\ upPc[u] = "owners"
    /\ upGoto(u, IF existsAnyWithADifferentEthAddress(upAssets[u], upUser[u])
                 THEN "refused" ELSE "packs")
    /\ UNCHANGED <<rows, rmVars, upTodo>>

\* Mutant: the ids of the body are compared with assets of the same pack only.
noneInAnotherPack(ids, p) == FALSE

existsAnyWithADifferentAssetPackId(ids, p) ==
    \E a \in ids : packOf[a] \notin {NoPack, p}

CheckPacks(u) ==
    /\ upPc[u] = "packs"
    /\ upGoto(u, IF existsAnyWithADifferentAssetPackId(upAssets[u], upPack[u])
                 THEN "refused" ELSE "current")
    /\ UNCHANGED <<rows, rmVars, upTodo>>

\* Mutant: the size of a new pack is not limited.
neverTooMany(u) == FALSE

\* findOneWithAssets, the query of the pack: a deleted one is not found, and
\* the limit of a new pack applies.
tooManyForNewPack(u) == Cardinality(upAssets[u]) > MaxAssets

ReadPack(u) ==
    /\ upPc[u] = "current"
    /\ upGoto(u, IF stored(upPack[u]) /\ upPack[u] \notin deleted THEN "assets"
                 ELSE IF tooManyForNewPack(u) THEN "tooMany" ELSE "pack")
    /\ UNCHANGED <<rows, rmVars, upTodo>>

\* findOneWithAssets, the query of the assets: at most MaxAssets of them for
\* packs created after the split date, whichever the database returns first.
findByAssetPackId(p) ==
    IF p \in Legacy \/ Cardinality(assetsOf(p)) <= MaxAssets
    THEN {assetsOf(p)}
    ELSE {found \in SUBSET assetsOf(p) : Cardinality(found) = MaxAssets}

\* Mutant: assets that left the body stay stored.
deletesNothing(body, current) == {}

assetIdsToDelete(body, current) == current \ body

\* The assets kept are counted twice, as the code does.
finalAssetsCount(body, current) ==
    Cardinality(body) + Cardinality(current) - Cardinality(assetIdsToDelete(body, current))

hasTooMany(u, current) ==
    /\ upUser[u] # DefaultUser
    /\ upPack[u] \notin Legacy
    /\ finalAssetsCount(upAssets[u], current) > MaxAssets

ReadAssets(u) ==
    /\ upPc[u] = "assets"
    /\ \E current \in findByAssetPackId(upPack[u]) :
          /\ upGoto(u, IF hasTooMany(u, current) THEN "tooMany" ELSE "delete")
          /\ upTodo' = [upTodo EXCEPT ![u] = IF hasTooMany(u, current) THEN {}
                                             ELSE assetIdsToDelete(upAssets[u], current)]
    /\ UNCHANGED <<rows, rmVars>>

DeleteAssets(u) ==
    /\ upPc[u] = "delete"
    /\ packOf' = [a \in Assets |-> IF a \in upTodo[u] /\ packOf[a] = upPack[u]
                                   THEN NoPack ELSE packOf[a]]
    /\ upTodo' = [upTodo EXCEPT ![u] = {}]
    /\ upGoto(u, "pack")
    /\ UNCHANGED <<owner, deleted, writer, rmVars>>

\* The row takes the caller as its owner; is_deleted is not in the attributes.
UpsertPack(u) ==
    /\ upPc[u] = "pack"
    /\ owner' = [owner EXCEPT ![upPack[u]] = upUser[u]]
    /\ upTodo' = [upTodo EXCEPT ![u] = upAssets[u]]
    /\ upGoto(u, "upsert")
    /\ UNCHANGED <<deleted, packOf, writer, rmVars>>

\* One upsert of the Promise.all; the id is the primary key of the assets.
UpsertAsset(u) ==
    /\ upPc[u] = "upsert"
    /\ \E a \in upTodo[u] :
          /\ upTodo' = [upTodo EXCEPT ![u] = @ \ {a}]
          /\ \/ /\ packOf' = [packOf EXCEPT ![a] = upPack[u]]
                /\ writer' = [writer EXCEPT ![a] = upUser[u]]
                /\ UNCHANGED upOk
             \/ /\ MayFail
                /\ upOk' = [upOk EXCEPT ![u] = FALSE]
                /\ UNCHANGED <<packOf, writer>>
    /\ UNCHANGED <<owner, deleted, rmVars, upPc, upPack, upUser, upAssets>>

FinishUpload(u) ==
    /\ upPc[u] = "upsert"
    /\ upTodo[u] = {}
    /\ upGoto(u, IF upOk[u] THEN "done" ELSE "failed")
    /\ UNCHANGED <<rows, rmVars, upTodo>>

\* A statement fails and the request is answered with an error; what was
\* written before stays.
FailUpload(u) ==
    /\ MayFail
    /\ upPc[u] \in {"delete", "pack"}
    /\ upGoto(u, "failed")
    /\ upTodo' = [upTodo EXCEPT ![u] = {}]
    /\ UNCHANGED <<rows, rmVars>>

UploadStep(u) ==
    \/ CheckOwners(u) \/ CheckPacks(u) \/ ReadPack(u) \/ ReadAssets(u)
    \/ DeleteAssets(u) \/ UpsertPack(u) \/ UpsertAsset(u) \/ FinishUpload(u)
    \/ FailUpload(u)

-----------------------------------------------------------------------------
(* deleteAssetPack, behind withModelExists and withModelAuthorization.     *)

StartRemoval(r) ==
    /\ r \notin RmInFlight
    /\ \E p \in Packs, user \in Users :
          \/ /\ stored(p) /\ p \notin deleted
             /\ rmPc' = [rmPc EXCEPT ![r] = "authorize"]
             /\ rmPack' = [rmPack EXCEPT ![r] = p]
             /\ rmUser' = [rmUser EXCEPT ![r] = user]
          \/ /\ ~stored(p) \/ p \in deleted
             /\ rmGoto(r, "refused")
    /\ UNCHANGED <<rows, upVars>>

Authorize(r) ==
    /\ rmPc[r] = "authorize"
    /\ rmGoto(r, IF owner[rmPack[r]] = rmUser[r] /\ rmPack[r] \notin deleted
                 THEN "delete" ELSE "refused")
    /\ UNCHANGED <<rows, upVars>>

\* UPDATE ... SET is_deleted WHERE id AND eth_address.
removedIfOwned(p, user) == {q \in {p} : owner[q] = user}

DeletePack(r) ==
    /\ rmPc[r] = "delete"
    /\ deleted' = deleted \cup removedIfOwned(rmPack[r], rmUser[r])
    /\ rmGoto(r, "done")
    /\ UNCHANGED <<owner, packOf, writer, upVars>>

-----------------------------------------------------------------------------
(* Reads: each is the set of the answers it may give, none when it refuses. *)
(* A caller without a signature is NoUser.                                 *)

isVisible(user, p) == stored(p) /\ p \notin deleted /\ owner[p] \in {user, DefaultUser}

\* The assets of one pack.
getAssetPack(user, p) == IF isVisible(user, p) THEN findByAssetPackId(p) ELSE {}

packsOf(user) == {p \in Packs : owner[p] = user} \ deleted

\* The packs of a user; past the split date the database returns MaxPacks of
\* them, in no order.
findByEthAddressWithAssets(user) ==
    IF user = DefaultUser \/ Cardinality(packsOf(user) \ Legacy) <= MaxPacks
    THEN {packsOf(user)}
    ELSE {(packsOf(user) \cap Legacy) \cup recent :
             recent \in {some \in SUBSET (packsOf(user) \ Legacy) : Cardinality(some) = MaxPacks}}

\* The assets shown with a pack of that list.
selectFromAssetPack(user, p) ==
    IF user = DefaultUser THEN {assetsOf(p)} ELSE findByAssetPackId(p)

\* GET /assetPacks?owner=asked: the packs listed ("none": no such parameter),
\* where defaults are the packs in the cache.
getAssetPacks(user, asked, defaults) ==
    CASE asked = "default" -> {defaults}
      [] asked = "own" /\ user # NoUser -> findByEthAddressWithAssets(user)
      [] asked = "none" /\ user = NoUser -> {defaults}
      [] asked = "none" /\ user # NoUser ->
            {IF own = {} \/ user # DefaultUser THEN own \cup defaults ELSE own :
                own \in findByEthAddressWithAssets(user)}
      [] OTHER -> {}

-----------------------------------------------------------------------------
Start ==
    /\ mayStart
    /\ overlapped' = (overlapped \/ ~Quiescent)
    /\ \/ \E u \in Uploads : StartUpload(u)
       \/ \E r \in Removals : StartRemoval(r)

Step ==
    /\ UNCHANGED overlapped
    /\ \/ \E u \in Uploads : UploadStep(u)
       \/ \E r \in Removals : Authorize(r) \/ DeletePack(r)

Next == Start \/ Step

Spec == Init /\ [][Next]_vars

-----------------------------------------------------------------------------
(* Properties.                                                             *)

\* However uploads and removals interleave, a pack that had an owner keeps it,
\* and everything stored in it was written by that owner: the check of
\* upsertAssetPack on the pack it read first covers all the later writes.
StoredPacksAreTheirOwners ==
    \A p \in Packs : StoredOwner[p] # NoUser =>
        /\ owner[p] = StoredOwner[p]
        /\ \A a \in assetsOf(p) : writer[a] = StoredOwner[p]

\* The checks of upsertAssetPack and its writes are separate statements, so
\* what follows holds as long as requests are served one at a time: two first
\* uploads of a pack, or of an asset, both find it unclaimed.

\* A pack of an ordinary user created after the split date shows at most
\* MaxAssets assets (ai-agent-context.md:81, "max 80 assets"), whatever
\* uploads failed half way.
PackWithinLimit ==
    ~overlapped =>
        \A p \in Packs \ Legacy :
            stored(p) /\ p \notin deleted /\ owner[p] # DefaultUser
                => Cardinality(assetsOf(p)) <= MaxAssets

\* An upload that was answered with success is what is served: its owner reads
\* exactly the assets of the body, with the pack and in his list, and nobody
\* else reads the pack, whatever the cache holds, unless it is a default one.
\* The default user may store more assets in a recent pack than one read of it
\* shows, and than the next upload would delete.
UploadIsServed ==
    [][\A u \in Uploads :
          LET p == upPack[u]
              user == upUser[u]
              others == (Users \cup {NoUser}) \ {user}
          IN  /\ ~overlapped
              /\ upPc[u] # "done" /\ upPc'[u] = "done" /\ p \notin deleted
              /\ user = DefaultUser => p \in Legacy
              => /\ getAssetPack(user, p) = {upAssets[u]}
                 /\ selectFromAssetPack(user, p) = {upAssets[u]}
                 /\ \A defaults \in SUBSET packsOf(DefaultUser), asked \in {"own", "none"} :
                       /\ getAssetPacks(user, asked, defaults) # {}
                       /\ p \in Legacy \/ Cardinality(packsOf(user) \ Legacy) <= MaxPacks =>
                             \A list \in getAssetPacks(user, asked, defaults) : p \in list
                       /\ \A other \in others :
                             /\ getAssetPack(other, p) # {} => owner[p] = DefaultUser
                             /\ \A list \in getAssetPacks(other, asked, defaults) :
                                   p \in list => owner[p] = DefaultUser]_vars

\* A new pack stays with the user who uploaded it first, and an asset that is
\* stored in a pack is never moved by an upload of another pack:
\* existsAnyWithADifferentAssetPackId refuses it.
ClaimsAreKept ==
    [][~overlapped =>
          /\ \A p \in Packs : stored(p) => owner'[p] = owner[p]
          /\ \A a \in Assets : packOf[a] # NoPack => packOf'[a] \in {packOf[a], NoPack}]_vars

=============================================================================
