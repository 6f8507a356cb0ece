-------------------------- MODULE DefaultPacksCache --------------------------
(***************************************************************************)
(* The cache of the default asset packs (AssetPackRouter.                  *)
(* getDefaultAssetPacks, AssetPack.router.ts): requests share the response *)
(* of the last fetch, one of them refreshes it when it has expired, and    *)
(* while there is none the others wait for the promise of the first.       *)
(*                                                                         *)
(* Node runs to its next await what a settled promise wakes up, before any *)
(* other event: the fetcher first, then the requests that waited for it.   *)
(***************************************************************************)
EXTENDS Integers

CONSTANTS
    Requests,
    MaxVersion,         \* bound on the changes of the default packs
    MaxFailures,        \* bound on the fetches that fail
    EmptyVersions,      \* versions at which there are no default packs
    Nothing             \* no response is cached, or sent

Versions == 1 .. MaxVersion

ASSUME CacheAssumption ==
    /\ MaxVersion \in Nat \ {0}
    /\ MaxFailures \in Nat
    /\ EmptyVersions \subseteq Versions
    /\ Nothing \notin Versions

VARIABLES
    db,         \* version of the default packs in the database
    response,   \* version of defaultAssetPacksCachedResponse
    expired,    \* DEFAULT_ASSET_PACK_CACHE has passed since the last fetch
    updating,   \* isUpdatingDefaultAssetPacksCache
    rejected,   \* defaultAssetPacksCachePromise is a rejected promise
    failures,   \* fetches that failed
    pc, answer

vars == <<db, response, expired, updating, rejected, failures, pc, answer>>

InFlight == {"wait", "fetch", "woken", "refused"}

TypeOK ==
    /\ db \in Versions
    /\ response \in Versions \cup {Nothing}
    /\ expired \in BOOLEAN
    /\ updating \in BOOLEAN
    /\ rejected \in BOOLEAN
    /\ failures \in 0 .. MaxFailures
    /\ pc \in [Requests -> InFlight \cup {"idle", "answered", "failed"}]
    /\ answer \in [Requests -> Versions \cup {Nothing}]

Init ==
    /\ db = 1
    /\ response = Nothing
    /\ expired = TRUE
    /\ updating = FALSE
    /\ rejected = FALSE
    /\ failures = 0
    /\ pc = [r \in Requests |-> "idle"]
    /\ answer = [r \in Requests |-> Nothing]

\* No continuation is ready to run: another event may be served.
idleLoop == \A r \in Requests : pc[r] \notin {"woken", "refused"}

\* defaultAssetPacksIsNotCached
isNotCached == response = Nothing \/ response \in EmptyVersions

\* Mutant: requests do not wait for the first fetch.
neverWaits == FALSE

mustWait == updating /\ isNotCached

\* Mutant: every request refreshes an expired cache.
fetchesAnyway(missing) == missing \/ expired

mayFetch(missing) == (missing \/ expired) /\ ~updating

\* The rest of the handler, once it need not wait (any more).
FetchOrAnswer(r, missing) ==
    \/ /\ mayFetch(missing)
       /\ updating' = TRUE
       /\ rejected' = FALSE
       /\ pc' = [pc EXCEPT ![r] = "fetch"]
       /\ UNCHANGED answer
    \/ /\ ~mayFetch(missing)
       /\ pc' = [pc EXCEPT ![r] = "answered"]
       /\ answer' = [answer EXCEPT ![r] = response]
       /\ UNCHANGED <<updating, rejected>>

\* A request for the default packs arrives.
Ask(r) ==
    /\ idleLoop
    /\ pc[r] \in {"idle", "answered", "failed"}
    /\ \/ /\ mustWait
          /\ pc' = [pc EXCEPT ![r] = IF rejected THEN "refused" ELSE "wait"]
          /\ UNCHANGED <<updating, rejected, answer>>
       \/ /\ ~mustWait
          /\ FetchOrAnswer(r, isNotCached)
    /\ UNCHANGED <<db, response, expired, failures>>

wake(stage) == [q \in Requests |-> IF pc[q] = "wait" THEN stage ELSE pc[q]]

\* Mutant: the flag of a successful refresh is not lowered either.
neverReleased == TRUE

updatingAfterFetch == FALSE

\* The query returns: the response and the time of the fetch are stored.
FetchSucceeds(r) ==
    /\ idleLoop
    /\ pc[r] = "fetch"
    /\ response' = db
    /\ expired' = FALSE
    /\ updating' = updatingAfterFetch
    /\ pc' = [wake("woken") EXCEPT ![r] = "answered"]
    /\ answer' = [answer EXCEPT ![r] = db]
    /\ UNCHANGED <<db, rejected, failures>>

\* The query fails: the await throws, nothing after it runs, and the rejected
\* promise stays where the others wait for it.
FetchFails(r) ==
    /\ idleLoop
    /\ pc[r] = "fetch"
    /\ failures < MaxFailures
    /\ failures' = failures + 1
    /\ rejected' = TRUE
    /\ pc' = [wake("refused") EXCEPT ![r] = "failed"]
    /\ UNCHANGED <<db, response, expired, updating, answer>>

\* A request that waited goes on with what it had read before.
Resume(r) ==
    /\ \/ /\ pc[r] = "woken"
          /\ FetchOrAnswer(r, TRUE)
       \/ /\ pc[r] = "refused"
          /\ pc' = [pc EXCEPT ![r] = "failed"]
          /\ UNCHANGED <<updating, rejected, answer>>
    /\ UNCHANGED <<db, response, expired, failures>>

\* The default packs change, and time passes.
Change ==
    /\ idleLoop
    /\ db < MaxVersion
    /\ db' = db + 1
    /\ UNCHANGED <<response, expired, updating, rejected, failures, pc, answer>>

Expire ==
    /\ idleLoop
    /\ expired' = TRUE
    /\ UNCHANGED <<db, response, updating, rejected, failures, pc, answer>>

Next ==
    \/ \E r \in Requests : Ask(r)
    \/ \E r \in Requests : FetchSucceeds(r) \/ FetchFails(r) \/ Resume(r)
    \/ Change
    \/ Expire

Spec == Init /\ [][Next]_vars

\* Queries return or fail, woken continuations run, the time of the cache
\* passes and each client asks again.
Fairness ==
    /\ \A r \in Requests : WF_vars(FetchSucceeds(r) \/ FetchFails(r))
    /\ \A r \in Requests : WF_vars(Resume(r))
    /\ \A r \in Requests : SF_vars(Ask(r))
    /\ SF_vars(Expire)

FairSpec == Spec /\ Fairness

-----------------------------------------------------------------------------
(* Properties.                                                             *)

\* getDefaultAssetPacks never answers the null the response starts with (it
\* asserts so with `defaultAssetPacksCachedResponse!`): whoever finds nothing
\* cached fetches or waits.
ServesDefaultPacks ==
    \A r \in Requests : pc[r] = "answered" => answer[r] # Nothing

\* Requests that find the cache missing or expired together do not load all
\* the default packs together: one of them raises
\* isUpdatingDefaultAssetPacksCache and the others wait or take what there is,
\* the ones that wake up with "not cached" in their hands too.
OneFetchAtATime ==
    \A r, q \in Requests : pc[r] = "fetch" /\ pc[q] = "fetch" => r = q

\* The packs that are in the database now are served some day: a cache that has
\* expired is refreshed.  Unless a fetch fails: the flag it leaves behind stops
\* every later refresh.
CacheIsRefreshedUnlessFailed ==
    \A v \in Versions :
        db = v ~> failures > 0 \/ (response # Nothing /\ response >= v)

=============================================================================
