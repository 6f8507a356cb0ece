----------------------- MODULE DefaultPacksCache_proofs -----------------------
(***************************************************************************)
(* No request is answered with the response the cache does not have, and   *)
(* one at a time fetches, for any number of requests, versions, failures.  *)
(***************************************************************************)
EXTENDS DefaultPacksCache, TLAPS

\* A request that was woken up finds a response.
WokenFindResponse ==
    \A r \in Requests : pc[r] = "woken" => response # Nothing

\* Whoever fetches has raised the flag.
FetchersRaiseFlag == \A r \in Requests : pc[r] = "fetch" => updating

Inv == TypeOK /\ ServesDefaultPacks /\ WokenFindResponse
       /\ FetchersRaiseFlag /\ OneFetchAtATime

LEMMA FetchOrAnswerInv ==
    ASSUME Inv, NEW r \in Requests, NEW missing \in BOOLEAN,
           FetchOrAnswer(r, missing), ~missing \/ ~updating \/ pc[r] = "woken",
           missing \/ response # Nothing,
           UNCHANGED <<db, response, expired, failures>>
    PROVE  Inv'
<1> USE DEF Inv, FetchOrAnswer
<1>1. TypeOK'
    BY DEF TypeOK, InFlight
<1>2. CASE mayFetch(missing)
    BY <1>1, <1>2
    DEF mayFetch, TypeOK, ServesDefaultPacks, WokenFindResponse, FetchersRaiseFlag, OneFetchAtATime
<1>3. CASE ~mayFetch(missing)
    <2>1. response # Nothing
        BY <1>3 DEF mayFetch, WokenFindResponse
    <2> QED
        BY <1>1, <1>3, <2>1 DEF TypeOK, ServesDefaultPacks, WokenFindResponse,
            FetchersRaiseFlag, OneFetchAtATime
<1> QED
    BY <1>2, <1>3

\* A woken request finds a response, so no answer is empty, and a fetch keeps
\* the flag raised: the inductive invariant of the cache.
THEOREM CacheInvariant == Spec => []Inv
<1>1. Init => Inv
    <2> SUFFICES ASSUME Init PROVE Inv
        OBVIOUS
    <2>1. db \in Versions /\ failures \in 0 .. MaxFailures
        BY CacheAssumption DEF Init, Versions
    <2>2. TypeOK
        BY <2>1 DEF Init, TypeOK, InFlight
    <2>3. ServesDefaultPacks /\ WokenFindResponse /\ FetchersRaiseFlag /\ OneFetchAtATime
        BY DEF Init, ServesDefaultPacks, WokenFindResponse,
            FetchersRaiseFlag, OneFetchAtATime
    <2> QED
        BY <2>2, <2>3 DEF Inv
<1>2. Inv /\ [Next]_vars => Inv'
    <2> SUFFICES ASSUME Inv, [Next]_vars PROVE Inv'
        OBVIOUS
    <2> USE DEF Inv
    <2>1. ASSUME NEW r \in Requests, Ask(r) PROVE Inv'
        <3>1. CASE mustWait
            <4>1. TypeOK'
                BY <2>1, <3>1 DEF Ask, FetchOrAnswer, TypeOK, InFlight
            <4> QED
                BY <2>1, <3>1, <4>1
                DEF Ask, TypeOK, ServesDefaultPacks, WokenFindResponse,
                    FetchersRaiseFlag, OneFetchAtATime
        <3>2. CASE ~mustWait
            BY <2>1, <3>2, FetchOrAnswerInv DEF Ask, mustWait, isNotCached
        <3> QED
            BY <3>1, <3>2
    <2>2. ASSUME NEW r \in Requests, FetchSucceeds(r) PROVE Inv'
        <3>1. TypeOK'
            BY <2>2, CacheAssumption
            DEF FetchSucceeds, TypeOK, InFlight, wake, updatingAfterFetch
        <3>2. ServesDefaultPacks'
            BY <2>2, <3>1, CacheAssumption
            DEF FetchSucceeds, TypeOK, wake, ServesDefaultPacks
        <3>3. WokenFindResponse'
            BY <2>2, CacheAssumption DEF FetchSucceeds, TypeOK, WokenFindResponse
        <3>4. FetchersRaiseFlag' /\ OneFetchAtATime'
            BY <2>2 DEF FetchSucceeds, TypeOK, wake, FetchersRaiseFlag, OneFetchAtATime
        <3> QED
            BY <3>1, <3>2, <3>3, <3>4
    <2>3. ASSUME NEW r \in Requests, FetchFails(r) PROVE Inv'
        <3>1. TypeOK'
            BY <2>3, CacheAssumption DEF FetchFails, TypeOK, InFlight, wake
        <3>2. ServesDefaultPacks' /\ WokenFindResponse'
            BY <2>3 DEF FetchFails, TypeOK, wake, ServesDefaultPacks, WokenFindResponse
        <3>3. FetchersRaiseFlag' /\ OneFetchAtATime'
            BY <2>3 DEF FetchFails, TypeOK, wake, FetchersRaiseFlag, OneFetchAtATime
        <3> QED
            BY <3>1, <3>2, <3>3
    <2>4. ASSUME NEW r \in Requests, Resume(r) PROVE Inv'
        <3>1. CASE pc[r] = "woken"
            BY <2>4, <3>1, FetchOrAnswerInv DEF Resume
        <3>2. CASE pc[r] # "woken"
            <4>1. TypeOK'
                BY <2>4, <3>2 DEF Resume, TypeOK, InFlight
            <4>2. /\ pc' = [pc EXCEPT ![r] = "failed"]
                  /\ pc \in [Requests -> {"idle", "answered", "failed"} \cup InFlight]
                  /\ UNCHANGED <<response, updating, answer>>
                BY <2>4, <3>2 DEF Resume, TypeOK
            <4>3. ServesDefaultPacks' /\ WokenFindResponse'
                BY <4>2 DEF ServesDefaultPacks, WokenFindResponse
            <4>4. FetchersRaiseFlag' /\ OneFetchAtATime'
                BY <4>2 DEF FetchersRaiseFlag, OneFetchAtATime
            <4> QED
                BY <4>1, <4>3, <4>4
        <3> QED
            BY <3>1, <3>2
    <2>5. CASE Change
        BY <2>5, CacheAssumption
        DEF Change, TypeOK, Versions, ServesDefaultPacks, WokenFindResponse,
            FetchersRaiseFlag, OneFetchAtATime
    <2>6. CASE Expire
        BY <2>6 DEF Expire, TypeOK, ServesDefaultPacks, WokenFindResponse,
            FetchersRaiseFlag, OneFetchAtATime
    <2>7. CASE UNCHANGED vars
        BY <2>7 DEF vars, TypeOK, ServesDefaultPacks, WokenFindResponse,
            FetchersRaiseFlag, OneFetchAtATime
    <2> QED
        BY <2>1, <2>2, <2>3, <2>4, <2>5, <2>6, <2>7 DEF Next
<1> QED
    BY <1>1, <1>2, PTL DEF Spec

\* No request is answered with the null the cached response starts with,
\* however requests, failing fetches and the expiry of the cache interleave.
THEOREM AnswersAreNeverEmpty == Spec => []ServesDefaultPacks
<1>1. Inv => ServesDefaultPacks
    BY DEF Inv
<1> QED
    BY CacheInvariant, <1>1, PTL

\* However requests, failing fetches and the expiry of the cache interleave, two
\* requests never load the default packs at once.
THEOREM FetchesAreExclusive == Spec => []OneFetchAtATime
<1>1. Inv => OneFetchAtATime
    BY DEF Inv
<1> QED
    BY CacheInvariant, <1>1, PTL

=============================================================================
