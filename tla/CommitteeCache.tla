--------------------------- MODULE CommitteeCache ---------------------------
(***************************************************************************)
(* The committee every authorization asks for (isCommitteeMember,          *)
(* Committee/utils.ts): fetched from the graph when there is none or a     *)
(* timer has asked for it, by every request that finds it so.              *)
(***************************************************************************)
EXTENDS Integers, FiniteSets, TLAPS

CONSTANTS
    Requests,
    MaxVersion,     \* bound on the changes of the committee
    MaxTimers,      \* bound on the timers that are running
    Nothing         \* no committee is known, or read

Versions == 1 .. MaxVersion

ASSUME CommitteeCacheAssumption ==
    /\ MaxVersion \in Nat \ {0}
    /\ MaxTimers \in Nat \ {0}
    /\ Nothing \notin Versions

VARIABLES
    graph,          \* version of the committee in the graph
    committee,      \* version of the committee that is known
    shouldUpdate,   \* shouldUpdateCommittee
    timers,         \* timers that will set it
    pc,
    fetched         \* version the graph answered with

vars == <<graph, committee, shouldUpdate, timers, pc, fetched>>

TypeOK ==
    /\ graph \in Versions
    /\ committee \in Versions \cup {Nothing}
    /\ shouldUpdate \in BOOLEAN
    /\ timers \in Nat
    /\ pc \in [Requests -> {"idle", "query", "receive"}]
    /\ fetched \in [Requests -> Versions \cup {Nothing}]

Init ==
    /\ graph = 1
    /\ committee = Nothing
    /\ shouldUpdate = FALSE
    /\ timers = 0
    /\ pc = [r \in Requests |-> "idle"]
    /\ fetched = [r \in Requests |-> Nothing]

Fetching == {r \in Requests : pc[r] # "idle"}

\* Mutant: the timer alone makes requests fetch.
mustFetchOnTimer == shouldUpdate

mustFetch == committee = Nothing \/ shouldUpdate

\* A request that need not fetch is answered at once, with no other effect.
Ask(r) ==
    /\ pc[r] = "idle"
    /\ mustFetch
    /\ timers + Cardinality(Fetching) < MaxTimers
    /\ pc' = [pc EXCEPT ![r] = "query"]
    /\ UNCHANGED <<graph, committee, shouldUpdate, timers, fetched>>

\* fetchCommittee: the graph reads its committee, and the answer travels.
Query(r) ==
    /\ pc[r] = "query"
    /\ fetched' = [fetched EXCEPT ![r] = graph]
    /\ pc' = [pc EXCEPT ![r] = "receive"]
    /\ UNCHANGED <<graph, committee, shouldUpdate, timers>>

forget(r) ==
    /\ pc' = [pc EXCEPT ![r] = "idle"]
    /\ fetched' = [fetched EXCEPT ![r] = Nothing]

\* Mutant: only the first fetch starts the timer.
firstTimer == IF committee = Nothing THEN timers + 1 ELSE timers

timersAfterFetch == timers + 1

Receive(r) ==
    /\ pc[r] = "receive"
    /\ committee' = fetched[r]
    /\ timers' = timersAfterFetch
    /\ shouldUpdate' = FALSE
    /\ forget(r)
    /\ UNCHANGED graph

\* The graph does not answer: the request fails, nothing else changes.
Fail(r) ==
    /\ pc[r] \in {"query", "receive"}
    /\ forget(r)
    /\ UNCHANGED <<graph, committee, shouldUpdate, timers>>

Tick ==
    /\ timers > 0
    /\ timers' = timers - 1
    /\ shouldUpdate' = TRUE
    /\ UNCHANGED <<graph, committee, pc, fetched>>

Change ==
    /\ graph < MaxVersion
    /\ graph' = graph + 1
    /\ UNCHANGED <<committee, shouldUpdate, timers, pc, fetched>>

Next ==
    \/ \E r \in Requests : Ask(r) \/ Query(r) \/ Receive(r) \/ Fail(r)
    \/ Tick
    \/ Change

Spec == Init /\ [][Next]_vars

\* Timers run, requests are served, somebody goes on asking, and the graph
\* answers again and again.
Fairness ==
    /\ WF_vars(Tick)
    /\ \A r \in Requests : SF_vars(Ask(r)) /\ SF_vars(Query(r)) /\ SF_vars(Receive(r))

FairSpec == Spec /\ Fairness

-----------------------------------------------------------------------------
(* Properties.                                                             *)

\* A committee that is known is never known for ever: whatever order the
\* answers and the timers arrive in, a refresh is asked for or a timer runs.
RefreshIsPending == committee # Nothing => shouldUpdate \/ timers > 0

\* A member that joins or leaves the committee is seen some day, also when
\* answers overtake each other.
CommitteeSettles == <>[](committee = graph)

-----------------------------------------------------------------------------
(* Proof of RefreshIsPending, for any number of requests and timers.       *)

Inv == TypeOK /\ RefreshIsPending

\* In every state a committee that is known has a timer running, or its
\* refresh is asked for already; the types make the invariant inductive.
THEOREM RefreshInvariant == Spec => []Inv
<1>1. Init => Inv
    <2> SUFFICES ASSUME Init PROVE Inv
        OBVIOUS
    <2>1. graph \in Versions /\ timers \in Nat
        BY CommitteeCacheAssumption DEF Init, Versions
    <2> QED
        BY <2>1 DEF Init, Inv, TypeOK, RefreshIsPending
<1>2. Inv /\ [Next]_vars => Inv'
    <2> SUFFICES ASSUME Inv, [Next]_vars PROVE Inv'
        OBVIOUS
    <2> USE DEF Inv, TypeOK, RefreshIsPending
    <2>1. ASSUME NEW r \in Requests, Ask(r) PROVE Inv'
        BY <2>1 DEF Ask
    <2>2. ASSUME NEW r \in Requests, Query(r) PROVE Inv'
        BY <2>2 DEF Query
    <2>3. ASSUME NEW r \in Requests, Receive(r) PROVE Inv'
        <3>1. timers' \in Nat /\ timers' > 0
            BY <2>3 DEF Receive, timersAfterFetch
        <3>2. TypeOK'
            BY <2>3, <3>1 DEF Receive, forget
        <3> QED
            BY <3>1, <3>2
    <2>4. ASSUME NEW r \in Requests, Fail(r) PROVE Inv'
        BY <2>4 DEF Fail, forget
    <2>5. CASE Tick
        BY <2>5 DEF Tick
    <2>6. CASE Change
        BY <2>6, CommitteeCacheAssumption DEF Change, Versions
    <2>7. CASE UNCHANGED vars
        BY <2>7 DEF vars
    <2> QED
        BY <2>1, <2>2, <2>3, <2>4, <2>5, <2>6, <2>7 DEF Next
<1> QED
    BY <1>1, <1>2, PTL DEF Spec

\* The refresh of the committee is never lost, however many requests fetch it
\* at once and whichever of them fail.
THEOREM RefreshNeverLost == Spec => []RefreshIsPending
<1>1. Inv => RefreshIsPending
    BY DEF Inv
<1> QED
    BY RefreshInvariant, <1>1, PTL

=============================================================================
