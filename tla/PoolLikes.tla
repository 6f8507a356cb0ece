------------------------------ MODULE PoolLikes ------------------------------
(***************************************************************************)
(* The likes of a pool (PoolLike.router.ts) and the counter kept in its    *)
(* row, which publishing the pool again writes too (Pool.router.ts).  The  *)
(* rest of a publication is in Projects.                                   *)
(*                                                                         *)
(* pool_likes had a primary key over the pool and the user; the migration  *)
(* that added eth_address dropped it and no later one adds another, so a   *)
(* user may have several rows.                                             *)
(***************************************************************************)
EXTENDS Integers, FiniteSets

CONSTANTS
    Users,
    Clicks,         \* PUT and DELETE /pools/:id/likes
    Owners,         \* PUT /projects/:id/pool
    MaxInFlight,    \* bound on the requests being served at a time
    MayFail         \* whether a statement may fail

ASSUME LikesAssumption ==
    /\ Users # {} /\ Clicks \cap Owners = {}
    /\ MaxInFlight \in Nat /\ MayFail \in BOOLEAN

VARIABLES
    rows,       \* rows of pool_likes: those of a user are told apart by a number
    likes,      \* pools.likes
    pc, user, like,
    hasRow,     \* first count of the Promise.all, NotRead before its answer
    counted,    \* second count
    alone,      \* no other request was served since this one arrived (ghost)
    overlapped, \* two requests have been served at the same time (ghost)
    behind,     \* the last click that wrote rows failed before the counter (ghost)
    ownerPc, ownerLikes

NotRead == -1

likeVars == <<rows, likes, pc, user, like, hasRow, counted, alone, overlapped, behind,
          ownerPc, ownerLikes>>
locals == <<user, like>>
ownerVars == <<ownerPc, ownerLikes>>

someUser == CHOOSE u \in Users : TRUE

rowsOf(by) == {row \in rows : row[1] \in by}

\* GET /pools/:id/likes, of everybody or of the caller alone.
countLikes(by) == Cardinality(rowsOf(by))

LikesInit ==
    /\ rows = {}
    /\ likes = 0
    /\ pc = [r \in Clicks |-> "idle"]
    /\ user = [r \in Clicks |-> someUser]
    /\ like = [r \in Clicks |-> TRUE]
    /\ hasRow = [r \in Clicks |-> NotRead]
    /\ counted = [r \in Clicks |-> NotRead]
    /\ alone = [r \in Clicks |-> FALSE]
    /\ overlapped = FALSE /\ behind = FALSE
    /\ ownerPc = [o \in Owners |-> "idle"]
    /\ ownerLikes = [o \in Owners |-> 0]

InFlight == {r \in Clicks : pc[r] # "idle"} \cup {o \in Owners : ownerPc[o] # "idle"}

\* A request arrives: whatever is being served is not alone any more.
Arrive(r) ==
    /\ alone' = [q \in Clicks |-> q = r /\ InFlight = {}]
    /\ overlapped' = (overlapped \/ InFlight # {})

\* The answer is sent; the locals of the request are forgotten.
Answer(r) ==
    /\ pc' = [pc EXCEPT ![r] = "idle"]
    /\ user' = [user EXCEPT ![r] = someUser]
    /\ like' = [like EXCEPT ![r] = TRUE]
    /\ hasRow' = [hasRow EXCEPT ![r] = NotRead]
    /\ counted' = [counted EXCEPT ![r] = NotRead]
    /\ alone' = [alone EXCEPT ![r] = FALSE]

-----------------------------------------------------------------------------
(* likePool and dislikePool.                                               *)

Click(r) ==
    /\ pc[r] = "idle"
    /\ Cardinality(InFlight) < MaxInFlight
    /\ \E u \in Users, isLike \in BOOLEAN :
          /\ user' = [user EXCEPT ![r] = u]
          /\ like' = [like EXCEPT ![r] = isLike]
    /\ pc' = [pc EXCEPT ![r] = "count"]
    /\ Arrive(r)
    /\ UNCHANGED <<rows, likes, hasRow, counted, behind, ownerVars>>

\* PoolLike.count({ pool_id, eth_address })
CountMine(r) ==
    /\ pc[r] = "count"
    /\ hasRow[r] = NotRead
    /\ hasRow' = [hasRow EXCEPT ![r] = countLikes({user[r]})]
    /\ UNCHANGED <<rows, likes, pc, locals, counted, alone, overlapped, behind, ownerVars>>

\* Mutant: the counter of the pool is read instead of its rows.
storedLikes == likes

\* PoolLike.count({ pool_id })
currentLikes == countLikes(Users)

CountAll(r) ==
    /\ pc[r] = "count"
    /\ counted[r] = NotRead
    /\ counted' = [counted EXCEPT ![r] = currentLikes]
    /\ UNCHANGED <<rows, likes, pc, locals, hasRow, alone, overlapped, behind, ownerVars>>

\* Mutant: a user who likes the pool already is not told apart.
neverDone(r) == FALSE

\* Liked already, or not liked: the row stays as it is.
isDone(r) == like[r] <=> hasRow[r] > 0

\* The row that PoolLike.create inserts, another one however many there are.
newRow(u) == <<u, countLikes({u}) + 1>>

\* PoolLike.create or PoolLike.delete, which deletes every row of the user.
WriteRow(r) ==
    /\ pc[r] = "count"
    /\ hasRow[r] # NotRead /\ counted[r] # NotRead
    /\ \/ /\ isDone(r)
          /\ Answer(r)
          /\ UNCHANGED <<rows, overlapped>>
       \/ /\ ~isDone(r)
          /\ rows' = IF like[r] THEN rows \cup {newRow(user[r])}
                     ELSE rows \ rowsOf({user[r]})
          /\ pc' = [pc EXCEPT ![r] = "update"]
          /\ UNCHANGED <<locals, hasRow, counted, alone, overlapped>>
    /\ UNCHANGED <<likes, behind, ownerVars>>

newLikes(r) == IF like[r] THEN counted[r] + 1
               ELSE IF counted[r] > 0 THEN counted[r] - 1 ELSE 0

UpdateLikes(r) ==
    /\ pc[r] = "update"
    /\ likes' = newLikes(r) /\ behind' = FALSE
    /\ Answer(r)
    /\ UNCHANGED <<rows, overlapped, ownerVars>>

\* A statement fails and the request with it.  There is no transaction: after
\* PoolLike.create or PoolLike.delete the rows stay as they were written.
FailClick(r) ==
    /\ MayFail
    /\ pc[r] # "idle"
    /\ behind' = (behind \/ pc[r] = "update")
    /\ Answer(r)
    /\ UNCHANGED <<rows, likes, overlapped, ownerVars>>

-----------------------------------------------------------------------------
(* upsertPool of a pool that exists: the row is read, then written whole.  *)

ReadPool(o) ==
    /\ ownerPc[o] = "idle"
    /\ Cardinality(InFlight) < MaxInFlight
    /\ ownerPc' = [ownerPc EXCEPT ![o] = "upsert"]
    /\ ownerLikes' = [ownerLikes EXCEPT ![o] = likes]
    /\ Arrive(o)
    /\ UNCHANGED <<rows, likes, pc, locals, hasRow, counted, behind>>

LeavePool(o) ==
    /\ ownerPc[o] = "upsert"
    /\ ownerPc' = [ownerPc EXCEPT ![o] = "idle"]
    /\ ownerLikes' = [ownerLikes EXCEPT ![o] = 0]
    /\ UNCHANGED <<rows, pc, locals, hasRow, counted, alone, overlapped, behind>>

UpsertPool(o) == LeavePool(o) /\ likes' = ownerLikes[o]

\* The statement fails.
FailPool(o) == MayFail /\ LeavePool(o) /\ UNCHANGED likes

-----------------------------------------------------------------------------
\* What a click does once it has arrived.
LikeStep(r) ==
    CountMine(r) \/ CountAll(r) \/ WriteRow(r) \/ UpdateLikes(r) \/ FailClick(r)

LikesNext ==
    \/ \E r \in Clicks : Click(r) \/ LikeStep(r)
    \/ \E o \in Owners : ReadPool(o) \/ UpsertPool(o) \/ FailPool(o)

\* Whoever composes the likes with the rest of a pool keeps to this: the counter
\* is written by clicks that have counted and by publications that have read it,
\* a publication of a pool that is there never starts it anew (Pool.router.ts).
LikesSpec == LikesInit /\ [][LikesNext]_likeVars

-----------------------------------------------------------------------------
(* Properties.                                                             *)

\* The counter shown with a pool is the number of its likes
\* (database-schemas.md, "Like count"), one of each user (database-schemas.md:347,
\* "Enforced by primary key", which is there no more), once no request is being
\* served, but for two cases: requests were served at the same time (a click or a
\* publication of the pool then writes a count it took before), or the last click
\* that wrote its row failed before the counter.  It is never below zero,
\* whatever overlaps or fails.
LikesAreCounted ==
    /\ likes >= 0
    /\ ~overlapped => \A u \in Users : countLikes({u}) <= 1
    /\ InFlight = {} /\ ~overlapped /\ ~behind => likes = countLikes(Users)

\* Races and failures leave a wrong counter, but not for good: likePool counts
\* the rows, so a like that nobody disturbs and that does not fail leaves the
\* right counter again.
LoneLikeRepairs ==
    [][\A r \in Clicks :
          pc[r] = "update" /\ like[r] /\ alone[r] /\ pc'[r] = "idle" /\ ~behind'
            => likes' = countLikes(Users)']_likeVars

=============================================================================
