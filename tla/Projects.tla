------------------------------ MODULE Projects ------------------------------
(***************************************************************************)
(* A project, its manifest in S3 and the pool it is published as           *)
(* (Project.router.ts, Manifest.router.ts, Pool.router.ts), composed with  *)
(* the likes of the pool:                                                  *)
(*   - "save":    PUT /projects/:id/manifest, upsertManifest;              *)
(*   - "edit":    PUT /projects/:id, upsertProject;                        *)
(*   - "delete":  DELETE /projects/:id, deleteProject;                     *)
(*   - "unsave":  DELETE /projects/:id/manifest, deleteManifest;           *)
(*   - "publish": PUT /projects/:id/pool, upsertPool.                      *)
(* The files that are uploaded are in Uploads.                             *)
(*                                                                         *)
(* A scene stands for itself and for the statistics collectStatistics      *)
(* takes of it, which are columns of the project and of the pool: its      *)
(* layout (cols and rows), which an edit writes too, and its counts.  The  *)
(* other columns a client writes, the thumbnail with them, are left out.   *)
(* The owner is the only client: the guards of the owner pass, and the     *)
(* first save of an id by somebody else is left out.  A crash is a request *)
(* all of whose remaining statements fail.                                 *)
(***************************************************************************)
EXTENDS PoolLikes

CONSTANTS
    Scenes,
    None

Kinds == {"save", "edit", "delete", "unsave", "publish"}

\* The counts are of no scene before the first save.
Statistics == [layout : Scenes, counts : Scenes \cup {None}]
ProjectRows == [deleted : BOOLEAN, statistics : Statistics]

ASSUME ProjectsAssumption ==
    None \notin Scenes \cup Kinds \cup Statistics \cup ProjectRows

VARIABLES
    project,        \* row of the project, or None
    pool,           \* statistics of the row of the pool, or None
    manifest,       \* manifest.json: the scene in it, or None
    poolFile,       \* pool.json
    work            \* locals of each request of the owner

projectVars == <<project, pool, manifest, poolFile>>
vars == <<likeVars, projectVars, work>>

\* scene: of the body; read, file: what a publication has read.
Idle == [kind |-> None, stage |-> "idle", scene |-> None, read |-> None, file |-> None,
         todo |-> {}, alone |-> FALSE]

Init ==
    /\ LikesInit
    /\ project = None /\ pool = None
    /\ manifest = None /\ poolFile = None
    /\ work = [o \in Owners |-> Idle]

-----------------------------------------------------------------------------
(* Requests.                                                               *)

served == {o \in Owners : work[o] # Idle}
mayArrive == Cardinality(served \cup InFlight) < MaxInFlight

ask(kind, stage) == [Idle EXCEPT !.kind = kind, !.stage = stage]

\* A request arrives: whatever is being served is not alone any more.
start(o, request) ==
    /\ work[o] = Idle /\ mayArrive
    /\ work' = [q \in Owners |->
                  IF q = o THEN [request EXCEPT !.alone = served = {}]
                  ELSE [work[q] EXCEPT !.alone = FALSE]]
    /\ UNCHANGED <<projectVars, likeVars>>

at(o, kind, stage) == work[o].kind = kind /\ work[o].stage = stage
answer(o) == work' = [work EXCEPT ![o] = Idle]

\* A statement of a Promise.all.
mayDo(o, kind, stage, statement) == at(o, kind, stage) /\ statement \in work[o].todo
done(o, statement) == work' = [work EXCEPT ![o].todo = @ \ {statement}]

\* The Promise.all is over, and the request with it.
AnswerAll(o) ==
    /\ work[o].stage = "write" /\ work[o].kind \in {"save", "publish"}
    /\ work[o].todo = {}
    /\ answer(o)
    /\ UNCHANGED <<projectVars, likeVars>>

isLive == project # None /\ ~project.deleted

\* Mutant: the row is written whole, the flag with it.
notDeleted(row) == FALSE

\* The body has no is_deleted (projectSchema): an upsert leaves the column alone.
keptDeleted(row) == row # None /\ row.deleted

-----------------------------------------------------------------------------
(* upsertManifest, upsertProject, deleteProject and deleteManifest.        *)

StartSave(o, scene) ==
    start(o, [ask("save", "write") EXCEPT !.scene = scene, !.todo = {"row", "file"}])

\* What the body of an edit writes, whose schema requires cols and rows; the
\* counts are not in it (projectSchema).
editedStatistics(o) ==
    [layout |-> work[o].scene,
     counts |-> IF project = None THEN None ELSE project.statistics.counts]

statisticsOf(scene) == [layout |-> scene, counts |-> scene]
collectStatistics(o) == statisticsOf(work[o].scene)

SaveRow(o) ==
    /\ mayDo(o, "save", "write", "row")
    /\ project' = [deleted |-> keptDeleted(project), statistics |-> collectStatistics(o)]
    /\ done(o, "row")
    /\ UNCHANGED <<pool, manifest, poolFile, likeVars>>

SaveFile(o) ==
    /\ mayDo(o, "save", "write", "file")
    /\ manifest' = work[o].scene
    /\ done(o, "file")
    /\ UNCHANGED <<project, pool, poolFile, likeVars>>

StartEdit(o, scene) == start(o, [ask("edit", "write") EXCEPT !.scene = scene])

UpsertProject(o) ==
    /\ at(o, "edit", "write")
    /\ project' = [deleted |-> keptDeleted(project), statistics |-> editedStatistics(o)]
    /\ answer(o)
    /\ UNCHANGED <<pool, manifest, poolFile, likeVars>>

StartDelete(o) == isLive /\ start(o, ask("delete", "write"))

DeleteProject(o) ==
    /\ at(o, "delete", "write")
    /\ project' = [project EXCEPT !.deleted = TRUE]
    /\ answer(o)
    /\ UNCHANGED <<pool, manifest, poolFile, likeVars>>

\* The route asks for the owner of the project, not that it is not deleted.
StartUnsave(o) == project # None /\ start(o, ask("unsave", "write"))

DeleteManifest(o) ==
    /\ at(o, "unsave", "write")
    /\ manifest' = None
    /\ answer(o)
    /\ UNCHANGED <<project, pool, poolFile, likeVars>>

-----------------------------------------------------------------------------
(* upsertPool.                                                             *)

StartPublish(o) ==
    isLive /\ start(o, [ask("publish", "read") EXCEPT !.todo = {"rows", "file"}])

\* The reads of the Promise.all: the rows, in one step, and the manifest.
ReadRows(o) ==
    /\ mayDo(o, "publish", "read", "rows")
    /\ ReadPool(o)
    /\ work' = [work EXCEPT ![o].todo = @ \ {"rows"}, ![o].read = project.statistics]
    /\ UNCHANGED projectVars

\* A read that fails is a file that is not there (S3Model.readFile).
ReadManifest(o) ==
    /\ mayDo(o, "publish", "read", "file")
    /\ \/ work' = [work EXCEPT ![o].todo = @ \ {"file"}, ![o].file = manifest]
       \/ /\ MayFail
          /\ work' = [work EXCEPT ![o].todo = @ \ {"file"}, ![o].alone = FALSE]
    /\ UNCHANGED <<projectVars, likeVars>>

WritePool(o) ==
    /\ at(o, "publish", "read") /\ work[o].todo = {}
    /\ work' = [work EXCEPT ![o].stage = "write",
                  ![o].todo = {"row"} \cup (IF work[o].file = None THEN {} ELSE {"file"})]
    /\ UNCHANGED <<projectVars, likeVars>>

StorePool(o) ==
    /\ mayDo(o, "publish", "write", "row")
    /\ UpsertPool(o)
    /\ pool' = work[o].read
    /\ done(o, "row")
    /\ UNCHANGED <<project, manifest, poolFile>>

StorePoolFile(o) ==
    /\ mayDo(o, "publish", "write", "file")
    /\ poolFile' = work[o].file
    /\ done(o, "file")
    /\ UNCHANGED <<project, pool, manifest, likeVars>>

-----------------------------------------------------------------------------
\* A statement of a Promise.all fails, the others go on; the answer is an error.
FailOne(o) ==
    /\ MayFail
    /\ work[o].stage = "write"
    /\ \E statement \in work[o].todo :
          /\ work' = [work EXCEPT ![o].todo = @ \ {statement}, ![o].alone = FALSE]
          /\ IF work[o].kind = "publish" /\ statement = "row" THEN FailPool(o)
             ELSE UNCHANGED likeVars
    /\ UNCHANGED projectVars

\* A step of any other request fails, or a read of the rows.
Fail(o) ==
    /\ MayFail
    /\ \/ work[o].kind \in {"edit", "delete", "unsave"}
       \/ mayDo(o, "publish", "read", "rows")
    /\ answer(o)
    /\ UNCHANGED <<projectVars, likeVars>>

Start(o) ==
    \/ \E scene \in Scenes : StartSave(o, scene) \/ StartEdit(o, scene)
    \/ StartDelete(o) \/ StartUnsave(o) \/ StartPublish(o)

Step(o) ==
    \/ SaveRow(o) \/ SaveFile(o)
    \/ UpsertProject(o) \/ DeleteProject(o) \/ DeleteManifest(o)
    \/ ReadRows(o) \/ ReadManifest(o) \/ WritePool(o) \/ StorePool(o) \/ StorePoolFile(o)
    \/ AnswerAll(o) \/ FailOne(o) \/ Fail(o)

-----------------------------------------------------------------------------
(* Reads, each behind the checks of its route.                             *)

getProject == IF isLive THEN {project} ELSE {}

\* The manifest in S3; the route asks for a project that is not deleted.
getProjectManifest == IF isLive THEN manifest ELSE None

\* GET /manifests: of the projects of the caller, those that have one.
getManifests == IF isLive THEN {manifest} \ {None} ELSE {}

\* Any project, a deleted one too.
getPoolManifest == IF project # None THEN poolFile ELSE None

\* Without a pool the answer holds nothing but the like.
getPool(u) == [statistics |-> pool, like |-> countLikes({u}) > 0]

-----------------------------------------------------------------------------
\* withModelExists(Pool) is in front of the likes.
Like(r) == pool # None /\ mayArrive /\ Click(r)

Next ==
    \/ \E o \in Owners : Start(o) \/ Step(o)
    \/ \E r \in Clicks : (Like(r) \/ LikeStep(r)) /\ UNCHANGED <<projectVars, work>>

Spec == Init /\ [][Next]_vars

-----------------------------------------------------------------------------
(* Properties.                                                             *)

\* A deleted project stays deleted, and neither it nor its manifest is read any
\* more: a save that was checked before ends after, and the routes of the saves
\* do not ask whether it is deleted.
DeletedStaysDeleted ==
    [][project # None /\ project.deleted =>
          getProject' = {} /\ getManifests' = {} /\ getProjectManifest' = None]_vars

isAnswered(o, kind) ==
    /\ work[o].kind = kind /\ work[o].todo = {} /\ work'[o] = Idle
    /\ work[o].alone

\* The row has the statistics of the manifest.
isWhole == manifest # None /\ project.statistics = statisticsOf(manifest)

\* Saves, edits and publications that cross, or fail halfway, leave a row with the
\* statistics of one scene, or of two, next to the file of another, but not for
\* good: a save that nobody disturbs and that does not fail makes the project its
\* owner reads whole, a publication after it the pool that everybody reads.
LoneRequestsRepair ==
    [][\A o \in Owners :
          /\ isAnswered(o, "save") =>
                 \A row \in getProject' :
                     /\ row.statistics = statisticsOf(getProjectManifest')
                     /\ getManifests' = {getProjectManifest'}
          /\ isAnswered(o, "publish") /\ isWhole =>
                 \A u \in Users :
                     getPool(u)'.statistics = statisticsOf(getPoolManifest')]_vars

-----------------------------------------------------------------------------
(* What the proofs of the last two properties rest on.                     *)

Work == [kind : Kinds \cup {None}, stage : {"idle", "read", "write"},
         scene : Scenes \cup {None}, read : Statistics \cup {None},
         file : Scenes \cup {None},
         todo : SUBSET {"row", "rows", "file"}, alone : BOOLEAN]

\* Rows, files and locals keep their types; a save and an edit carry a scene, and
\* the row that a deletion or a publication was let in for is still there.
TypeOK ==
    /\ project \in ProjectRows \cup {None}
    /\ pool \in Statistics \cup {None}
    /\ {manifest, poolFile} \subseteq Scenes \cup {None}
    /\ work \in [Owners -> Work]
    /\ \A o \in Owners :
          /\ work[o].kind \in {"save", "edit"} => work[o].scene \in Scenes
          /\ work[o].kind \in {"delete", "publish"} => project # None

\* Up to where a request that nobody disturbs has come, and what is stored by then.
SavedSoFar(o) ==
    /\ "row" \notin work[o].todo =>
           project # None /\ project.statistics = statisticsOf(work[o].scene)
    /\ "file" \notin work[o].todo => manifest = work[o].scene

ReadSoFar(o) ==
    /\ "rows" \notin work[o].todo => work[o].read = project.statistics
    /\ "file" \notin work[o].todo => work[o].file = manifest

PublishedSoFar(o) ==
    /\ work[o].read = project.statistics /\ work[o].file = manifest
    /\ "row" \notin work[o].todo => pool = work[o].read
    /\ "file" \notin work[o].todo /\ manifest # None => poolFile = manifest

ProgressOf(o) ==
    /\ \A q \in Owners \ {o} : work[q] = Idle
    /\ work[o].kind = "save" => SavedSoFar(o)
    /\ work[o].kind = "publish" =>
           IF work[o].stage = "read" THEN ReadSoFar(o) ELSE PublishedSoFar(o)

LoneProgress == \A o \in Owners : work[o].alone => ProgressOf(o)

=============================================================================
