--------------------------- MODULE Projects_proofs ---------------------------
(***************************************************************************)
(* Theorems about a project, its pool, the likes of it and the files that  *)
(* are uploaded, for any number of requests, scenes, users and files, with *)
(* failures and without.                                                   *)
(*                                                                         *)
(* A deleted project stays deleted because no statement but the one of the *)
(* deletion writes the flag.  A request that nobody disturbs repairs what  *)
(* races left because it is the only one there is (LoneProgress): nobody   *)
(* writes between two of its statements, so that each leaves what it has   *)
(* written or read as it is in the database and in S3 until the answer.    *)
(*                                                                         *)
(* The likes are counted before they are written.  A click that nobody     *)
(* disturbs still has the right count when it writes it (AloneCounts);     *)
(* without overlaps every click does that does not fail, and a publication *)
(* writes back the counter that is there (SerialCounts).                   *)
(*                                                                         *)
(* An upload does what FileStore promises because the object it copies is  *)
(* its own, under a name nobody else has, and is there until it is copied  *)
(* (ObjectsAreOwn).                                                        *)
(***************************************************************************)
EXTENDS Projects, Uploads, FiniteSetTheorems, TLAPS

-----------------------------------------------------------------------------
(* Types.                                                                  *)

\* What the locals of a request must be for the statements still to come.
LocalsFit(asked, row) ==
    /\ asked \in Work
    /\ asked.kind \in {"save", "edit"} => asked.scene \in Scenes
    /\ asked.kind \in {"delete", "publish"} => row # None

\* The rows and the files.
TablesFit ==
    /\ project \in ProjectRows \cup {None}
    /\ pool \in Statistics \cup {None}
    /\ manifest \in Scenes \cup {None}
    /\ poolFile \in Scenes \cup {None}

LEMMA TypeOKParts ==
    TypeOK <=> /\ TablesFit
               /\ work \in [Owners -> Work]
               /\ \A o \in Owners : LocalsFit(work[o], project)
BY DEF TypeOK, TablesFit, LocalsFit

LEMMA IdleFits == ASSUME NEW row PROVE LocalsFit(Idle, row)
BY ProjectsAssumption DEF LocalsFit, Idle, Work, Kinds

\* A request that starts is not one of those in hand, and writes nothing yet.
LEMMA StartFits ==
    ASSUME TypeOK, NEW o \in Owners, NEW request, LocalsFit(request, project),
           start(o, request)
    PROVE  /\ work' \in [Owners -> Work] /\ \A q \in Owners : LocalsFit(work'[q], project)
           /\ UNCHANGED projectVars
<1>1. \A asked, flag : LocalsFit(asked, project) /\ flag \in BOOLEAN
                         => LocalsFit([asked EXCEPT !.alone = flag], project)
  BY DEF LocalsFit, Work
<1>2. \A q \in Owners : LocalsFit(work[q], project)
  BY TypeOKParts
<1>3. (served = {}) \in BOOLEAN
  OBVIOUS
<1>4. ASSUME NEW q \in Owners PROVE LocalsFit(work'[q], project)
  <2>1. LocalsFit([request EXCEPT !.alone = served = {}], project)
    BY <1>1, <1>3
  <2>2. LocalsFit([work[q] EXCEPT !.alone = FALSE], project)
    BY <1>1, <1>2
  <2> QED
    BY <2>1, <2>2 DEF start
<1>5. work' = [q \in Owners |-> work'[q]]
  BY DEF start
<1> QED
  BY <1>4, <1>5 DEF start, LocalsFit

\* A statement changes the locals of its own request and keeps the row there is.
LEMMA StatementFits ==
    ASSUME TypeOK, NEW o \in Owners, NEW asked, LocalsFit(asked, project'),
           work' = [work EXCEPT ![o] = asked], TablesFit',
           project # None => project' # None
    PROVE  TypeOK'
<1>1. \A q \in Owners : LocalsFit(work'[q], project')
  <2>1. \A q \in Owners : LocalsFit(work[q], project)
    BY TypeOKParts
  <2>2. ASSUME NEW q \in Owners PROVE LocalsFit(work[q], project')
    BY <2>1 DEF LocalsFit
  <2> QED
    BY <2>2 DEF TypeOK
<1>2. work' \in [Owners -> Work]
  BY DEF TypeOK, LocalsFit
<1> QED
  BY <1>1, <1>2 DEF TypeOK, TablesFit, LocalsFit

\* Where a request starts: nothing stored, and all it has to do still to do.
IsFresh(asked) ==
    /\ LocalsFit(asked, project)
    /\ asked.kind = "save" => asked.todo = {"row", "file"}
    /\ asked.kind = "publish" => asked.stage = "read" /\ asked.todo = {"rows", "file"}

LEMMA StartsFresh ==
    ASSUME TypeOK, NEW o \in Owners, Start(o)
    PROVE  \E request : IsFresh(request) /\ start(o, request)
<1>1. ASSUME NEW scene \in Scenes, StartSave(o, scene)
      PROVE  \E request : IsFresh(request) /\ start(o, request)
  <2>1. IsFresh([ask("save", "write") EXCEPT !.scene = scene, !.todo = {"row", "file"}])
    BY ProjectsAssumption DEF IsFresh, LocalsFit, ask, Idle, Work, Kinds
  <2> QED
    BY <1>1, <2>1 DEF StartSave
<1>2. ASSUME NEW scene \in Scenes, StartEdit(o, scene)
      PROVE  \E request : IsFresh(request) /\ start(o, request)
  <2>1. IsFresh([ask("edit", "write") EXCEPT !.scene = scene])
    BY ProjectsAssumption DEF IsFresh, LocalsFit, ask, Idle, Work, Kinds
  <2> QED
    BY <1>2, <2>1 DEF StartEdit
<1>3. CASE StartDelete(o)
  <2>1. IsFresh(ask("delete", "write"))
    BY <1>3, ProjectsAssumption DEF IsFresh, LocalsFit, ask, Idle, Work, Kinds, isLive, StartDelete
  <2> QED
    BY <1>3, <2>1 DEF StartDelete
<1>4. CASE StartUnsave(o)
  <2>1. IsFresh(ask("unsave", "write"))
    BY ProjectsAssumption DEF IsFresh, LocalsFit, ask, Idle, Work, Kinds
  <2> QED
    BY <1>4, <2>1 DEF StartUnsave
<1>5. CASE StartPublish(o)
  <2>1. IsFresh([ask("publish", "read") EXCEPT !.todo = {"rows", "file"}])
    BY <1>5, ProjectsAssumption DEF IsFresh, LocalsFit, ask, Idle, Work, Kinds, isLive, StartPublish
  <2> QED
    BY <1>5, <2>1 DEF StartPublish
<1> QED
  BY <1>1, <1>2, <1>3, <1>4, <1>5 DEF Start

LEMMA StartTypes ==
    ASSUME TypeOK, NEW o \in Owners, Start(o)
    PROVE  TypeOK' /\ UNCHANGED projectVars
<1>1. PICK request : IsFresh(request) /\ start(o, request)
  BY StartsFresh
<1> QED
  BY <1>1, StartFits, TypeOKParts DEF IsFresh, TypeOK, projectVars, LocalsFit

LEMMA StepTypes ==
    ASSUME TypeOK, NEW o \in Owners, Step(o)
    PROVE  TypeOK'
<1>1. LocalsFit(work[o], project) /\ TablesFit
  BY TypeOKParts
<1>2. \A row : LocalsFit(Idle, row)
  BY IdleFits
<1>3. CASE SaveRow(o)
  <2>1. project' = [deleted |-> keptDeleted(project), statistics |-> statisticsOf(work[o].scene)]
    BY <1>3 DEF SaveRow, collectStatistics
  <2>2. keptDeleted(project) \in BOOLEAN
    BY <1>1 DEF keptDeleted, TablesFit, ProjectRows
  <2>3. project' \in ProjectRows /\ project' # None
    <3>1. work[o].scene \in Scenes
      BY <1>1, <1>3 DEF LocalsFit, SaveRow, mayDo, at
    <3> QED
      BY <2>1, <2>2, <3>1, ProjectsAssumption DEF ProjectRows, Statistics, statisticsOf
  <2>4. LocalsFit([work[o] EXCEPT !.todo = @ \ {"row"}], project')
    BY <1>1, <2>3 DEF LocalsFit, Work
  <2> QED
    BY <1>1, <1>3, <2>3, <2>4, StatementFits DEF SaveRow, done, TablesFit
<1>4. CASE SaveFile(o)
  <2>1. LocalsFit([work[o] EXCEPT !.todo = @ \ {"file"}], project')
    BY <1>1, <1>4 DEF LocalsFit, Work, SaveFile
  <2> QED
    BY <1>1, <1>4, <2>1, StatementFits DEF SaveFile, done, TablesFit, LocalsFit, Work
<1>5. CASE UpsertProject(o)
  <2>1. keptDeleted(project) \in BOOLEAN
    BY <1>1 DEF keptDeleted, TablesFit, ProjectRows
  <2>2. project' \in ProjectRows /\ project' # None
    <3>1. editedStatistics(o) \in Statistics
      BY <1>1, <1>5 DEF editedStatistics, Statistics, UpsertProject, at, LocalsFit, TablesFit,
                        ProjectRows
    <3> QED
      BY <1>5, <2>1, <3>1, ProjectsAssumption DEF ProjectRows, UpsertProject
  <2> QED
    BY <1>1, <1>2, <1>5, <2>2, StatementFits DEF UpsertProject, answer, TablesFit
<1>6. CASE DeleteProject(o)
  <2>1. project # None
    BY <1>1, <1>6 DEF LocalsFit, DeleteProject, at
  <2>2. project' \in ProjectRows /\ project' # None
    BY <1>1, <1>6, <2>1, ProjectsAssumption DEF ProjectRows, DeleteProject, TablesFit
  <2> QED
    BY <1>1, <1>2, <1>6, <2>2, StatementFits DEF DeleteProject, answer, TablesFit
<1>7. CASE DeleteManifest(o)
  BY <1>1, <1>2, <1>7, StatementFits DEF DeleteManifest, answer, TablesFit
<1>8. CASE ReadRows(o)
  <2>1. project # None /\ UNCHANGED projectVars
    BY <1>1, <1>8 DEF ReadRows, mayDo, at, LocalsFit
  <2>2. LocalsFit([work[o] EXCEPT !.todo = @ \ {"rows"}, !.read = project.statistics], project)
    BY <1>1, <1>8, <2>1 DEF LocalsFit, Work, TablesFit, ProjectRows, ReadRows, mayDo, at
  <2> QED
    BY <1>1, <1>8, <2>1, <2>2, StatementFits DEF ReadRows, TablesFit, projectVars
<1>9. CASE ReadManifest(o)
  <2>1. /\ work' \in [Owners -> Work]
        /\ \A q \in Owners : work'[q].kind = work[q].kind /\ work'[q].scene = work[q].scene
    BY <1>1, <1>9 DEF ReadManifest, TypeOK, TablesFit, Work
  <2> QED
    BY <2>1, <1>9 DEF ReadManifest, TypeOK, projectVars
<1>10. CASE WritePool(o)
  <2>1. LocalsFit([work[o] EXCEPT !.stage = "write",
                     !.todo = {"row"} \cup (IF work[o].file = None THEN {} ELSE {"file"})],
                  project)
    BY <1>1 DEF LocalsFit, Work
  <2> QED
    BY <1>1, <1>10, <2>1, StatementFits DEF WritePool, TablesFit, projectVars
<1>11. CASE StorePool(o)
  <2>1. LocalsFit([work[o] EXCEPT !.todo = @ \ {"row"}], project')
    BY <1>1, <1>11 DEF LocalsFit, Work, StorePool
  <2> QED
    BY <1>1, <1>11, <2>1, StatementFits DEF StorePool, done, TablesFit, LocalsFit, Work
<1>12. CASE StorePoolFile(o)
  <2>1. LocalsFit([work[o] EXCEPT !.todo = @ \ {"file"}], project')
    BY <1>1, <1>12 DEF LocalsFit, Work, StorePoolFile
  <2> QED
    BY <1>1, <1>12, <2>1, StatementFits
       DEF StorePoolFile, done, TablesFit, LocalsFit, Work
<1>13. CASE AnswerAll(o)
  BY <1>1, <1>2, <1>13, StatementFits DEF AnswerAll, answer, TablesFit, projectVars
<1>14. CASE FailOne(o)
  <2>1. /\ work' \in [Owners -> Work]
        /\ \A q \in Owners : work'[q].kind = work[q].kind /\ work'[q].scene = work[q].scene
    <3>1. PICK statement \in work[o].todo :
              work' = [work EXCEPT ![o].todo = @ \ {statement}, ![o].alone = FALSE]
      BY <1>14 DEF FailOne
    <3> DEFINE left == work[o].todo \ {statement}
    <3>2. left \subseteq {"row", "rows", "file"}
      BY DEF TypeOK, Work
    <3>3. work' = [work EXCEPT ![o].todo = left, ![o].alone = FALSE]
      BY <3>1
    <3> HIDE DEF left
    <3>4. work' \in [Owners -> Work]
      <4>1. [work[o] EXCEPT !.todo = left, !.alone = FALSE] \in Work
        BY <3>2 DEF TypeOK, Work
      <4>2. \A q \in Owners :
               work'[q] = IF q = o THEN [work[o] EXCEPT !.todo = left, !.alone = FALSE]
                          ELSE work[q]
        BY <3>3 DEF TypeOK
      <4>3. work' = [q \in Owners |-> work'[q]]
        BY <3>3 DEF TypeOK
      <4> QED
        BY <4>1, <4>2, <4>3 DEF TypeOK
    <3>5. \A q \in Owners : work'[q].kind = work[q].kind /\ work'[q].scene = work[q].scene
      BY <3>3 DEF TypeOK, Work
    <3> QED
      BY <3>4, <3>5
  <2> QED
    BY <2>1, <1>14 DEF FailOne, TypeOK, projectVars
<1>15. CASE Fail(o)
  BY <1>1, <1>2, <1>15, StatementFits DEF Fail, answer, TablesFit, projectVars
<1> QED
  BY <1>3, <1>4, <1>5, <1>6, <1>7, <1>8, <1>9, <1>10, <1>11, <1>12, <1>13,
     <1>14, <1>15 DEF Step

\* A step of a like writes nothing of the project.
LEMMA NextTypes ==
    ASSUME TypeOK, [Next]_vars
    PROVE  TypeOK'
<1>1. CASE UNCHANGED <<projectVars, work>>
  BY <1>1 DEF TypeOK, projectVars
<1>2. ASSUME NEW o \in Owners, Start(o) \/ Step(o) PROVE TypeOK'
  BY <1>2, StartTypes, StepTypes
<1> QED
  BY <1>1, <1>2 DEF Next, vars

LEMMA InitTypes == Init => TypeOK
<1> SUFFICES ASSUME Init PROVE TypeOK
  OBVIOUS
<1>1. \A o \in Owners : LocalsFit(work[o], project)
  BY IdleFits DEF Init
<1>2. work \in [Owners -> Work]
  BY <1>1 DEF Init, LocalsFit
<1> QED
  BY <1>1, <1>2, TypeOKParts DEF Init, TablesFit

\* Rows, files and locals keep their types (Project.types.ts), and the row of a
\* project is never taken away under a request that was let in for it.
THEOREM TypesKept == Spec => []TypeOK
<1> QED
  BY InitTypes, NextTypes, PTL DEF Spec

-----------------------------------------------------------------------------
(* Whose locals a step writes.                                             *)

\* A statement of a request leaves the locals of the others as they are.
LEMMA StepOwn ==
    ASSUME TypeOK, NEW o \in Owners, Step(o)
    PROVE  \A q \in Owners \ {o} : work'[q] = work[q]
BY DEF TypeOK, Step, SaveRow, SaveFile, UpsertProject, DeleteProject, DeleteManifest,
       ReadRows, ReadManifest, WritePool, StorePool, StorePoolFile, AnswerAll,
       FailOne, Fail, answer, done

\* A statement that failed: the request goes on, and is not alone any more.
LEMMA LosesLone ==
    ASSUME TypeOK, NEW o \in Owners, NEW left,
           work' = [work EXCEPT ![o].todo = left, ![o].alone = FALSE]
    PROVE  ~work'[o].alone /\ work'[o].stage = work[o].stage
<1>1. \A flag : \A asked \in Work :
          LET after == [asked EXCEPT !.todo = left, !.alone = flag]
          IN  after.alone = flag /\ after.stage = asked.stage
  BY DEF Work
<1>2. work'[o] = [work[o] EXCEPT !.todo = left, !.alone = FALSE]
  BY DEF TypeOK
<1>3. work[o] \in Work
  BY DEF TypeOK
<1>4. /\ [work[o] EXCEPT !.todo = left, !.alone = FALSE].alone = FALSE
      /\ [work[o] EXCEPT !.todo = left, !.alone = FALSE].stage = work[o].stage
  BY <1>1, <1>3
<1> QED
  BY <1>2, <1>4, Zenon

\* A request in hand has something to do or to answer.
LEMMA StepIsServed ==
    ASSUME NEW o \in Owners, Step(o)
    PROVE  work[o] # Idle
BY ProjectsAssumption
   DEF Idle, Kinds, Step, SaveRow, SaveFile, UpsertProject, DeleteProject, DeleteManifest,
       ReadRows, ReadManifest, WritePool, StorePool, StorePoolFile,
       AnswerAll, FailOne, Fail, at, mayDo

\* A request that starts leaves nobody alone but itself, if it is.
LEMMA StartOwn ==
    ASSUME TypeOK, NEW o \in Owners, NEW request, IsFresh(request), start(o, request)
    PROVE  /\ \A q \in Owners \ {o} :
                  /\ work'[q].kind = work[q].kind /\ work'[q].stage = work[q].stage
                  /\ ~work'[q].alone
           /\ work'[o].kind = request.kind /\ work'[o].stage = request.stage
           /\ work'[o].todo = request.todo
           /\ work[o] = Idle
           /\ work'[o].alone => \A q \in Owners : work[q] = Idle
<1>1. \A q \in Owners \ {o} : work'[q] = [work[q] EXCEPT !.alone = FALSE]
  BY DEF start
<1>2. work'[o] = [request EXCEPT !.alone = served = {}]
  BY DEF start
<1>3. request \in Work /\ \A q \in Owners : work[q] \in Work
  BY DEF IsFresh, LocalsFit, TypeOK
<1>4. \A q \in Owners \ {o} :
          /\ work'[q].kind = work[q].kind /\ work'[q].stage = work[q].stage
          /\ ~work'[q].alone
  <2>1. \A flag : \A asked \in Work :
            /\ [asked EXCEPT !.alone = flag].kind = asked.kind
            /\ [asked EXCEPT !.alone = flag].stage = asked.stage
            /\ [asked EXCEPT !.alone = flag].alone = flag
    BY DEF Work
  <2> QED
    <3> TAKE q \in Owners \ {o}
    <3>1. /\ [work[q] EXCEPT !.alone = FALSE].kind = work[q].kind
          /\ [work[q] EXCEPT !.alone = FALSE].stage = work[q].stage
          /\ [work[q] EXCEPT !.alone = FALSE].alone = FALSE
      BY <2>1, <1>3
    <3> QED
      BY <3>1, <1>1, Zenon
<1>5. /\ work'[o].kind = request.kind /\ work'[o].stage = request.stage
      /\ work'[o].todo = request.todo
  BY <1>2, <1>3 DEF Work
<1>6. work'[o].alone = (served = {})
  BY <1>2, <1>3 DEF Work
<1>7. work'[o].alone => \A q \in Owners : work[q] = Idle
  BY <1>6 DEF served
<1> QED
  BY <1>4, <1>5, <1>7 DEF start

-----------------------------------------------------------------------------
(* Deletion.                                                               *)

\* No statement but the one of deleteProject writes the flag: the body of an
\* upsert has none (projectSchema), and the row is never taken away.
LEMMA FlagStays ==
    ASSUME TypeOK, [Next]_vars, project # None, project.deleted
    PROVE  project' # None /\ project'.deleted
<1>1. CASE UNCHANGED project
  BY <1>1
<1>2. ASSUME NEW o \in Owners, SaveRow(o) \/ UpsertProject(o) \/ DeleteProject(o)
      PROVE  project'.deleted
  <2>1. keptDeleted(project)
    BY DEF keptDeleted
  <2> QED
    BY <1>2, <2>1 DEF SaveRow, UpsertProject, DeleteProject, TypeOK, ProjectRows
<1>3. ASSUME NEW o \in Owners, Step(o)
      PROVE  UNCHANGED project \/ SaveRow(o) \/ UpsertProject(o) \/ DeleteProject(o)
  BY <1>3 DEF Step, SaveFile, DeleteManifest, ReadRows, ReadManifest,
              WritePool, StorePool, StorePoolFile, AnswerAll, FailOne, Fail, projectVars
<1>4. ASSUME NEW o \in Owners, SaveRow(o) \/ UpsertProject(o) \/ DeleteProject(o)
      PROVE  project' # None
  <2>1. project' \in ProjectRows
    <3>1. /\ project \in ProjectRows /\ project.statistics \in Statistics
          /\ work[o].kind \in {"save", "edit"} => work[o].scene \in Scenes
      BY DEF TypeOK, ProjectRows
    <3>2. keptDeleted(project) \in BOOLEAN
      BY <3>1 DEF keptDeleted, ProjectRows
    <3>3. CASE SaveRow(o)
      BY <3>1, <3>2, <3>3
         DEF SaveRow, mayDo, at, collectStatistics, statisticsOf, ProjectRows, Statistics
    <3>4. CASE UpsertProject(o)
      BY <3>1, <3>2, <3>4 DEF UpsertProject, at, editedStatistics, ProjectRows, Statistics
    <3>5. CASE DeleteProject(o)
      BY <3>1, <3>5 DEF DeleteProject, ProjectRows
    <3> QED
      BY <3>3, <3>4, <3>5, <1>4
  <2> QED
    BY <2>1, ProjectsAssumption
<1>5. Next => \/ UNCHANGED project
              \/ \E o \in Owners : Step(o)
  BY StartTypes DEF Next, projectVars
<1> QED
  BY <1>1, <1>2, <1>3, <1>4, <1>5 DEF vars, projectVars

\* A deleted project stays deleted, and neither it nor its manifest is read any
\* more, whatever was in hand when it was deleted (deleteProject, upsertManifest).
THEOREM DeletionStays == Spec => DeletedStaysDeleted
<1>1. ASSUME TypeOK, [Next]_vars
      PROVE  [project # None /\ project.deleted =>
                 getProject' = {} /\ getManifests' = {} /\ getProjectManifest' = None]_vars
  <2>1. project # None /\ project.deleted => ~isLive'
    BY <1>1, FlagStays DEF isLive
  <2> QED
    BY <2>1 DEF getProject, getManifests, getProjectManifest
<1> QED
  BY <1>1, TypesKept, PTL DEF Spec, DeletedStaysDeleted

-----------------------------------------------------------------------------
(* A request that nobody disturbs.                                         *)

\* A request that starts alone has nothing to have done yet.
LEMMA StartIsLone ==
    ASSUME TypeOK, NEW o \in Owners, Start(o)
    PROVE  LoneProgress'
<1>1. PICK request : IsFresh(request) /\ start(o, request)
  BY StartsFresh
<1>2. \A q \in Owners \ {o} : ~work'[q].alone
  BY <1>1, StartOwn
<1>3. ASSUME work'[o].alone PROVE ProgressOf(o)'
  <2>1. \A q \in Owners \ {o} : work'[q] = Idle
    <3>1. ASSUME NEW q \in Owners \ {o} PROVE work'[q] = [Idle EXCEPT !.alone = FALSE]
      BY <1>1, <1>3, StartOwn DEF start
    <3> QED
      BY <3>1 DEF Idle
  <2>2. /\ work'[o].kind = "save" => work'[o].todo = {"row", "file"}
        /\ work'[o].kind = "publish" =>
               work'[o].stage = "read" /\ work'[o].todo = {"rows", "file"}
    BY <1>1, StartOwn DEF IsFresh
  <2> QED
    BY <2>1, <2>2 DEF ProgressOf, SavedSoFar, ReadSoFar
<1> QED
  BY <1>2, <1>3 DEF LoneProgress

\* Nobody else writes: what a lone request has stored or read stays as it was.
LEMMA StepIsLone ==
    ASSUME TypeOK, NEW o \in Owners, ProgressOf(o), work[o].alone, Step(o)
    PROVE  LoneProgress'
<1>1. \A q \in Owners \ {o} : work'[q] = Idle
  BY StepOwn DEF ProgressOf
<1>2. \A q \in Owners \ {o} : ~work'[q].alone
  BY <1>1 DEF Idle
<1>3. work[o] \in Work
  BY DEF TypeOK
<1>4. ASSUME work'[o].alone PROVE ProgressOf(o)'
  <2>1. CASE work'[o] = Idle
    <3>1. Idle.kind \notin {"save", "publish"}
      BY ProjectsAssumption DEF Idle, Kinds
    <3> QED
      BY <1>1, <2>1, <3>1 DEF ProgressOf
  <2>2. CASE SaveRow(o)
    <3>1. work'[o] = [work[o] EXCEPT !.todo = @ \ {"row"}] /\ work[o].kind = "save"
      BY <2>2 DEF SaveRow, done, mayDo, at, TypeOK
    <3>2. project' = [deleted |-> keptDeleted(project),
                     statistics |-> statisticsOf(work[o].scene)]
          /\ UNCHANGED manifest
      BY <2>2 DEF SaveRow, collectStatistics
    <3>3. project' # None
      <4>1. keptDeleted(project) \in BOOLEAN
        BY DEF keptDeleted, TypeOK, ProjectRows
      <4>2. project' \in ProjectRows
        BY <3>1, <3>2, <4>1 DEF ProjectRows, Statistics, statisticsOf, TypeOK
      <4> QED
        BY <4>2, ProjectsAssumption
    <3> QED
      BY <1>1, <1>3, <3>1, <3>2, <3>3 DEF ProgressOf, SavedSoFar, Work
  <2>3. CASE SaveFile(o)
    <3>1. work'[o] = [work[o] EXCEPT !.todo = @ \ {"file"}] /\ work[o].kind = "save"
      BY <2>3 DEF SaveFile, done, mayDo, at, TypeOK
    <3> QED
      BY <1>1, <1>3, <2>3, <3>1 DEF ProgressOf, SavedSoFar, Work, SaveFile
  <2>4. CASE ReadRows(o)
    <3>1. work'[o] = [work[o] EXCEPT !.todo = @ \ {"rows"}, !.read = project.statistics]
          /\ work[o].kind = "publish" /\ work[o].stage = "read" /\ UNCHANGED projectVars
      BY <2>4 DEF ReadRows, mayDo, at, TypeOK, Work
    <3> QED
      BY <1>1, <1>3, <3>1 DEF ProgressOf, ReadSoFar, Work, projectVars
  <2>5. CASE ReadManifest(o)
    <3>1. work'[o] = [work[o] EXCEPT !.todo = @ \ {"file"}, !.file = manifest]
          /\ work[o].kind = "publish" /\ work[o].stage = "read" /\ UNCHANGED projectVars
      <4>1. work' = [work EXCEPT ![o].todo = @ \ {"file"}, ![o].file = manifest]
        BY <1>4, <2>5, LosesLone DEF ReadManifest
      <4>2. work'[o] = [work[o] EXCEPT !.todo = @ \ {"file"}, !.file = manifest]
        BY <4>1 DEF TypeOK, Work
      <4> QED
        BY <2>5, <4>2 DEF ReadManifest, mayDo, at
    <3> QED
      BY <1>1, <1>3, <3>1 DEF ProgressOf, ReadSoFar, Work, projectVars
  <2>6. CASE WritePool(o)
    <3>1. work'[o] = [work[o] EXCEPT !.stage = "write",
                        !.todo = {"row"} \cup (IF work[o].file = None THEN {} ELSE {"file"})]
          /\ work[o].kind = "publish" /\ work[o].stage = "read" /\ work[o].todo = {}
          /\ UNCHANGED projectVars
      BY <2>6 DEF WritePool, at, TypeOK, Work
    <3> QED
      BY <1>1, <1>3, <3>1 DEF ProgressOf, ReadSoFar, PublishedSoFar, Work, projectVars
  <2>7. CASE StorePool(o)
    <3>1. work'[o] = [work[o] EXCEPT !.todo = @ \ {"row"}]
          /\ work[o].kind = "publish" /\ work[o].stage = "write"
      BY <2>7 DEF StorePool, done, mayDo, at, TypeOK
    <3> QED
      BY <1>1, <1>3, <2>7, <3>1 DEF ProgressOf, PublishedSoFar, Work, StorePool
  <2>8. CASE StorePoolFile(o)
    <3>1. work'[o] = [work[o] EXCEPT !.todo = @ \ {"file"}]
          /\ work[o].kind = "publish" /\ work[o].stage = "write"
      BY <2>8 DEF StorePoolFile, done, mayDo, at, TypeOK
    <3> QED
      BY <1>1, <1>3, <2>8, <3>1 DEF ProgressOf, PublishedSoFar, Work, StorePoolFile
  <2>9. ~FailOne(o)
    BY <1>4, LosesLone DEF FailOne
  <2>10. CASE \/ UpsertProject(o) \/ DeleteProject(o) \/ DeleteManifest(o)
              \/ AnswerAll(o) \/ Fail(o)
    BY <2>1, <2>10 DEF UpsertProject, DeleteProject, DeleteManifest,
                       AnswerAll, Fail, answer, TypeOK
  <2> QED
    BY <2>2, <2>3, <2>4, <2>5, <2>6, <2>7, <2>8, <2>9, <2>10 DEF Step
<1> QED
  BY <1>2, <1>4 DEF LoneProgress

LEMMA NextIsLone ==
    ASSUME TypeOK, LoneProgress, [Next]_vars
    PROVE  LoneProgress'
<1>1. CASE UNCHANGED <<projectVars, work>>
  BY <1>1 DEF LoneProgress, ProgressOf, SavedSoFar, ReadSoFar, PublishedSoFar, projectVars
<1>2. ASSUME NEW o \in Owners, Start(o) PROVE LoneProgress'
  BY <1>2, StartIsLone
<1>3. ASSUME NEW o \in Owners, Step(o) PROVE LoneProgress'
  <2>1. CASE work[o].alone
    BY <1>3, <2>1, StepIsLone DEF LoneProgress
  <2>2. ASSUME ~work[o].alone, NEW q \in Owners \ {o} PROVE ~work'[q].alone
    <3>1. work'[q] = work[q] /\ work[o] # Idle
      BY <1>3, StepOwn, StepIsServed
    <3> QED
      BY <3>1 DEF LoneProgress, ProgressOf
  <2>3. ASSUME ~work[o].alone PROVE ~work'[o].alone
    <3>1. CASE work'[o] = Idle
      BY <3>1 DEF Idle
    <3>2. CASE \/ UpsertProject(o) \/ DeleteProject(o) \/ DeleteManifest(o)
               \/ AnswerAll(o) \/ Fail(o)
      BY <3>1, <3>2 DEF UpsertProject, DeleteProject, DeleteManifest,
                        AnswerAll, Fail, answer, TypeOK
    <3>3. CASE \/ SaveRow(o) \/ SaveFile(o) \/ ReadRows(o) \/ WritePool(o)
               \/ StorePool(o) \/ StorePoolFile(o)
      <4>1. work'[o].alone = work[o].alone
        BY <3>3 DEF SaveRow, SaveFile, ReadRows, WritePool, StorePool, StorePoolFile,
                    done, TypeOK, Work
      <4> QED
        BY <2>3, <4>1
    <3>4. CASE FailOne(o)
      BY <3>4, LosesLone DEF FailOne
    <3>5. CASE ReadManifest(o)
      <4>1. CASE work' = [work EXCEPT ![o].todo = @ \ {"file"}, ![o].file = manifest]
        <5>1. work'[o].alone = work[o].alone
          BY <4>1 DEF TypeOK, Work
        <5> QED
          BY <2>3, <5>1
      <4> QED
        BY <3>5, <4>1, LosesLone DEF ReadManifest
    <3> QED
      BY <1>3, <3>2, <3>3, <3>4, <3>5 DEF Step
  <2> QED
    BY <2>1, <2>2, <2>3 DEF LoneProgress
<1> QED
  BY <1>1, <1>2, <1>3 DEF Next, vars

\* What a request that nobody disturbs has read or written so far is what is
\* stored (the statements of upsertManifest and of upsertPool).
THEOREM LoneRequestsProgress == Spec => []LoneProgress
<1>1. Init => LoneProgress
  BY DEF Init, LoneProgress, Idle
<1> QED
  BY <1>1, NextIsLone, TypesKept, PTL DEF Spec

\* A save or a publication with nothing left to do ends in its answer.
LEMMA AnsweredByAnswerAll ==
    ASSUME TypeOK, [Next]_vars, NEW o \in Owners, NEW kind \in {"save", "publish"},
           isAnswered(o, kind)
    PROVE  AnswerAll(o)
<1>1. work[o].kind \in {"save", "publish"} /\ work[o].todo = {} /\ work'[o] = Idle
  BY DEF isAnswered
<1>2. Idle.kind \notin {"save", "publish"}
  BY ProjectsAssumption DEF Idle, Kinds
<1>3. work'[o] # work[o]
  BY <1>1, <1>2
<1>4. \A q \in Owners \ {o} : ~Step(q)
  BY <1>3, StepOwn
<1>5. \A q \in Owners \ {o} : ~Start(q)
  <2>1. ASSUME NEW q \in Owners \ {o}, Start(q) PROVE FALSE
    <3>1. PICK request : IsFresh(request) /\ start(q, request)
      BY <2>1, StartsFresh
    <3>2. work'[o].kind = work[o].kind
      BY <3>1, StartOwn
    <3> QED
      BY <1>1, <1>2, <3>2
  <2> QED
    BY <2>1
<1>6. ~Start(o)
  BY <1>1, <1>2, StartsFresh, StartOwn
<1>7. Step(o)
  BY <1>3, <1>4, <1>5, <1>6 DEF Next, vars, projectVars
<1>8. ~SaveRow(o) /\ ~SaveFile(o) /\ ~ReadRows(o) /\ ~ReadManifest(o) /\ ~StorePool(o)
      /\ ~StorePoolFile(o) /\ ~FailOne(o) /\ ~Fail(o)
  BY <1>1 DEF SaveRow, SaveFile, ReadRows, ReadManifest, StorePool, StorePoolFile, FailOne,
              Fail, mayDo
<1>9. ~UpsertProject(o) /\ ~DeleteProject(o) /\ ~DeleteManifest(o)
  BY <1>1 DEF UpsertProject, DeleteProject, DeleteManifest, at
<1>10. ~WritePool(o)
  <2>1. ASSUME WritePool(o) PROVE work'[o].kind = work[o].kind
    BY <2>1 DEF WritePool, TypeOK, Work
  <2> QED
    BY <1>1, <1>2, <2>1
<1> QED
  BY <1>7, <1>8, <1>9, <1>10 DEF Step

\* A save that nobody disturbed and that did not fail leaves the project its owner
\* reads whole, and a publication after it the pool that everybody reads, whatever
\* crossed or failed before (upsertManifest, upsertPool).
THEOREM LoneRequestsRepairs == Spec => LoneRequestsRepair
<1>1. ASSUME TypeOK, LoneProgress, [Next]_vars, NEW o \in Owners, isAnswered(o, "save")
      PROVE  \A row \in getProject' :
                 /\ row.statistics = statisticsOf(getProjectManifest')
                 /\ getManifests' = {getProjectManifest'}
  <2>1. AnswerAll(o)
    BY <1>1, AnsweredByAnswerAll
  <2>2. /\ project # None /\ project.statistics = statisticsOf(work[o].scene)
        /\ manifest = work[o].scene /\ manifest \in Scenes
    BY <1>1 DEF isAnswered, LoneProgress, ProgressOf, SavedSoFar, TypeOK
  <2>3. UNCHANGED <<project, manifest>>
    BY <2>1 DEF AnswerAll, projectVars
  <2>4. project'.statistics = statisticsOf(manifest') /\ manifest' # None
    BY <2>2, <2>3, ProjectsAssumption
  <2>5. (isLive)' => /\ getProject' = {project'}
                     /\ getProjectManifest' = manifest'
                     /\ getManifests' = {manifest'}
    BY <2>4 DEF getProject, getProjectManifest, getManifests
  <2>6. ~(isLive)' => getProject' = {}
    BY DEF getProject
  <2> QED
    BY <2>4, <2>5, <2>6
<1>2. ASSUME TypeOK, LoneProgress, [Next]_vars, NEW o \in Owners, isAnswered(o, "publish"),
             isWhole
      PROVE  \A u \in Users : getPool(u)'.statistics = statisticsOf(getPoolManifest')
  <2>1. AnswerAll(o)
    BY <1>2, AnsweredByAnswerAll
  <2>2. /\ project # None
        /\ pool = statisticsOf(manifest) /\ poolFile = manifest
    BY <1>2, <2>1 DEF isAnswered, isWhole, LoneProgress, ProgressOf, PublishedSoFar,
                      AnswerAll, TypeOK
  <2>3. UNCHANGED <<project, pool, poolFile>>
    BY <2>1 DEF AnswerAll, projectVars
  <2> QED
    BY <1>2, <2>2, <2>3 DEF getPool, getPoolManifest
<1>3. ASSUME TypeOK, LoneProgress, [Next]_vars
      PROVE  [\A o \in Owners :
                /\ isAnswered(o, "save") =>
                       \A row \in getProject' :
                           /\ row.statistics = statisticsOf(getProjectManifest')
                           /\ getManifests' = {getProjectManifest'}
                /\ isAnswered(o, "publish") /\ isWhole =>
                       \A u \in Users :
                           getPool(u)'.statistics = statisticsOf(getPoolManifest')]_vars
  BY <1>1, <1>2, <1>3
<1> QED
  BY <1>3, TypesKept, LoneRequestsProgress, PTL DEF Spec, LoneRequestsRepair

-----------------------------------------------------------------------------
(* The likes of the pool: its rows are counted.                            *)

RowsFit ==
    /\ IsFiniteSet(rows) /\ rows \subseteq Users \X Nat
    /\ \A row \in rows : row[2] <= countLikes({row[1]})

LEMMA CountsFit ==
    ASSUME RowsFit, NEW by
    PROVE  /\ IsFiniteSet(rowsOf(by)) /\ countLikes(by) \in Nat
           /\ countLikes(by) = 0 <=> rowsOf(by) = {}
<1>1. IsFiniteSet(rowsOf(by))
  BY FS_Subset DEF RowsFit, rowsOf
<1> QED
  BY <1>1, FS_CardinalityType, FS_EmptySet DEF countLikes

LEMMA AllRowsCount == ASSUME RowsFit PROVE currentLikes = Cardinality(rows)
<1>1. rowsOf(Users) = rows
  BY DEF RowsFit, rowsOf
<1> QED
  BY <1>1 DEF currentLikes, countLikes

\* PoolLike.create counts once for its user and for the pool.
LEMMA CreateCounts ==
    ASSUME RowsFit, NEW u \in Users, rows' = rows \cup {newRow(u)}
    PROVE  /\ RowsFit' /\ currentLikes' = currentLikes + 1
           /\ \A v \in Users :
                 countLikes({v})' = IF v = u THEN countLikes({v}) + 1 ELSE countLikes({v})
<1> DEFINE n == countLikes({u})
<1>1. n \in Nat
  BY CountsFit
<1>2. newRow(u) = <<u, n + 1>>
  BY DEF newRow
<1>3. newRow(u) \notin rows
  BY <1>1, <1>2 DEF RowsFit
<1>4. ASSUME NEW v \in Users
      PROVE  countLikes({v})' = IF v = u THEN countLikes({v}) + 1 ELSE countLikes({v})
  <2>1. v = u => rowsOf({v})' = rowsOf({v}) \cup {newRow(u)} /\ newRow(u) \notin rowsOf({v})
    BY <1>2, <1>3 DEF rowsOf
  <2>2. v # u => rowsOf({v})' = rowsOf({v})
    BY <1>2 DEF rowsOf
  <2>3. IsFiniteSet(rowsOf({v}))
    BY CountsFit
  <2> QED
    BY <2>1, <2>2, <2>3, FS_AddElement DEF countLikes
<1>5. IsFiniteSet(rows') /\ Cardinality(rows') = Cardinality(rows) + 1
  BY <1>3, FS_AddElement DEF RowsFit
<1>6. RowsFit'
  <2>1. rows' \subseteq Users \X Nat
    BY <1>1, <1>2 DEF RowsFit
  <2>2. ASSUME NEW row \in rows' PROVE row[2] <= countLikes({row[1]})'
    <3>1. CASE row \in rows
      <4>1. row[1] \in Users /\ row[2] \in Nat /\ row[2] <= countLikes({row[1]})
        BY <3>1 DEF RowsFit
      <4>2. countLikes({row[1]}) \in Nat
        BY CountsFit
      <4> QED
        BY <1>4, <4>1, <4>2
    <3>2. CASE row \notin rows
      <4>1. row = <<u, n + 1>>
        BY <1>2, <3>2
      <4> QED
        BY <1>1, <1>4, <4>1
    <3> QED
      BY <3>1, <3>2
  <2> QED
    BY <1>5, <2>1, <2>2 DEF RowsFit
<1>7. currentLikes' = currentLikes + 1
  <2>1. rowsOf(Users)' = rows'
    BY <1>6 DEF RowsFit, rowsOf
  <2>2. currentLikes' = Cardinality(rows')
    BY <2>1 DEF currentLikes, countLikes
  <2> QED
    BY <1>5, <2>2, AllRowsCount
<1> QED
  BY <1>4, <1>6, <1>7

\* PoolLike.delete takes every row of its user.
LEMMA DeleteCounts ==
    ASSUME RowsFit, NEW u \in Users, rows' = rows \ rowsOf({u})
    PROVE  /\ RowsFit' /\ currentLikes' = currentLikes - countLikes({u})
           /\ \A v \in Users : countLikes({v})' = IF v = u THEN 0 ELSE countLikes({v})
<1>1. ASSUME NEW v \in Users
      PROVE  countLikes({v})' = IF v = u THEN 0 ELSE countLikes({v})
  <2>1. v = u => rowsOf({v})' = {}
    BY DEF rowsOf
  <2>2. v # u => rowsOf({v})' = rowsOf({v})
    BY DEF rowsOf
  <2> QED
    BY <2>1, <2>2, FS_EmptySet DEF countLikes
<1>2. /\ IsFiniteSet(rows')
      /\ Cardinality(rows') = Cardinality(rows) - Cardinality(rows \cap rowsOf({u}))
  BY FS_Difference DEF RowsFit
<1>3. rows \cap rowsOf({u}) = rowsOf({u})
  BY DEF rowsOf
<1>4. RowsFit'
  <2>1. ASSUME NEW row \in rows' PROVE row[2] <= countLikes({row[1]})'
    <3>1. row \in rows /\ row[1] \in Users /\ row[1] # u
      BY DEF rowsOf, RowsFit
    <3> QED
      BY <1>1, <3>1 DEF RowsFit
  <2> QED
    BY <1>2, <2>1 DEF RowsFit
<1>5. currentLikes' = currentLikes - countLikes({u})
  <2>1. rowsOf(Users)' = rows'
    BY <1>4 DEF RowsFit, rowsOf
  <2>2. currentLikes' = Cardinality(rows')
    BY <2>1 DEF currentLikes, countLikes
  <2> QED
    BY <1>2, <1>3, <2>2, AllRowsCount DEF countLikes
<1> QED
  BY <1>1, <1>4, <1>5

-----------------------------------------------------------------------------
(* What the clicks and the publications know of the likes.                 *)

OrNotRead == Nat \cup {NotRead}

LikesTyped ==
    /\ RowsFit /\ likes \in Nat
    /\ pc \in [Clicks -> {"idle", "count", "update"}]
    /\ user \in [Clicks -> Users] /\ like \in [Clicks -> BOOLEAN]
    /\ hasRow \in [Clicks -> OrNotRead] /\ counted \in [Clicks -> OrNotRead]
    /\ alone \in [Clicks -> BOOLEAN] /\ overlapped \in BOOLEAN /\ behind \in BOOLEAN
    /\ ownerPc \in [Owners -> {"idle", "upsert"}] /\ ownerLikes \in [Owners -> Nat]
    /\ \A r \in Clicks : pc[r] = "idle" =>
          hasRow[r] = NotRead /\ counted[r] = NotRead /\ ~alone[r]
    /\ \A r \in Clicks : pc[r] = "update" => counted[r] # NotRead

\* A click that nobody disturbs is the only request there is: what it has counted
\* is so, up to the row it has written itself.
AloneCounts ==
    \A r \in Clicks : alone[r] =>
        /\ InFlight = {r}
        /\ pc[r] = "count" =>
              /\ hasRow[r] \in {NotRead, countLikes({user[r]})}
              /\ counted[r] \in {NotRead, currentLikes}
        /\ pc[r] = "update" /\ like[r] => newLikes(r) = currentLikes

\* Without overlaps every request is alone, and leaves a counter that is right
\* unless it fails.
SerialCounts ==
    ~overlapped =>
        /\ \A u \in Users : countLikes({u}) <= 1
        /\ \A r \in Clicks :
              /\ pc[r] # "idle" => alone[r]
              /\ pc[r] = "update" => newLikes(r) = currentLikes
        /\ \A o \in Owners : ownerPc[o] # "idle" =>
              InFlight = {o} /\ ownerLikes[o] = likes
        /\ (\A r \in Clicks : pc[r] # "update") /\ ~behind => likes = currentLikes

LikesInv == LikesTyped /\ AloneCounts /\ SerialCounts

LEMMA NewLikesFit ==
    ASSUME LikesTyped, NEW r \in Clicks
    PROVE  newLikes(r) \in Nat
BY DEF LikesTyped, OrNotRead, NotRead, newLikes

LEMMA ClickFits ==
    ASSUME LikesInv, NEW r \in Clicks, Click(r)
    PROVE  LikesInv'
<1> USE LikesAssumption
<1>1. PICK u \in Users, isLike \in BOOLEAN :
          user' = [user EXCEPT ![r] = u] /\ like' = [like EXCEPT ![r] = isLike]
  BY DEF Click
<1>2. /\ pc[r] = "idle" /\ pc' = [pc EXCEPT ![r] = "count"]
      /\ alone' = [q \in Clicks |-> q = r /\ InFlight = {}]
      /\ overlapped' = (overlapped \/ InFlight # {})
      /\ UNCHANGED <<rows, likes, hasRow, counted, behind, ownerPc, ownerLikes>>
  BY DEF Click, Arrive, ownerVars
<1>3. LikesTyped'
  BY <1>1, <1>2 DEF LikesInv, LikesTyped, RowsFit, countLikes, rowsOf
<1>4. InFlight = {} => InFlight' = {r}
  BY <1>2, <1>3 DEF InFlight, LikesInv, LikesTyped
<1>5. AloneCounts'
  BY <1>2, <1>4 DEF AloneCounts, LikesInv, LikesTyped
<1>6. SerialCounts'
  <2> SUFFICES ASSUME ~overlapped' PROVE SerialCounts'
    BY DEF SerialCounts
  <2>1. ~overlapped /\ InFlight = {}
    BY <1>2 DEF LikesInv, LikesTyped
  <2>2. (~behind => likes = currentLikes) /\ \A q \in Clicks : pc[q] = "idle"
    BY <2>1 DEF InFlight, LikesInv, SerialCounts
  <2>3. \A q \in Clicks \ {r} : pc'[q] = "idle"
    BY <1>2, <2>2 DEF LikesInv, LikesTyped
  <2>4. pc'[r] = "count" /\ alone'[r]
    BY <1>2, <2>1 DEF LikesInv, LikesTyped
  <2>5. \A o \in Owners : ownerPc'[o] = "idle"
    BY <1>2, <2>1 DEF InFlight, LikesInv, LikesTyped
  <2> QED
    BY <1>2, <2>1, <2>2, <2>3, <2>4, <2>5
       DEF SerialCounts, LikesInv, currentLikes, countLikes, rowsOf
<1> QED
  BY <1>3, <1>5, <1>6 DEF LikesInv

LEMMA CountFits ==
    ASSUME LikesInv, NEW r \in Clicks, CountMine(r) \/ CountAll(r)
    PROVE  LikesInv'
<1>1. /\ pc[r] = "count"
      /\ UNCHANGED <<rows, likes, pc, user, like, alone, overlapped, behind, ownerPc,
                     ownerLikes>>
      /\ \/ hasRow' = [hasRow EXCEPT ![r] = countLikes({user[r]})] /\ UNCHANGED counted
         \/ counted' = [counted EXCEPT ![r] = currentLikes] /\ UNCHANGED hasRow
  BY DEF CountMine, CountAll, locals, ownerVars
<1>2. InFlight' = InFlight
  BY <1>1 DEF InFlight
<1>3. countLikes({user[r]}) \in Nat /\ currentLikes \in Nat
  BY CountsFit DEF LikesInv, LikesTyped, currentLikes
<1>4. LikesTyped'
  BY <1>1, <1>3 DEF LikesInv, LikesTyped, OrNotRead, RowsFit, countLikes, rowsOf, NotRead
<1>5. currentLikes' = currentLikes /\ \A u : countLikes({u})' = countLikes({u})
  BY <1>1 DEF currentLikes, countLikes, rowsOf
<1>6. \A q \in Clicks : pc[q] = "update" => newLikes(q)' = newLikes(q)
  BY <1>1 DEF newLikes, LikesInv, LikesTyped
<1>7. AloneCounts'
  <2> SUFFICES ASSUME NEW q \in Clicks, alone'[q]
               PROVE  /\ InFlight' = {q}
                      /\ pc'[q] = "count" =>
                            /\ hasRow'[q] \in {NotRead, countLikes({user[q]})}
                            /\ counted'[q] \in {NotRead, currentLikes}
                      /\ pc'[q] = "update" /\ like'[q] => newLikes(q)' = currentLikes
    BY <1>1, <1>5 DEF AloneCounts, countLikes, rowsOf
  <2>1. AloneCounts /\ alone[q]
    BY <1>1 DEF LikesInv
  <2> QED
    BY <1>1, <1>2, <1>6, <2>1 DEF AloneCounts, LikesInv, LikesTyped
<1>8. SerialCounts'
  BY <1>1, <1>2, <1>5, <1>6 DEF SerialCounts, LikesInv
<1> QED
  BY <1>4, <1>7, <1>8 DEF LikesInv

\* An answer forgets the locals; whatever else is being served is as it was.
LEMMA AnswerFits ==
    ASSUME LikesInv, NEW r \in Clicks, pc[r] # "idle", Answer(r), RowsFit', likes' \in Nat,
           behind' \in BOOLEAN, ~overlapped /\ ~behind' => likes' = currentLikes',
           UNCHANGED <<rows, overlapped, ownerPc, ownerLikes>>
    PROVE  LikesInv'
<1> USE LikesAssumption
<1>1. someUser \in Users
  BY DEF someUser
<1>2. LikesTyped'
  BY <1>1 DEF LikesInv, LikesTyped, Answer, OrNotRead
<1>3. r \in InFlight
  BY DEF InFlight
<1>4. AloneCounts'
  <2> SUFFICES \A q \in Clicks : ~alone'[q]
    BY DEF AloneCounts
  <2>1. \A q \in Clicks \ {r} : ~alone[q]
    BY <1>3 DEF LikesInv, AloneCounts
  <2> QED
    BY <2>1 DEF Answer, LikesInv, LikesTyped
<1>5. SerialCounts'
  <2> SUFFICES ASSUME ~overlapped PROVE SerialCounts'
    BY DEF SerialCounts
  <2>1. InFlight = {r}
    BY DEF LikesInv, SerialCounts, AloneCounts
  <2>2. \A q \in Clicks : pc'[q] = "idle"
    BY <2>1 DEF InFlight, Answer, LikesInv, LikesTyped
  <2>3. \A o \in Owners : ownerPc'[o] = "idle"
    BY <2>1 DEF InFlight
  <2> QED
    BY <2>2, <2>3 DEF SerialCounts, LikesInv, countLikes, rowsOf
<1> QED
  BY <1>2, <1>4, <1>5 DEF LikesInv

LEMMA WriteFits ==
    ASSUME LikesInv, NEW r \in Clicks, WriteRow(r)
    PROVE  LikesInv'
<1> DEFINE u == user[r]
<1>1. /\ pc[r] = "count" /\ hasRow[r] # NotRead /\ counted[r] # NotRead
      /\ UNCHANGED <<likes, overlapped, behind, ownerPc, ownerLikes>>
  BY DEF WriteRow, ownerVars
<1>2. /\ LikesTyped /\ RowsFit /\ u \in Users /\ like[r] \in BOOLEAN
      /\ hasRow[r] \in Nat /\ counted[r] \in Nat
  BY <1>1 DEF LikesInv, LikesTyped, OrNotRead
<1>3. alone[r] => hasRow[r] = countLikes({u}) /\ counted[r] = currentLikes
  BY <1>1 DEF LikesInv, AloneCounts
<1>4. alone[r] => \A q \in Clicks \ {r} : pc[q] = "idle"
  <2> SUFFICES ASSUME alone[r], NEW q \in Clicks \ {r} PROVE pc[q] = "idle"
    OBVIOUS
  <2>1. InFlight = {r}
    BY DEF LikesInv, AloneCounts
  <2> QED
    BY <2>1 DEF InFlight
<1>5. ~overlapped => alone[r]
  BY <1>1 DEF LikesInv, SerialCounts
<1>6. CASE Answer(r) /\ UNCHANGED rows
  <2>1. RowsFit' /\ likes' \in Nat /\ behind' \in BOOLEAN /\ currentLikes' = currentLikes
    BY <1>1, <1>2, <1>6 DEF RowsFit, countLikes, rowsOf, currentLikes, LikesTyped
  <2>2. ~overlapped => \A q \in Clicks : pc[q] # "update"
    BY <1>1, <1>4, <1>5
  <2>3. ~overlapped /\ ~behind' => likes' = currentLikes'
    BY <1>1, <2>1, <2>2 DEF LikesInv, SerialCounts
  <2> QED
    BY <1>1, <1>6, <2>1, <2>3, AnswerFits
<1>7. CASE /\ ~isDone(r)
           /\ rows' = IF like[r] THEN rows \cup {newRow(user[r])}
                      ELSE rows \ rowsOf({user[r]})
           /\ pc' = [pc EXCEPT ![r] = "update"]
           /\ UNCHANGED <<locals, hasRow, counted, alone, overlapped>>
  <2>1. UNCHANGED <<user, like, hasRow, counted, alone, overlapped>>
    BY <1>7 DEF locals
  <2>2. like[r] => hasRow[r] = 0
    BY <1>2, <1>7 DEF isDone
  <2>3. ~like[r] => hasRow[r] > 0
    BY <1>2, <1>7 DEF isDone
  <2>4. like[r] => /\ RowsFit' /\ currentLikes' = currentLikes + 1
                   /\ \A v \in Users : countLikes({v})' =
                         IF v = u THEN countLikes({v}) + 1 ELSE countLikes({v})
    BY <1>2, <1>7, CreateCounts
  <2>5. ~like[r] => /\ RowsFit' /\ currentLikes' = currentLikes - countLikes({u})
                    /\ \A v \in Users : countLikes({v})' =
                          IF v = u THEN 0 ELSE countLikes({v})
    BY <1>2, <1>7, DeleteCounts
  <2>6. LikesTyped'
    BY <1>1, <1>2, <1>7, <2>1, <2>4, <2>5 DEF LikesTyped
  <2>7. newLikes(r)' = newLikes(r)
    BY <2>1 DEF newLikes
  <2>8. pc'[r] = "update" /\ \A q \in Clicks \ {r} : pc'[q] = pc[q]
    BY <1>2, <1>7 DEF LikesTyped
  <2>9. InFlight' = InFlight
    BY <1>1, <2>8 DEF InFlight
  <2>10. alone[r] /\ like[r] => newLikes(r)' = currentLikes'
    BY <1>3, <2>4, <2>7 DEF newLikes
  <2>11. AloneCounts'
    <3> SUFFICES ASSUME NEW q \in Clicks, alone[q]
                 PROVE  /\ InFlight' = {q} /\ pc'[q] # "count"
                        /\ pc'[q] = "update" /\ like'[q] => newLikes(q)' = currentLikes'
      BY <2>1 DEF AloneCounts
    <3>1. InFlight = {q}
      BY DEF LikesInv, AloneCounts
    <3>2. q = r
      BY <1>1, <3>1 DEF InFlight
    <3> QED
      BY <2>1, <2>8, <2>9, <2>10, <3>1, <3>2
  <2>12. SerialCounts'
    <3> SUFFICES ASSUME ~overlapped PROVE SerialCounts'
      BY <2>1 DEF SerialCounts
    <3>1. alone[r] /\ \A q \in Clicks \ {r} : pc[q] = "idle"
      BY <1>4, <1>5
    <3>2. \A v \in Users : countLikes({v}) \in Nat /\ countLikes({v}) <= 1
      BY <1>2, CountsFit DEF LikesInv, SerialCounts
    <3>3. ASSUME NEW v \in Users PROVE countLikes({v})' <= 1
      <4>1. CASE like[r]
        <5>1. countLikes({u}) = 0
          BY <1>3, <2>2, <3>1, <4>1
        <5> QED
          BY <2>4, <3>2, <4>1, <5>1
      <4>2. CASE ~like[r]
        BY <2>5, <3>2, <4>2
      <4> QED
        BY <4>1, <4>2
    <3>4. currentLikes' \in Nat
      <4>1. RowsFit'
        BY <2>4, <2>5
      <4>2. IsFiniteSet(rows')
        BY <4>1 DEF RowsFit
      <4>3. rowsOf(Users)' \subseteq rows'
        BY DEF rowsOf
      <4> QED
        BY <4>2, <4>3, FS_Subset, FS_CardinalityType DEF currentLikes, countLikes
    <3>5. newLikes(r)' = currentLikes'
      <4>1. CASE like[r]
        BY <2>10, <3>1, <4>1
      <4>2. CASE ~like[r]
        <5>1. countLikes({u}) = 1
          BY <1>2, <1>3, <2>3, <3>1, <3>2, <4>2
        <5>2. counted[r] > 0 /\ currentLikes' = counted[r] - 1
          BY <1>2, <1>3, <2>5, <3>1, <3>4, <4>2, <5>1
        <5> QED
          BY <2>7, <4>2, <5>2 DEF newLikes
      <4> QED
        BY <4>1, <4>2
    <3>6. InFlight = {r}
      BY <3>1 DEF LikesInv, AloneCounts
    <3>7. \A o \in Owners : ownerPc'[o] = "idle"
      BY <1>1, <3>6, LikesAssumption DEF InFlight
    <3> QED
      BY <2>1, <2>8, <3>1, <3>3, <3>5, <3>7 DEF SerialCounts
  <2> QED
    BY <2>6, <2>11, <2>12 DEF LikesInv
<1> QED
  BY <1>6, <1>7 DEF WriteRow

LEMMA UpdateFits ==
    ASSUME LikesInv, NEW r \in Clicks, UpdateLikes(r)
    PROVE  LikesInv'
<1>1. /\ pc[r] = "update" /\ likes' = newLikes(r) /\ behind' = FALSE /\ Answer(r)
      /\ UNCHANGED <<rows, overlapped, ownerPc, ownerLikes>>
  BY DEF UpdateLikes, ownerVars
<1>2. RowsFit' /\ currentLikes' = currentLikes
  BY <1>1 DEF LikesInv, LikesTyped, RowsFit, countLikes, rowsOf, currentLikes
<1>3. newLikes(r) \in Nat
  BY NewLikesFit DEF LikesInv
<1>4. ~overlapped => newLikes(r) = currentLikes
  BY <1>1 DEF LikesInv, SerialCounts
<1> QED
  BY <1>1, <1>2, <1>3, <1>4, AnswerFits

\* A click that fails before it writes leaves what it found; one that fails after
\* its row leaves the counter behind.
LEMMA FailFits ==
    ASSUME LikesInv, NEW r \in Clicks, FailClick(r)
    PROVE  LikesInv'
<1>1. /\ pc[r] # "idle" /\ behind' = (behind \/ pc[r] = "update") /\ Answer(r)
      /\ UNCHANGED <<rows, likes, overlapped, ownerPc, ownerLikes>>
  BY DEF FailClick, ownerVars
<1>2. /\ RowsFit' /\ currentLikes' = currentLikes
      /\ likes' \in Nat /\ behind' \in BOOLEAN
  BY <1>1 DEF LikesInv, LikesTyped, RowsFit, countLikes, rowsOf, currentLikes
<1>3. ASSUME ~overlapped, ~behind' PROVE likes' = currentLikes'
  <2>1. ~behind /\ pc[r] # "update" /\ InFlight = {r}
    BY <1>1, <1>3 DEF LikesInv, LikesTyped, SerialCounts, AloneCounts
  <2>2. \A q \in Clicks : pc[q] # "update"
    BY <2>1 DEF InFlight
  <2> QED
    BY <1>1, <1>2, <1>3, <2>1, <2>2 DEF LikesInv, SerialCounts
<1> QED
  BY <1>1, <1>2, <1>3, AnswerFits

LEMMA ReadFits ==
    ASSUME LikesInv, NEW o \in Owners, ReadPool(o)
    PROVE  LikesInv'
<1>1. /\ ownerPc[o] = "idle" /\ ownerPc' = [ownerPc EXCEPT ![o] = "upsert"]
      /\ ownerLikes' = [ownerLikes EXCEPT ![o] = likes]
      /\ alone' = [q \in Clicks |-> q = o /\ InFlight = {}]
      /\ overlapped' = (overlapped \/ InFlight # {})
      /\ UNCHANGED <<rows, likes, pc, user, like, hasRow, counted, behind>>
  BY DEF ReadPool, Arrive, locals
<1>2. \A q \in Clicks : ~alone'[q]
  BY <1>1, LikesAssumption
<1>3. RowsFit' /\ currentLikes' = currentLikes
      /\ \A v \in Users : countLikes({v})' = countLikes({v})
  BY <1>1 DEF LikesInv, LikesTyped, RowsFit, countLikes, rowsOf, currentLikes
<1>4. LikesTyped'
  BY <1>1, <1>2, <1>3 DEF LikesInv, LikesTyped
<1>5. AloneCounts'
  BY <1>2 DEF AloneCounts
<1>6. SerialCounts'
  <2> SUFFICES ASSUME ~overlapped' PROVE SerialCounts'
    BY DEF SerialCounts
  <2>1. ~overlapped /\ InFlight = {}
    BY <1>1 DEF LikesInv, LikesTyped
  <2>2. /\ \A q \in Clicks : pc'[q] = "idle"
        /\ \A p \in Owners \ {o} : ownerPc'[p] = "idle"
        /\ ownerPc'[o] = "upsert" /\ ownerLikes'[o] = likes'
    BY <1>1, <2>1 DEF InFlight, LikesInv, LikesTyped
  <2>3. InFlight' = {o}
    BY <2>2 DEF InFlight
  <2>4. (~behind => likes = currentLikes) /\ \A v \in Users : countLikes({v}) <= 1
    BY <1>1, <2>1, <2>2 DEF LikesInv, SerialCounts
  <2> QED
    BY <1>1, <1>3, <2>2, <2>3, <2>4 DEF SerialCounts
<1> QED
  BY <1>4, <1>5, <1>6 DEF LikesInv

\* A publication that nobody disturbs writes back the counter that is there.
LEMMA LeaveFits ==
    ASSUME LikesInv, NEW o \in Owners, UpsertPool(o) \/ FailPool(o)
    PROVE  LikesInv'
<1>1. /\ ownerPc[o] = "upsert" /\ ownerPc' = [ownerPc EXCEPT ![o] = "idle"]
      /\ ownerLikes' = [ownerLikes EXCEPT ![o] = 0]
      /\ likes' \in {likes, ownerLikes[o]}
      /\ UNCHANGED <<rows, pc, user, like, hasRow, counted, alone, overlapped, behind>>
  BY DEF UpsertPool, FailPool, LeavePool, locals
<1>2. RowsFit' /\ currentLikes' = currentLikes
      /\ \A v \in Users : countLikes({v})' = countLikes({v})
  BY <1>1 DEF LikesInv, LikesTyped, RowsFit, countLikes, rowsOf, currentLikes
<1>3. LikesTyped'
  BY <1>1, <1>2 DEF LikesInv, LikesTyped
<1>4. o \in InFlight /\ o \notin Clicks
  BY <1>1, LikesAssumption DEF InFlight
<1>5. \A q \in Clicks : ~alone'[q]
  BY <1>1, <1>4 DEF LikesInv, AloneCounts
<1>6. AloneCounts'
  BY <1>5 DEF AloneCounts
<1>7. SerialCounts'
  <2> SUFFICES ASSUME ~overlapped PROVE SerialCounts'
    BY <1>1 DEF SerialCounts
  <2>1. InFlight = {o} /\ ownerLikes[o] = likes
    BY <1>1 DEF LikesInv, SerialCounts
  <2>2. \A q \in Clicks : pc[q] = "idle"
    BY <1>4, <2>1 DEF InFlight
  <2>3. \A p \in Owners : ownerPc'[p] = "idle"
    BY <1>1, <2>1 DEF InFlight, LikesInv, LikesTyped
  <2>4. (~behind => likes = currentLikes) /\ \A v \in Users : countLikes({v}) <= 1
    BY <2>2 DEF LikesInv, SerialCounts
  <2> QED
    BY <1>1, <1>2, <2>1, <2>2, <2>3, <2>4 DEF SerialCounts
<1> QED
  BY <1>3, <1>6, <1>7 DEF LikesInv

\* The likes start right, with nobody being served.
LEMMA LikesBegin == ASSUME LikesInit PROVE LikesInv
<1> USE LikesAssumption
<1>1. someUser \in Users
  BY DEF someUser
<1>2. \A by : rowsOf(by) = {} /\ countLikes(by) = 0
  BY FS_EmptySet DEF LikesInit, rowsOf, countLikes
<1>3. RowsFit
  BY FS_EmptySet DEF LikesInit, RowsFit
<1>4. LikesTyped
  BY <1>1, <1>3 DEF LikesInit, LikesTyped, OrNotRead
<1>5. AloneCounts
  BY DEF LikesInit, AloneCounts
<1>6. SerialCounts
  BY <1>2 DEF LikesInit, SerialCounts, currentLikes
<1> QED
  BY <1>4, <1>5, <1>6 DEF LikesInv

LEMMA LikesKept == LikesInv /\ [LikesNext]_likeVars => LikesInv'
<1> SUFFICES ASSUME LikesInv, [LikesNext]_likeVars PROVE LikesInv'
  OBVIOUS
<1>1. CASE UNCHANGED likeVars
  <2>1. UNCHANGED <<rows, likes, pc, user, like, hasRow, counted, alone, overlapped, behind,
                    ownerPc, ownerLikes>>
    BY <1>1 DEF likeVars, locals, ownerVars
  <2>2. InFlight' = InFlight /\ currentLikes' = currentLikes
        /\ \A by : countLikes(by)' = countLikes(by)
    BY <2>1 DEF InFlight, currentLikes, countLikes, rowsOf
  <2>3. \A r : newLikes(r)' = newLikes(r)
    BY <2>1 DEF newLikes
  <2>4. LikesTyped'
    BY <2>1, <2>2 DEF LikesInv, LikesTyped, RowsFit, countLikes, rowsOf
  <2>5. AloneCounts'
    BY <2>1, <2>2, <2>3 DEF LikesInv, AloneCounts, countLikes, rowsOf
  <2>6. SerialCounts'
    BY <2>1, <2>2, <2>3 DEF LikesInv, SerialCounts
  <2> QED
    BY <2>4, <2>5, <2>6 DEF LikesInv
<1>2. ASSUME NEW r \in Clicks, Click(r) \/ LikeStep(r) PROVE LikesInv'
  BY <1>2, ClickFits, CountFits, WriteFits, UpdateFits, FailFits DEF LikeStep
<1>3. ASSUME NEW o \in Owners, ReadPool(o) \/ UpsertPool(o) \/ FailPool(o) PROVE LikesInv'
  BY <1>3, ReadFits, LeaveFits
<1> QED
  BY <1>1, <1>2, <1>3 DEF LikesNext

\* The rest of a pool leaves the likes to PoolLikes: whatever its owner saves,
\* deletes or publishes, in whatever order, no statement but those of the clicks
\* and the upsert of a publication that has read the counter writes it
\* (Pool.router.ts, PoolLike.router.ts).
THEOREM PoolsKeepLikes == Spec => LikesSpec
<1>1. ASSUME [Next]_vars PROVE [LikesNext]_likeVars
  <2>1. ASSUME NEW o \in Owners, Start(o) PROVE UNCHANGED likeVars
    BY <2>1 DEF Start, StartSave, StartEdit, StartDelete, StartUnsave, StartPublish, start
  <2>2. ASSUME NEW o \in Owners, Step(o)
        PROVE  UNCHANGED likeVars \/ ReadPool(o) \/ UpsertPool(o) \/ FailPool(o)
    BY <2>2 DEF Step, SaveRow, SaveFile, UpsertProject, DeleteProject, DeleteManifest,
                ReadRows, ReadManifest, WritePool, StorePool, StorePoolFile, AnswerAll,
                FailOne, Fail
  <2> QED
    BY <1>1, <2>1, <2>2 DEF Next, vars, Like, LikesNext
<1>2. Init => LikesInit
  BY DEF Init
<1> QED
  BY <1>1, <1>2, PTL DEF Spec, LikesSpec

\* What LikesStayCounted says, of a pool by itself.
LEMMA LikesCounted == LikesSpec => []LikesAreCounted
<1>1. ASSUME LikesInv PROVE LikesAreCounted
  <2>1. likes >= 0 /\ (~overlapped => \A u \in Users : countLikes({u}) <= 1)
    BY <1>1 DEF LikesInv, LikesTyped, SerialCounts
  <2>2. InFlight = {} => \A r \in Clicks : pc[r] = "idle"
    BY DEF InFlight
  <2>3. InFlight = {} /\ ~overlapped /\ ~behind => likes = countLikes(Users)
    BY <1>1, <2>2 DEF LikesInv, SerialCounts, currentLikes
  <2> QED
    BY <2>1, <2>3 DEF LikesAreCounted
<1> QED
  BY <1>1, LikesBegin, LikesKept, PTL DEF LikesSpec

\* The counter of a pool is the number of its likes, one of each user, whenever
\* no request is being served, none ever overlapped another and the last click
\* that wrote its row got to the counter; it is never negative, whatever the
\* requests of PoolLike.router.ts and the publications of Pool.router.ts leave
\* undone or write over.
THEOREM LikesStayCounted == Spec => []LikesAreCounted
BY LikesCounted, PoolsKeepLikes, PTL

\* What LoneLikesRepair says, of a pool by itself.
LEMMA LikesRepaired == LikesSpec => LoneLikeRepairs
<1> DEFINE Repairs == \A r \in Clicks :
              pc[r] = "update" /\ like[r] /\ alone[r] /\ pc'[r] = "idle" /\ ~behind'
                => likes' = countLikes(Users)'
<1>1. ASSUME LikesInv, [LikesNext]_likeVars PROVE [Repairs]_likeVars
  <2> SUFFICES ASSUME NEW r \in Clicks, pc[r] = "update", like[r], alone[r], pc'[r] = "idle",
                      ~behind'
               PROVE  likes' = countLikes(Users)'
    BY DEF LikesInv
  <2>1. InFlight = {r} /\ newLikes(r) = currentLikes
    BY <1>1 DEF LikesInv, AloneCounts
  <2>2. ~UNCHANGED likeVars
    BY DEF likeVars
  <2>3. ASSUME NEW q \in Clicks, Click(q) \/ LikeStep(q) PROVE q = r /\ UpdateLikes(r)
    BY <1>1, <2>1, <2>3
       DEF Click, LikeStep, CountMine, CountAll, WriteRow, Answer, UpdateLikes, FailClick,
           InFlight, LikesInv, LikesTyped
  <2>4. ASSUME NEW o \in Owners, ReadPool(o) \/ UpsertPool(o) \/ FailPool(o) PROVE FALSE
    BY <2>4 DEF ReadPool, UpsertPool, FailPool, LeavePool
  <2>5. UpdateLikes(r)
    BY <1>1, <2>2, <2>3, <2>4 DEF LikesNext
  <2> QED
    BY <2>1, <2>5 DEF UpdateLikes, currentLikes, countLikes, rowsOf
<1> QED
  BY <1>1, LikesBegin, LikesKept, PTL DEF LikesSpec, LoneLikeRepairs

\* Races and failures leave a wrong counter; a like that nobody disturbs and that
\* does not fail repairs it, because likePool counts the rows and what it counted
\* is still so when it writes.
THEOREM LoneLikesRepair == Spec => LoneLikeRepairs
BY LikesRepaired, PoolsKeepLikes, PTL

-----------------------------------------------------------------------------
(* The files that are uploaded.                                            *)

UploadInv == UploadTypeOK /\ ObjectsAreOwn

\* A random name is no key, and nobody else's; every part has a key.
LEMMA NamesAreOwn ==
    ASSUME UploadTypeOK, NEW p \in Posts, NEW f \in Fields
    PROVE  /\ uuid(p, f) \in Objects \ Keys
           /\ \A q \in Posts, g \in Fields : uuid(q, g) = uuid(p, f) => q = p /\ g = f
           /\ body[p][f] \in Bytes => getKey(p, f) \in Keys
           /\ Keys \subseteq Objects
<1>1. \A q, g : uuid(q, g) = uuid(p, f) => q = p /\ g = f
  BY DEF uuid
<1>2. uuid(p, f) \in Objects \ Keys
  BY DEF uuid, Objects, Keys
<1>3. body[p][f] \in Bytes => getKey(p, f) \in Keys
  BY DEF getKey, Keys
<1>4. Keys \subseteq Objects
  BY DEF Objects
<1> QED
  BY <1>1, <1>2, <1>3, <1>4

\* What a step of one part changes: its stage and at most one object.
LEMMA PartStep ==
    ASSUME UploadTypeOK, NEW p \in Posts, NEW f \in Fields, NEW next, goto(p, f, next)
    PROVE  /\ next \in Stages => stage' \in [Posts -> [Fields -> Stages]]
           /\ \A q \in Posts, g \in Fields :
                 stage'[q][g] = IF q = p /\ g = f THEN next ELSE stage[q][g]
BY DEF UploadTypeOK, goto

LEMMA PutObject ==
    ASSUME UploadTypeOK, NEW object \in Objects, NEW bytes \in Bytes \cup {NoFile},
           put(object, bytes)
    PROVE  /\ bucket' \in [Objects -> Bytes \cup {NoFile}]
           /\ \A other \in Objects :
                 bucket'[other] = IF other = object THEN bytes ELSE bucket[other]
BY DEF UploadTypeOK, put

LEMMA PostKeeps ==
    ASSUME UploadInv, NEW p \in Posts, Post(p)
    PROVE  UploadInv'
<1>1. PICK parts \in [Fields -> Bytes \cup {NoFile}] :
          /\ body' = [body EXCEPT ![p] = parts]
          /\ stage' = [stage EXCEPT ![p] =
                          [f \in Fields |-> IF parts[f] = NoFile THEN "none" ELSE "sent"]]
  BY DEF Post
<1>2. /\ UNCHANGED bucket /\ status' = [status EXCEPT ![p] = "asked"]
      /\ \E by \in Routes : route' = [route EXCEPT ![p] = by]
  BY DEF Post
<1>3. UploadTypeOK'
  BY <1>1, <1>2 DEF UploadInv, UploadTypeOK, Stages
<1>4. ASSUME NEW q \in Posts, NEW f \in Fields
      PROVE  /\ stage'[q][f] # "none" => body'[q][f] \in Bytes /\ status'[q] = "asked"
             /\ stage'[q][f] = "stored" => bucket'[uuid(q, f)] = body'[q][f]
  <2>1. CASE q = p
    <3>1. /\ stage'[p][f] = IF parts[f] = NoFile THEN "none" ELSE "sent"
          /\ body'[p][f] = parts[f] /\ status'[p] = "asked"
      BY <1>1, <1>2 DEF UploadInv, UploadTypeOK
    <3> QED
      BY <2>1, <3>1
  <2>2. CASE q # p
    <3>1. stage'[q] = stage[q] /\ body'[q] = body[q] /\ status'[q] = status[q]
      BY <1>1, <1>2, <2>2 DEF UploadInv, UploadTypeOK
    <3> QED
      BY <1>2, <3>1 DEF UploadInv, ObjectsAreOwn
  <2> QED
    BY <2>1, <2>2
<1>5. ObjectsAreOwn'
  BY <1>2, <1>4 DEF UploadInv, ObjectsAreOwn, handleContents, uuid
<1> QED
  BY <1>3, <1>5 DEF UploadInv

LEMMA HandleKeeps ==
    ASSUME UploadInv, NEW p \in Posts, NEW f \in Fields, HandleFile(p, f)
    PROVE  UploadInv'
<1>1. /\ UploadTypeOK /\ UNCHANGED <<route, body, status>>
      /\ stage[p][f] # "none"
  BY DEF UploadInv, HandleFile, UploadFile, CopyFile, DeleteFile, FailPart
<1>2. body[p][f] \in Bytes /\ status[p] = "asked"
  BY <1>1 DEF UploadInv, ObjectsAreOwn
<1>3. uuid(p, f) \in Objects \ Keys /\ getKey(p, f) \in Keys
  BY <1>1, <1>2, NamesAreOwn
<1>4. ASSUME NEW next \in Stages, goto(p, f, next), bucket' \in [Objects -> Bytes \cup {NoFile}]
      PROVE  UploadTypeOK'
  BY <1>1, <1>4, PartStep DEF UploadTypeOK
<1>5. ASSUME NEW next \in Stages, goto(p, f, next), bucket' \in [Objects -> Bytes \cup {NoFile}],
             \A hash \in Bytes : handleContents(hash)' \in {handleContents(hash), hash},
             \A q \in Posts, g \in Fields :
                 q # p \/ g # f => bucket'[uuid(q, g)] = bucket[uuid(q, g)],
             next = "stored" => bucket'[uuid(p, f)] = body[p][f]
      PROVE  UploadInv'
  <2>1. ASSUME NEW q \in Posts, NEW g \in Fields
        PROVE  /\ stage'[q][g] # "none" => body'[q][g] \in Bytes /\ status'[q] = "asked"
               /\ stage'[q][g] = "stored" => bucket'[uuid(q, g)] = body'[q][g]
    <3>1. stage'[q][g] = IF q = p /\ g = f THEN next ELSE stage[q][g]
      BY <1>1, <1>5, PartStep
    <3> QED
      BY <1>1, <1>2, <1>5, <3>1 DEF UploadInv, ObjectsAreOwn
  <2>2. \A hash \in Bytes : handleContents(hash)' \in {hash, NoFile}
    BY <1>5 DEF UploadInv, ObjectsAreOwn
  <2>3. ObjectsAreOwn'
    BY <2>1, <2>2 DEF ObjectsAreOwn, uuid
  <2> QED
    BY <1>4, <1>5, <2>3 DEF UploadInv
<1>6. \A q \in Posts, g \in Fields :
         /\ uuid(q, g) \in Objects \ Keys
         /\ q # p \/ g # f => uuid(q, g) # uuid(p, f)
  BY <1>1, NamesAreOwn
<1>7. \A hash \in Bytes : <<"contents", hash>> \in Keys
  BY DEF Keys
<1>8. Keys \subseteq Objects
  BY DEF Objects
<1>9. CASE UploadFile(p, f)
  <2>1. put(uuid(p, f), body[p][f]) /\ goto(p, f, "stored")
    BY <1>9 DEF UploadFile
  <2>2. /\ bucket' \in [Objects -> Bytes \cup {NoFile}]
        /\ \A other \in Objects :
              bucket'[other] = IF other = uuid(p, f) THEN body[p][f] ELSE bucket[other]
    BY <1>1, <1>2, <1>3, <2>1, PutObject
  <2> QED
    BY <1>3, <1>5, <1>6, <1>7, <1>8, <2>1, <2>2 DEF handleContents, Stages
<1>10. CASE CopyFile(p, f)
  <2>1. put(getKey(p, f), bucket[uuid(p, f)]) /\ goto(p, f, "copied")
    BY <1>10 DEF CopyFile
  <2>2. bucket[uuid(p, f)] = body[p][f]
    BY <1>10 DEF CopyFile, UploadInv, ObjectsAreOwn
  <2>3. /\ bucket' \in [Objects -> Bytes \cup {NoFile}]
        /\ \A other \in Objects :
              bucket'[other] = IF other = getKey(p, f) THEN body[p][f] ELSE bucket[other]
    BY <1>1, <1>2, <1>3, <1>8, <2>1, <2>2, PutObject
  <2>4. \A hash \in Bytes : handleContents(hash)' \in {handleContents(hash), hash}
    <3>1. \A hash \in Bytes : getKey(p, f) = <<"contents", hash>> => hash = body[p][f]
      BY DEF getKey
    <3> QED
      BY <1>7, <1>8, <2>3, <3>1 DEF handleContents
  <2> QED
    BY <1>3, <1>5, <1>6, <2>1, <2>3, <2>4 DEF Stages
<1>11. CASE DeleteFile(p, f)
  <2>1. put(uuid(p, f), NoFile) /\ goto(p, f, "moved")
    BY <1>11 DEF DeleteFile
  <2>2. /\ bucket' \in [Objects -> Bytes \cup {NoFile}]
        /\ \A other \in Objects :
              bucket'[other] = IF other = uuid(p, f) THEN NoFile ELSE bucket[other]
    BY <1>1, <1>3, <2>1, PutObject
  <2> QED
    BY <1>3, <1>5, <1>6, <1>7, <1>8, <2>1, <2>2 DEF handleContents, Stages
<1>12. CASE FailPart(p, f)
  <2>1. UNCHANGED bucket /\ (goto(p, f, "lost") \/ goto(p, f, "left"))
    BY <1>12 DEF FailPart
  <2> QED
    BY <1>1, <1>5, <2>1 DEF handleContents, Stages, UploadTypeOK
<1> QED
  BY <1>9, <1>10, <1>11, <1>12 DEF HandleFile

LEMMA AnswerKeeps ==
    ASSUME UploadInv, NEW p \in Posts, AnswerPost(p)
    PROVE  UploadInv' /\ \A key \in Keys : bucket'[key] = bucket[key]
<1>1. /\ bucket' = [object \in Objects |->
                       IF object \in {uuid(p, f) : f \in Fields} THEN NoFile
                       ELSE bucket[object]]
      /\ route' = [route EXCEPT ![p] = "named"]
      /\ body' = [body EXCEPT ![p] = nothing]
      /\ stage' = [stage EXCEPT ![p] = [f \in Fields |-> "none"]]
      /\ \E outcome \in {"ok", "failed"} : status' = [status EXCEPT ![p] = outcome]
  BY DEF AnswerPost
<1>2. UploadTypeOK'
  BY <1>1 DEF UploadInv, UploadTypeOK, Stages, Routes, nothing
<1>3. \A key \in Keys : bucket'[key] = bucket[key]
  BY <1>1, NamesAreOwn DEF UploadInv, Objects
<1>4. ASSUME NEW q \in Posts, NEW f \in Fields
      PROVE  /\ stage'[q][f] # "none" => body'[q][f] \in Bytes /\ status'[q] = "asked"
             /\ stage'[q][f] = "stored" => bucket'[uuid(q, f)] = body'[q][f]
  <2>1. CASE q = p
    BY <1>1, <2>1 DEF UploadInv, UploadTypeOK
  <2>2. CASE q # p
    <3>1. stage'[q] = stage[q] /\ body'[q] = body[q] /\ status'[q] = status[q]
      BY <1>1, <2>2 DEF UploadInv, UploadTypeOK
    <3>2. uuid(q, f) \in Objects /\ uuid(q, f) \notin {uuid(p, g) : g \in Fields}
      BY <2>2, NamesAreOwn DEF UploadInv
    <3> QED
      BY <1>1, <3>1, <3>2 DEF UploadInv, ObjectsAreOwn
  <2> QED
    BY <2>1, <2>2
<1>5. \A hash \in Bytes : handleContents(hash)' = handleContents(hash)
  BY <1>3 DEF handleContents, Keys
<1>6. ObjectsAreOwn'
  BY <1>4, <1>5 DEF UploadInv, ObjectsAreOwn, uuid
<1> QED
  BY <1>2, <1>3, <1>6 DEF UploadInv

LEMMA UploadsBegin == UploadInit => UploadInv
<1> SUFFICES ASSUME UploadInit PROVE UploadInv
  OBVIOUS
<1>1. UploadTypeOK
  BY DEF UploadInit, UploadTypeOK, Routes, Stages, nothing
<1>2. ObjectsAreOwn
  BY DEF UploadInit, ObjectsAreOwn, handleContents, Objects, Keys
<1> QED
  BY <1>1, <1>2 DEF UploadInv

LEMMA UploadsKept == UploadInv /\ [UploadNext]_uploadVars => UploadInv'
<1> SUFFICES ASSUME UploadInv, [UploadNext]_uploadVars PROVE UploadInv'
  OBVIOUS
<1>1. CASE UNCHANGED uploadVars
  BY <1>1 DEF uploadVars, UploadInv, UploadTypeOK, ObjectsAreOwn, handleContents
<1>2. CASE UploadNext
  BY <1>2, PostKeeps, HandleKeeps, AnswerKeeps DEF UploadNext
<1> QED
  BY <1>1, <1>2

\* Parts of a post whose file is not under its key.
missing(p) == {f \in Fields : stage[p][f] \in {"sent", "stored", "lost"}}
partOf(p, f) == [field |-> f, key |-> getKey(p, f), bytes |-> body[p][f]]

LEMMA WaitingIsMissing ==
    /\ waiting = [p \in Posts |-> {partOf(p, f) : f \in missing(p)}]
    /\ waiting' = [p \in Posts |-> {partOf(p, f)' : f \in missing(p)'}]
BY DEF waiting, missing, partOf

\* Steps of a post that leave it as much to store as before.
LEMMA WaitingStays ==
    ASSUME UNCHANGED <<route, body>>,
           \A p \in Posts, f \in Fields : f \in missing(p)' <=> f \in missing(p)
    PROVE  waiting' = waiting
<1>1. \A p \in Posts : missing(p)' = missing(p)
  BY DEF missing
<1>2. \A p, f : partOf(p, f)' = partOf(p, f)
  BY DEF partOf, getKey
<1> QED
  BY <1>1, <1>2, WaitingIsMissing

\* A post leaves what the others have to store as it is.
LEMMA OthersWait ==
    ASSUME UploadTypeOK, NEW p \in Posts,
           \A q \in Posts \ {p} : /\ route'[q] = route[q] /\ body'[q] = body[q]
                                  /\ stage'[q] = stage[q]
    PROVE  waiting' = [waiting EXCEPT ![p] = waiting'[p]]
<1>1. \A q \in Posts \ {p} :
         missing(q)' = missing(q) /\ \A f : partOf(q, f)' = partOf(q, f)
  BY DEF missing, partOf, getKey
<1>2. \A q \in Posts \ {p} : waiting'[q] = waiting[q]
  BY <1>1, WaitingIsMissing
<1>3. DOMAIN waiting = Posts /\ waiting' = [q \in Posts |-> waiting'[q]]
  BY WaitingIsMissing
<1> QED
  BY <1>2, <1>3

LEMMA UploadStepIsAtomic ==
    ASSUME UploadInv, [UploadNext]_uploadVars
    PROVE  [Store!Next]_Store!vars
<1> DEFINE files == [key \in Keys |-> bucket[key]]
<1>1. CASE UNCHANGED uploadVars
  <2>1. waiting' = waiting
    BY <1>1 DEF uploadVars, waiting, getKey
  <2> QED
    BY <1>1, <2>1 DEF uploadVars, Store!vars
<1>2. ASSUME NEW p \in Posts, Post(p) PROVE Store!Next
  <2>1. /\ status[p] # "asked" /\ status' = [status EXCEPT ![p] = "asked"]
        /\ UNCHANGED bucket
    BY <1>2 DEF Post
  <2>2. waiting' = [waiting EXCEPT ![p] = waiting'[p]]
    <3>1. \A q \in Posts \ {p} : /\ route'[q] = route[q] /\ body'[q] = body[q]
                                 /\ stage'[q] = stage[q]
      BY <1>2 DEF Post, UploadInv, UploadTypeOK
    <3> QED
      BY <3>1, OthersWait DEF UploadInv
  <2>3. waiting'[p] \in SUBSET Store!Parts
    <3>1. (UploadTypeOK /\ ObjectsAreOwn)'
      BY <1>2, PostKeeps DEF UploadInv
    <3>2. ASSUME NEW f \in Fields, stage'[p][f] \in {"sent", "stored", "lost"}
          PROVE  [field |-> f, key |-> getKey(p, f)', bytes |-> body'[p][f]] \in Store!Parts
      <4>1. body'[p][f] \in Bytes
        BY <3>1, <3>2 DEF ObjectsAreOwn
      <4>2. getKey(p, f)' \in {<<"named", f>>, <<"contents", body'[p][f]>>}
        BY DEF getKey
      <4> QED
        BY <4>1, <4>2 DEF Store!Parts, Store!Keys
    <3> QED
      BY <3>2 DEF waiting
  <2>4. Store!Ask(p)
    BY <2>1, <2>2, <2>3 DEF Store!Ask
  <2> QED
    BY <2>4 DEF Store!Next
<1>3. ASSUME NEW p \in Posts, AnswerPost(p) PROVE Store!Next
  <2>1. PICK outcome \in {"ok", "failed"} :
            /\ outcome = "ok" => ~isCutShort(p)
            /\ status' = [status EXCEPT ![p] = outcome]
    BY <1>3 DEF AnswerPost
  <2>2. status[p] = "asked" /\ isSettled(p)
    BY <1>3 DEF AnswerPost
  <2>3. files' = files
    BY <1>3, AnswerKeeps
  <2>4. waiting' = [waiting EXCEPT ![p] = {}]
    <3>1. \A q \in Posts \ {p} : /\ route'[q] = route[q] /\ body'[q] = body[q]
                                 /\ stage'[q] = stage[q]
      BY <1>3 DEF AnswerPost, UploadInv, UploadTypeOK
    <3>2. waiting'[p] = {}
      BY <1>3 DEF AnswerPost, UploadInv, UploadTypeOK, waiting
    <3> QED
      BY <3>1, <3>2, OthersWait DEF UploadInv
  <2>5. CASE outcome = "failed"
    <3>1. Store!Refuse(p)
      BY <2>1, <2>2, <2>3, <2>4, <2>5 DEF Store!Refuse
    <3> QED
      BY <3>1 DEF Store!Next
  <2>6. CASE outcome = "ok"
    <3>1. waiting[p] = {}
      BY <2>1, <2>2, <2>6 DEF isCutShort, isSettled, waiting
    <3>2. waiting' = waiting
      BY <2>4, <3>1 DEF waiting
    <3>3. Store!Accept(p)
      BY <2>1, <2>2, <2>3, <2>6, <3>1, <3>2 DEF Store!Accept
    <3> QED
      BY <3>3 DEF Store!Next
  <2> QED
    BY <2>1, <2>5, <2>6
<1>4. ASSUME NEW p \in Posts, NEW f \in Fields, CopyFile(p, f) PROVE Store!Next
  <2>1. /\ stage[p][f] = "stored" /\ goto(p, f, "copied")
        /\ put(getKey(p, f), bucket[uuid(p, f)]) /\ UNCHANGED <<route, body, status>>
    BY <1>4 DEF CopyFile
  <2>2. /\ bucket[uuid(p, f)] = body[p][f] /\ body[p][f] \in Bytes /\ status[p] = "asked"
    BY <2>1 DEF UploadInv, ObjectsAreOwn
  <2>3. getKey(p, f) \in Keys
    BY <2>2, NamesAreOwn DEF UploadInv
  <2>4. files' = [files EXCEPT ![getKey(p, f)] = body[p][f]]
    <3>1. Keys \subseteq Objects
      BY DEF Objects
    <3>2. \A key \in Keys :
              bucket'[key] = IF key = getKey(p, f) THEN body[p][f] ELSE bucket[key]
      BY <2>1, <2>2, <3>1 DEF put, UploadInv, UploadTypeOK
    <3> QED
      BY <2>3, <3>2
  <2>5. \A q \in Posts, g \in Fields :
            stage'[q][g] = IF q = p /\ g = f THEN "copied" ELSE stage[q][g]
    BY <2>1, PartStep DEF UploadInv
  <2>6. partOf(p, f) \in waiting[p]
    BY <2>1 DEF partOf, waiting
  <2>7. waiting' = [waiting EXCEPT ![p] = @ \ {partOf(p, f)}]
    <3>1. \A q \in Posts : missing(q)' = IF q = p THEN missing(q) \ {f} ELSE missing(q)
      BY <2>5 DEF missing
    <3>2. \A q, g : partOf(q, g)' = partOf(q, g)
      BY <2>1 DEF partOf, getKey
    <3>3. \A g : partOf(p, g) = partOf(p, f) => g = f
      BY DEF partOf
    <3>4. {partOf(p, g) : g \in missing(p) \ {f}}
             = {partOf(p, g) : g \in missing(p)} \ {partOf(p, f)}
      BY <3>3
    <3>5. \A q \in Posts :
              waiting'[q] = IF q = p THEN waiting[q] \ {partOf(p, f)} ELSE waiting[q]
      BY <3>1, <3>2, <3>4, WaitingIsMissing
    <3>6. DOMAIN waiting = Posts /\ waiting' = [q \in Posts |-> waiting'[q]]
      BY WaitingIsMissing
    <3> QED
      BY <3>5, <3>6
  <2>8. partOf(p, f).key = getKey(p, f) /\ partOf(p, f).bytes = body[p][f]
    BY DEF partOf
  <2>9. Store!Store(p)
    BY <2>1, <2>2, <2>4, <2>6, <2>7, <2>8 DEF Store!Store
  <2> QED
    BY <2>9 DEF Store!Next
<1>5. ASSUME NEW p \in Posts, NEW f \in Fields,
             UploadFile(p, f) \/ DeleteFile(p, f) \/ FailPart(p, f)
      PROVE  UNCHANGED Store!vars
  <2>1. PICK next \in Stages :
            /\ goto(p, f, next)
            /\ next \in {"sent", "stored", "lost"} <=> stage[p][f] \in {"sent", "stored", "lost"}
    BY <1>5 DEF UploadFile, DeleteFile, FailPart, Stages
  <2>2. UNCHANGED <<route, body, status>>
    BY <1>5 DEF UploadFile, DeleteFile, FailPart
  <2>3. waiting' = waiting
    <3>1. \A q \in Posts, g \in Fields :
              stage'[q][g] = IF q = p /\ g = f THEN next ELSE stage[q][g]
      BY <2>1, PartStep DEF UploadInv
    <3>2. \A q \in Posts, g \in Fields : g \in missing(q)' <=> g \in missing(q)
      BY <2>1, <3>1 DEF missing
    <3> QED
      BY <2>2, <3>2, WaitingStays
  <2>4. files' = files
    <3>1. UNCHANGED bucket \/ \E bytes : put(uuid(p, f), bytes)
      BY <1>5 DEF UploadFile, DeleteFile, FailPart
    <3>2. uuid(p, f) \notin Keys
      BY NamesAreOwn DEF UploadInv
    <3>3. \A key \in Keys : bucket'[key] = bucket[key]
      BY <3>1, <3>2, NamesAreOwn DEF put, UploadInv, UploadTypeOK
    <3> QED
      BY <3>3
  <2> QED
    BY <2>2, <2>3, <2>4 DEF Store!vars
<1> QED
  BY <1>1, <1>2, <1>3, <1>4, <1>5 DEF UploadNext, HandleFile

\* Types are kept, a part finds under its random name the file it has put there,
\* and nothing is under a hash but what the hash was taken of, whatever crosses or
\* fails (Storage._handleFile, moveFile).
THEOREM UploadsKeepTheirOwn == UploadSpec => [](UploadTypeOK /\ ObjectsAreOwn)
<1> QED
  BY UploadsBegin, UploadsKept, PTL DEF UploadSpec, UploadInv

\* Uploads do what FileStore promises, whatever crosses, fails or is cut short:
\* each file gets under its key at once and whole, in copyFile, and a post is
\* answered without an error when all of its files are there (S3/uploads.ts).
THEOREM UploadsImplementStore == UploadSpec => UploadsAreAtomic
<1>1. UploadInit => Store!Init
  <2> SUFFICES ASSUME UploadInit PROVE Store!Init
    OBVIOUS
  <2>1. [key \in Keys |-> bucket[key]] = [key \in Store!Keys |-> NoFile]
    BY DEF UploadInit, Objects, Keys, Store!Keys
  <2>2. waiting = [p \in Posts |-> {}]
    BY DEF UploadInit, waiting
  <2> QED
    BY <2>1, <2>2 DEF UploadInit, Store!Init
<1>2. UploadInv /\ [UploadNext]_uploadVars => [Store!Next]_Store!vars
  BY UploadStepIsAtomic
<1> QED
  BY <1>1, <1>2, UploadsBegin, UploadsKept, PTL DEF UploadSpec, UploadsAreAtomic, Store!Spec

\* What has been served under a hash is served under it for ever, and is what the
\* hash was taken of, whoever uploads at the same time (S3Router.handleContents).
THEOREM ContentsAreKept == UploadSpec => ContentIsKept
<1> DEFINE Keeps == \A hash \in Bytes :
              \/ handleContents(hash)' = hash
              \/ handleContents(hash) = NoFile /\ handleContents(hash)' = NoFile
<1>1. ASSUME UploadInv, [UploadNext]_uploadVars PROVE [Keeps]_uploadVars
  <2> SUFFICES ASSUME UploadNext, NEW hash \in Bytes
               PROVE  \/ handleContents(hash)' = hash
                      \/ handleContents(hash) = NoFile /\ handleContents(hash)' = NoFile
    BY <1>1
  <2>1. handleContents(hash)' \in {hash, NoFile}
    BY <1>1, UploadsKept DEF UploadInv, ObjectsAreOwn
  <2>2. handleContents(hash)' # NoFile \/ handleContents(hash) = NoFile
    <3>1. <<"contents", hash>> \in Keys /\ Keys \subseteq Objects
      BY DEF Keys, Objects
    <3>2. CASE UNCHANGED bucket
      BY <1>1, <3>2, UploadsAssumption DEF handleContents, UploadInv, ObjectsAreOwn
    <3>3. ASSUME NEW p \in Posts, AnswerPost(p) PROVE UNCHANGED handleContents(hash)
      BY <1>1, <3>1, <3>3, AnswerKeeps DEF handleContents
    <3>4. ASSUME NEW p \in Posts, NEW f \in Fields, UploadFile(p, f) \/ DeleteFile(p, f)
          PROVE  UNCHANGED handleContents(hash)
      BY <1>1, <3>1, <3>4, NamesAreOwn
         DEF UploadFile, DeleteFile, put, handleContents, UploadInv, UploadTypeOK
    <3>5. ASSUME NEW p \in Posts, NEW f \in Fields, CopyFile(p, f)
          PROVE  handleContents(hash)' \in {handleContents(hash), bucket[uuid(p, f)]}
      BY <1>1, <3>1, <3>5 DEF CopyFile, put, handleContents, UploadInv, UploadTypeOK
    <3>6. ASSUME NEW p \in Posts, NEW f \in Fields, CopyFile(p, f)
          PROVE  bucket[uuid(p, f)] # NoFile
      BY <3>6 DEF CopyFile
    <3> QED
      BY <3>2, <3>3, <3>4, <3>5, <3>6 DEF UploadNext, HandleFile, Post, FailPart
  <2> QED
    BY <2>1, <2>2
<1> QED
  BY <1>1, UploadsBegin, UploadsKept, PTL DEF UploadSpec, ContentIsKept

=============================================================================
