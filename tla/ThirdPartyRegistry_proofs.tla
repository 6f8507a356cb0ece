---------------------- MODULE ThirdPartyRegistry_proofs ---------------------
(***************************************************************************)
(* No two items and no two collections share a URN, for any number of      *)
(* them, of requests and of failures.                                      *)
(*                                                                         *)
(* URNs are unique because rows are: items of one URN are in collections   *)
(* with one row, which is one collection, so their rows are equal as well. *)
(* Rows are unique because an upsert writes a row only if it fits, whatever*)
(* the request has checked before, and the other statements only delete.   *)
(*                                                                         *)
(* A request that is served alone writes with what it has checked still    *)
(* true: it keeps the URNs of published items, keeps the suffixes of a     *)
(* third party apart, and leaves no collection without a manager.          *)
(***************************************************************************)
EXTENDS ThirdPartyRegistry, TLAPS

\* The locals an answered request is left with, and those of one that starts.
LEMMA IdleIsLocal == Idle \in Locals
BY DEF Idle, Locals

\* What a local must be for the statements that are still to come.
LocalsFit(locals) ==
    /\ locals \in Locals
    /\ locals.kind = "save" => locals.row \in CollectionRows
    /\ locals.pc = "create" => locals.user \in Users
    /\ locals.kind = "drop" => locals.id \in Collections
    /\ locals.kind = "put" => locals.row \in ItemRows
    /\ locals.kind = "publish" => locals.id \in Items

\* The tables and the graph hold rows of their types.
TablesFit ==
    /\ collections \in [Collections -> CollectionRows \cup {None}]
    /\ items \in [Items -> ItemRows \cup {None}]
    /\ curated \subseteq {i \in Items : items[i] # None}
    /\ virtual \in [ThirdParties -> Users \cup {None}]
    /\ graph \in [ThirdParties -> Users \cup {None}]

LEMMA TypeOKParts ==
    TypeOK <=> /\ TablesFit /\ faults \in 0..MaxFaults
               /\ req \in [Requests -> Locals] /\ \A r \in Requests : LocalsFit(req[r])
BY DEF TypeOK, TablesFit, LocalsFit

\* Answering a request leaves all requests with fitting locals.
LEMMA AnswerFits ==
    ASSUME TypeOK, NEW r \in Requests, answer(r)
    PROVE  req' \in [Requests -> Locals] /\ \A q \in Requests : LocalsFit(req'[q])
<1>1. LocalsFit(Idle)
  BY IdleIsLocal DEF LocalsFit, Idle
<1>2. \A q \in Requests : LocalsFit(req[q])
  BY TypeOKParts
<1>3. /\ req' = [q \in Requests |-> req'[q]]
      /\ \A q \in Requests : req'[q] = IF q = r THEN Idle ELSE req[q]
  BY DEF answer, TypeOK
<1>4. \A q \in Requests : LocalsFit(req'[q])
  BY <1>1, <1>2, <1>3
<1> QED
  BY <1>3, <1>4 DEF LocalsFit

\* A request starts with the locals it was given, the others lose their flag.
LEMMA StartFits ==
    ASSUME TypeOK, NEW r \in Requests, NEW locals, LocalsFit(locals), start(r, locals)
    PROVE  /\ req' \in [Requests -> Locals] /\ \A q \in Requests : LocalsFit(req'[q])
           /\ UNCHANGED <<collections, items, curated, virtual, graph>>
<1>1. \A other, flag : LocalsFit(other) /\ flag \in BOOLEAN
                         => LocalsFit([other EXCEPT !.lone = flag])
  BY DEF LocalsFit, Locals
<1>2. \A q \in Requests : LocalsFit(req[q])
  BY TypeOKParts
<1>3. (inFlight = {}) \in BOOLEAN
  OBVIOUS
<1>4. \A q \in Requests :
          req'[q] = IF q = r THEN [locals EXCEPT !.lone = inFlight = {}]
                    ELSE [req[q] EXCEPT !.lone = FALSE]
  BY DEF start
<1>5. ASSUME NEW q \in Requests PROVE LocalsFit(req'[q])
  <2>1. CASE q = r
    <3>1. LocalsFit([locals EXCEPT !.lone = inFlight = {}])
      BY <1>1, <1>3
    <3> QED
      BY <2>1, <3>1, <1>4
  <2>2. CASE q # r
    <3>1. LocalsFit([req[q] EXCEPT !.lone = FALSE])
      BY <1>1, <1>2
    <3> QED
      BY <2>2, <3>1, <1>4
  <2> QED
    BY <2>1, <2>2
<1>6. req' = [q \in Requests |-> req'[q]]
  BY DEF start
<1>7. \A q \in Requests : req'[q] \in Locals
  BY <1>5 DEF LocalsFit
<1> QED
  BY <1>5, <1>6, <1>7 DEF start, tables

\* A request that goes on keeps its locals but for where it is.
LEMMA GotoFits ==
    ASSUME TypeOK, NEW r \in Requests, NEW pc \in {"urn", "delete", "write"}, goto(r, pc)
    PROVE  req' \in [Requests -> Locals] /\ \A q \in Requests : LocalsFit(req'[q])
<1>1. LocalsFit([req[r] EXCEPT !.pc = pc])
  BY TypeOKParts DEF LocalsFit, Locals
<1>2. req' = [q \in Requests |-> req'[q]]
      /\ \A q \in Requests : req'[q] = IF q = r THEN [req[r] EXCEPT !.pc = pc] ELSE req[q]
  BY DEF goto, TypeOK
<1>3. \A q \in Requests : LocalsFit(req'[q])
  BY <1>1, <1>2, TypeOKParts
<1> QED
  BY <1>2, <1>3 DEF LocalsFit

\* What every kind of request starts with fits.
LEMMA AskFits ==
    /\ \A c \in Collections, row \in CollectionRows :
          /\ LocalsFit([ask("save", "write", c) EXCEPT !.row = row])
          /\ LocalsFit([ask("save", "urn", c) EXCEPT !.row = row])
          /\ \A user \in Users :
                LocalsFit([ask("save", "create", c) EXCEPT !.row = row, !.user = user])
    /\ \A c \in Collections :
          LocalsFit([ask("drop", "delete", c) EXCEPT !.todo = {"collection", "items"}])
    /\ \A i \in Items :
          /\ \A row \in ItemRows : LocalsFit([ask("put", "write", i) EXCEPT !.row = row])
          /\ LocalsFit(ask("remove", "write", i))
          /\ LocalsFit(ask("publish", "write", i))
    /\ \A t \in ThirdParties : LocalsFit(ask("forget", "write", t))
<1>1. ASSUME NEW c \in Collections, NEW row \in CollectionRows
      PROVE  /\ LocalsFit([ask("save", "write", c) EXCEPT !.row = row])
             /\ LocalsFit([ask("save", "urn", c) EXCEPT !.row = row])
  BY DEF LocalsFit, Locals, ask, Idle
<1>2. ASSUME NEW c \in Collections, NEW row \in CollectionRows, NEW user \in Users
      PROVE  LocalsFit([ask("save", "create", c) EXCEPT !.row = row, !.user = user])
  BY DEF LocalsFit, Locals, ask, Idle
<1>3. ASSUME NEW c \in Collections
      PROVE  LocalsFit([ask("drop", "delete", c) EXCEPT !.todo = {"collection", "items"}])
  BY DEF LocalsFit, Locals, ask, Idle
<1>4. ASSUME NEW i \in Items, NEW row \in ItemRows
      PROVE  LocalsFit([ask("put", "write", i) EXCEPT !.row = row])
  BY DEF LocalsFit, Locals, ask, Idle
<1>5. ASSUME NEW i \in Items
      PROVE  LocalsFit(ask("remove", "write", i)) /\ LocalsFit(ask("publish", "write", i))
  BY DEF LocalsFit, Locals, ask, Idle
<1>6. ASSUME NEW t \in ThirdParties PROVE LocalsFit(ask("forget", "write", t))
  BY DEF LocalsFit, Locals, ask, Idle
<1> QED
  BY <1>1, <1>2, <1>3, <1>4, <1>5, <1>6

\* A failure is counted up to its bound.
LEMMA FaultFits ==
    ASSUME TypeOK, fault \/ UNCHANGED faults
    PROVE  faults' \in 0..MaxFaults
BY RegistryAssumption DEF TypeOK, fault

\* A request that starts only sets its locals.
LEMMA StartKeepsTypes ==
    ASSUME TypeOK, NEW r \in Requests, Start(r)
    PROVE  TypeOK'
<1>1. PICK user \in Users :
        \/ \E c \in Collections, row \in CollectionRows :
              StartUpdate(r, user, c, row) \/ StartInsert(r, user, c, row)
        \/ \E c \in Collections : StartDrop(r, user, c)
        \/ \E i \in Items, row \in ItemRows : StartPut(r, user, i, row)
        \/ \E i \in Items : StartRemove(r, user, i) \/ StartPublish(r, user, i)
        \/ \E t \in ThirdParties : StartForget(r, user, t)
  BY RegistryAssumption DEF Start
<1>2. \A locals : LocalsFit(locals) /\ start(r, locals) /\ (fault \/ UNCHANGED faults) => TypeOK'
  BY StartFits, FaultFits, TypeOKParts DEF TypeOK, TablesFit, LocalsFit
<1>3. ASSUME NEW c \in Collections, NEW row \in CollectionRows,
             StartUpdate(r, user, c, row) \/ StartInsert(r, user, c, row)
      PROVE  TypeOK'
  BY <1>2, <1>3, AskFits DEF StartUpdate, StartInsert
<1>4. ASSUME NEW c \in Collections, StartDrop(r, user, c) PROVE TypeOK'
  BY <1>2, <1>4, AskFits DEF StartDrop
<1>5. ASSUME NEW i \in Items, NEW row \in ItemRows, StartPut(r, user, i, row) PROVE TypeOK'
  BY <1>2, <1>5, AskFits DEF StartPut
<1>6. ASSUME NEW i \in Items, StartRemove(r, user, i) \/ StartPublish(r, user, i) PROVE TypeOK'
  BY <1>2, <1>6, AskFits DEF StartRemove, StartPublish
<1>7. ASSUME NEW t \in ThirdParties, StartForget(r, user, t) PROVE TypeOK'
  BY <1>2, <1>7, AskFits DEF StartForget
<1> QED
  BY <1>1, <1>3, <1>4, <1>5, <1>6, <1>7

\* The statements of a request write rows of their types.
LEMMA StepKeepsTypes ==
    ASSUME TypeOK, NEW r \in Requests, Step(r)
    PROVE  TypeOK'
<1>1. ASSUME TablesFit', fault \/ UNCHANGED faults,
             req' \in [Requests -> Locals] /\ \A q \in Requests : LocalsFit(req'[q])
      PROVE  TypeOK'
  BY <1>1, FaultFits DEF TypeOK, TablesFit, LocalsFit
<1>2. TablesFit /\ LocalsFit(req[r])
  BY TypeOKParts
<1>3. CASE CreateVirtualThirdParty(r)
  <2>1. req[r].user \in Users /\ req[r].row.party \in ThirdParties
    BY <1>2, <1>3 DEF CreateVirtualThirdParty, at, LocalsFit, CollectionRows
  <2>2. TablesFit'
    BY <1>2, <1>3, <2>1 DEF CreateVirtualThirdParty, TablesFit
  <2>3. CASE answer(r)
    BY <1>1, <1>3, <2>2, <2>3, AnswerFits DEF CreateVirtualThirdParty
  <2>4. CASE req' = [req EXCEPT ![r].pc = "urn", ![r].user = None]
    <3>1. LocalsFit([req[r] EXCEPT !.pc = "urn", !.user = None])
      <4>1. \A locals : LocalsFit(locals) => LocalsFit([locals EXCEPT !.pc = "urn"])
        BY DEF LocalsFit, Locals
      <4>2. \A locals : LocalsFit(locals) /\ locals.pc = "urn"
                         => LocalsFit([locals EXCEPT !.user = None])
        BY DEF LocalsFit, Locals
      <4>3. [req[r] EXCEPT !.pc = "urn"].pc = "urn"
        BY <1>2 DEF LocalsFit, Locals
      <4> QED
        BY <1>2, <4>1, <4>2, <4>3
    <3>2. req' = [q \in Requests |-> req'[q]]
          /\ \A q \in Requests :
                req'[q] = IF q = r THEN [req[r] EXCEPT !.pc = "urn", !.user = None] ELSE req[q]
      BY <2>4 DEF TypeOK
    <3>3. \A q \in Requests : LocalsFit(req'[q])
      BY <3>1, <3>2, TypeOKParts
    <3>4. req' \in [Requests -> Locals]
      BY <3>2, <3>3 DEF LocalsFit
    <3> QED
      BY <1>1, <1>3, <2>2, <3>3, <3>4 DEF CreateVirtualThirdParty
  <2> QED
    BY <1>3, <2>3, <2>4 DEF CreateVirtualThirdParty
<1>4. CASE CheckNewURN(r)
  <2>1. TablesFit'
    BY <1>2, <1>4 DEF CheckNewURN, TablesFit, tables
  <2> QED
    BY <1>1, <1>4, <2>1, AnswerFits, GotoFits DEF CheckNewURN
<1>5. CASE WriteCollection(r)
  <2>1. req[r].row \in CollectionRows
    BY <1>2, <1>5 DEF WriteCollection, at, LocalsFit
  <2>2. TablesFit'
    BY <1>2, <1>5, <2>1 DEF WriteCollection, TablesFit
  <2> QED
    BY <1>1, <1>5, <2>2, AnswerFits DEF WriteCollection
<1>6. ASSUME NEW gone, DeleteItems(gone), UNCHANGED graph PROVE TablesFit'
  BY <1>2, <1>6 DEF DeleteItems, TablesFit
<1>7. ASSUME NEW c \in Collections, DeleteCollection(c), UNCHANGED graph PROVE TablesFit'
  BY <1>2, <1>7 DEF DeleteCollection, TablesFit, trigger
<1>8. CASE Drop(r)
  <2>1. PICK what \in req[r].todo :
          /\ IF req[r].todo = {what} THEN answer(r)
             ELSE req' = [req EXCEPT ![r].todo = @ \ {what}]
          /\ \/ what = "collection" /\ DeleteCollection(req[r].id) /\ UNCHANGED faults
             \/ what = "items" /\ DeleteItems(itemsIn(req[r].id)) /\ UNCHANGED faults
             \/ UNCHANGED tables /\ fault
    BY <1>8 DEF Drop
  <2>2. req[r].id \in Collections /\ UNCHANGED graph
    BY <1>2, <1>8 DEF Drop, at, LocalsFit
  <2>3. TablesFit' /\ (fault \/ UNCHANGED faults)
    <3>1. CASE UNCHANGED tables /\ fault
      BY <1>2, <2>2, <3>1 DEF TablesFit, tables
    <3> QED
      BY <1>6, <1>7, <2>1, <2>2, <3>1
  <2>4. CASE answer(r)
    BY <1>1, <2>3, <2>4, AnswerFits
  <2>5. CASE req' = [req EXCEPT ![r].todo = @ \ {what}]
    <3>1. LocalsFit([req[r] EXCEPT !.todo = req[r].todo \ {what}])
      BY <1>2 DEF LocalsFit, Locals
    <3>2. req' = [q \in Requests |-> req'[q]]
          /\ \A q \in Requests :
                req'[q] = IF q = r THEN [req[r] EXCEPT !.todo = req[r].todo \ {what}] ELSE req[q]
      BY <2>5 DEF TypeOK
    <3>3. \A q \in Requests : LocalsFit(req'[q])
      BY <3>1, <3>2, TypeOKParts
    <3>4. req' \in [Requests -> Locals]
      BY <3>2, <3>3 DEF LocalsFit
    <3> QED
      BY <1>1, <2>3, <3>3, <3>4
  <2> QED
    BY <2>1, <2>4, <2>5
<1>9. CASE WriteItem(r)
  <2>1. req[r].row \in ItemRows
    BY <1>2, <1>9 DEF WriteItem, at, LocalsFit
  <2>2. req[r].row # None
    BY <2>1, RegistryAssumption
  <2>3. TablesFit'
    BY <1>2, <1>9, <2>1, <2>2 DEF WriteItem, TablesFit
  <2> QED
    BY <1>1, <1>9, <2>3, AnswerFits DEF WriteItem
<1>10. CASE RemoveItem(r)
  BY <1>1, <1>6, <1>10, AnswerFits DEF RemoveItem
<1>11. CASE CreateItemCuration(r)
  <2>1. req[r].id \in Items
    BY <1>2, <1>11 DEF CreateItemCuration, at, LocalsFit
  <2>2. TablesFit'
    BY <1>2, <1>11, <2>1 DEF CreateItemCuration, TablesFit
  <2> QED
    BY <1>1, <1>11, <2>2, AnswerFits DEF CreateItemCuration
<1>12. CASE RemoveVirtualThirdParty(r)
  <2>1. TablesFit'
    BY <1>2, <1>12 DEF RemoveVirtualThirdParty, TablesFit
  <2> QED
    BY <1>1, <1>12, <2>1, AnswerFits DEF RemoveVirtualThirdParty
<1>13. CASE FailStatement(r)
  <2>1. TablesFit'
    BY <1>2, <1>13 DEF FailStatement, TablesFit, tables
  <2> QED
    BY <1>1, <1>13, <2>1, AnswerFits DEF FailStatement
<1> QED
  BY <1>3, <1>4, <1>5, <1>8, <1>9, <1>10, <1>11, <1>12, <1>13 DEF Step

\* Tables and locals keep their types, and curations their items, however
\* requests overlap and whatever fails.
THEOREM RegistryTypeCorrect == Spec => []TypeOK
<1>1. Init => TypeOK
  <2> SUFFICES ASSUME Init PROVE TypeOK
    OBVIOUS
  <2>1. TablesFit /\ faults \in 0..MaxFaults
    BY RegistryAssumption DEF Init, TablesFit
  <2>2. LocalsFit(Idle)
    BY IdleIsLocal DEF LocalsFit, Idle
  <2>3. req \in [Requests -> Locals] /\ \A r \in Requests : LocalsFit(req[r])
    BY <2>2, IdleIsLocal DEF Init
  <2> QED
    BY <2>1, <2>3, TypeOKParts
<1>2. TypeOK /\ [Next]_vars => TypeOK'
  <2> SUFFICES ASSUME TypeOK, [Next]_vars PROVE TypeOK'
    OBVIOUS
  <2>1. ASSUME NEW t \in ThirdParties, NEW user \in Users, Register(t, user) PROVE TypeOK'
    BY <2>1 DEF TypeOK, Register, tables
  <2>2. CASE UNCHANGED vars
    BY <2>2 DEF TypeOK, vars
  <2> QED
    BY <2>1, <2>2, StartKeepsTypes, StepKeepsTypes DEF Next
<1> QED
  BY <1>1, <1>2, PTL DEF Spec

\* A table is a function, and no two of its rows are equal.
HasUniqueRows(table, Ids) ==
    /\ table = [id \in Ids |-> table[id]]
    /\ \A a, b \in Ids : a # b /\ table[a] # None => table[a] # table[b]

\* What holds between any two statements of any requests: the unique
\* constraints of collections and of items.
RowsAreUnique ==
    HasUniqueRows(collections, Collections) /\ HasUniqueRows(items, Items)

\* An upsert that an unique constraint guards keeps the rows unique, whichever
\* row it writes.
LEMMA UpsertKeepsRowsUnique ==
    ASSUME NEW table, NEW Ids, NEW id, NEW row, HasUniqueRows(table, Ids)
    PROVE  HasUniqueRows(IF fits(table, id, row) THEN [table EXCEPT ![id] = row] ELSE table,
                         Ids)
<1>1. CASE ~fits(table, id, row)
  BY <1>1
<1>2. CASE fits(table, id, row)
  <2> DEFINE new == [table EXCEPT ![id] = row]
  <2>1. DOMAIN table = Ids /\ DOMAIN new = Ids
    BY DEF HasUniqueRows
  <2>2. new = [a \in Ids |-> new[a]]
    BY <2>1
  <2>3. \A a \in Ids : new[a] = IF a = id THEN row ELSE table[a]
    BY <2>1
  <2>4. \A a \in Ids \ {id} : table[a] # row
    BY <1>2, <2>1 DEF fits
  <2>5. ASSUME NEW a \in Ids, NEW b \in Ids, a # b, new[a] # None
        PROVE  new[a] # new[b]
    BY <2>3, <2>4, <2>5 DEF HasUniqueRows
  <2> QED
    BY <1>2, <2>2, <2>5 DEF HasUniqueRows
<1> QED
  BY <1>1, <1>2

\* Deleting rows keeps the others unique.
LEMMA DeleteKeepsRowsUnique ==
    ASSUME NEW table, NEW Ids, NEW gone, HasUniqueRows(table, Ids)
    PROVE  HasUniqueRows([id \in Ids |-> IF id \in gone THEN None ELSE table[id]], Ids)
BY DEF HasUniqueRows

\* A delete of one row is a delete of the rows of one id.
LEMMA DeleteOneKeepsRowsUnique ==
    ASSUME NEW table, NEW Ids, NEW id, HasUniqueRows(table, Ids)
    PROVE  HasUniqueRows([table EXCEPT ![id] = None], Ids)
<1>1. DOMAIN table = Ids
  BY DEF HasUniqueRows
<1> DEFINE new == [table EXCEPT ![id] = None]
<1>2. new = [a \in Ids |-> new[a]]
  BY <1>1
<1>3. \A a \in Ids : new[a] = IF a = id THEN None ELSE table[a]
  BY <1>1
<1> HIDE DEF new
<1>4. HasUniqueRows(new, Ids)
  BY <1>2, <1>3 DEF HasUniqueRows
<1> QED
  BY <1>4 DEF new

\* The rows that identify collections and items stay unique: uniqueness is kept
\* by each statement on its own, and so does not depend on what was read.
THEOREM RowsInvariant == Spec => []RowsAreUnique
<1>1. Init => RowsAreUnique
  BY DEF Init, RowsAreUnique, HasUniqueRows
<1>2. RowsAreUnique /\ [Next]_vars => RowsAreUnique'
  <2> SUFFICES ASSUME RowsAreUnique, [Next]_vars PROVE RowsAreUnique'
    OBVIOUS
  <2> USE DEF RowsAreUnique
  <2>1. ASSUME UNCHANGED <<collections, items>> PROVE RowsAreUnique'
    BY <2>1 DEF HasUniqueRows
  <2>2. ASSUME NEW r \in Requests, Start(r) PROVE RowsAreUnique'
    <3>1. UNCHANGED <<collections, items>>
      BY <2>2 DEF Start, StartUpdate, StartInsert, StartDrop, StartPut, StartRemove,
                  StartPublish, StartForget, start, tables
    <3> QED
      BY <2>1, <3>1
  <2>3. ASSUME NEW r \in Requests, WriteCollection(r) PROVE RowsAreUnique'
    <3>1. HasUniqueRows(collections', Collections)
      BY <2>3, UpsertKeepsRowsUnique DEF WriteCollection
    <3>2. items' = items
      BY <2>3 DEF WriteCollection
    <3> QED
      BY <3>1, <3>2 DEF HasUniqueRows
  <2>4. ASSUME NEW r \in Requests, WriteItem(r) PROVE RowsAreUnique'
    <3>1. HasUniqueRows(items', Items)
      BY <2>4, UpsertKeepsRowsUnique DEF WriteItem
    <3>2. collections' = collections
      BY <2>4 DEF WriteItem
    <3> QED
      BY <3>1, <3>2 DEF HasUniqueRows
  <2>5. ASSUME NEW gone, DeleteItems(gone) PROVE RowsAreUnique'
    <3>1. HasUniqueRows(items', Items)
      BY <2>5, DeleteKeepsRowsUnique DEF DeleteItems
    <3>2. collections' = collections
      BY <2>5 DEF DeleteItems
    <3> QED
      BY <3>1, <3>2 DEF HasUniqueRows
  <2>6. ASSUME NEW c, DeleteCollection(c) PROVE RowsAreUnique'
    <3>1. HasUniqueRows(collections', Collections)
      BY <2>6, DeleteOneKeepsRowsUnique DEF DeleteCollection
    <3>2. items' = items
      BY <2>6 DEF DeleteCollection
    <3> QED
      BY <3>1, <3>2 DEF HasUniqueRows
  <2>7. ASSUME NEW r \in Requests, Step(r) PROVE RowsAreUnique'
    <3>1. CASE CreateVirtualThirdParty(r)
      BY <3>1, <2>1 DEF CreateVirtualThirdParty
    <3>2. CASE CheckNewURN(r)
      BY <3>2, <2>1 DEF CheckNewURN, tables
    <3>3. CASE WriteCollection(r)
      BY <3>3, <2>3
    <3>4. CASE Drop(r)
      BY <3>4, <2>1, <2>5, <2>6 DEF Drop, tables
    <3>5. CASE WriteItem(r)
      BY <3>5, <2>4
    <3>6. CASE RemoveItem(r)
      BY <3>6, <2>5 DEF RemoveItem
    <3>7. CASE CreateItemCuration(r)
      BY <3>7, <2>1 DEF CreateItemCuration
    <3>8. CASE RemoveVirtualThirdParty(r)
      BY <3>8, <2>1 DEF RemoveVirtualThirdParty
    <3>9. CASE FailStatement(r)
      BY <3>9, <2>1 DEF FailStatement, tables
    <3> QED
      BY <2>7, <3>1, <3>2, <3>3, <3>4, <3>5, <3>6, <3>7, <3>8, <3>9 DEF Step
  <2>8. ASSUME NEW t \in ThirdParties, NEW user \in Users, Register(t, user)
        PROVE  RowsAreUnique'
    BY <2>8, <2>1 DEF Register, tables
  <2>9. CASE UNCHANGED vars
    BY <2>9, <2>1 DEF vars
  <2> QED
    BY <2>2, <2>7, <2>8, <2>9 DEF Next
<1> QED
  BY <1>1, <1>2, PTL DEF Spec

\* Unique rows make URNs unique: equal URNs name one collection, and in it one item.
LEMMA UniqueRowsMakeUniqueURNs == TypeOK /\ RowsAreUnique => UrnsAreUnique
<1> SUFFICES ASSUME TypeOK, RowsAreUnique PROVE UrnsAreUnique
  OBVIOUS
<1>1. \A c, d \in Collections :
          c # d /\ collections[c] # None => collections[c] # collections[d]
  BY DEF RowsAreUnique, HasUniqueRows
<1>2. ASSUME NEW i \in Items, NEW j \in Items, i # j, urnOf(i) # None, urnOf(j) = urnOf(i),
             urnOf(j) # None
      PROVE  FALSE
  <2>1. items[i] \in ItemRows /\ items[j] \in ItemRows
    BY <1>2 DEF urnOf, TypeOK
  <2>2. /\ items[i].home \in Collections /\ items[j].home \in Collections
        /\ items[i] = [home |-> items[i].home, suffix |-> items[i].suffix]
        /\ items[j] = [home |-> items[j].home, suffix |-> items[j].suffix]
    BY <2>1 DEF ItemRows
  <2>3. collections[items[i].home] = collections[items[j].home]
        /\ collections[items[i].home] # None /\ items[i].suffix = items[j].suffix
    BY <1>2 DEF urnOf
  <2>4. items[i].home = items[j].home
    BY <1>1, <2>2, <2>3
  <2>5. items[i] = items[j] /\ items[i] # None
    BY <1>2, <2>2, <2>3, <2>4 DEF urnOf
  <2> QED
    BY <1>2, <2>5 DEF RowsAreUnique, HasUniqueRows
<1>3. \A i, j \in Items : i # j /\ urnOf(i) # None => urnOf(i) # urnOf(j)
  BY <1>2
<1> QED
  BY <1>1, <1>3 DEF UrnsAreUnique

\* However requests overlap and fail, no two items and no two collections of the
\* server are known by one URN.
THEOREM URNsIdentify == Spec => []UrnsAreUnique
BY RegistryTypeCorrect, RowsInvariant, UniqueRowsMakeUniqueURNs, PTL

-----------------------------------------------------------------------------
(* A request that nobody disturbs.                                         *)

\* What a save has checked, or found missing, up to where it has come.
SaveHolds(locals) ==
    /\ locals.id \in Collections
    /\ locals.pc # "write" => collections[locals.id] = None
    /\ locals.pc # "create" => managerOf(locals.row.party) # None
    /\ locals.pc = "write" /\ collections[locals.id] \notin {None, locals.row}
          => ~hasPublishedItems(locals.id)

\* What an upsert of an item has checked of the row it will write.
PutHolds(locals) ==
    /\ locals.id \in Items
    /\ items[locals.id] # locals.row =>
           locals.id \notin curated /\ isNew(locals.id, locals.row)

\* The checks of a request, as they would come out now.
ChecksHold(locals) ==
    /\ locals.kind = "save" => SaveHolds(locals)
    /\ locals.kind = "drop" => ~hasPublishedItems(locals.id)
    /\ locals.kind = "put" => PutHolds(locals)
    /\ locals.kind = "remove" => locals.id \notin curated
    /\ locals.kind = "forget" => graph[locals.id] # None

\* Nobody else is served, and so the checks still hold.
LoneHolds ==
    \A r \in Requests : req[r].lone =>
        /\ \A q \in Requests \ {r} : req[q].pc = "idle"
        /\ ChecksHold(req[r])

\* Each request checks what LoneHolds asks of it before it goes on to its writes.
LEMMA StartChecks ==
    ASSUME TypeOK, NEW r \in Requests, Start(r)
    PROVE  \E locals : LocalsFit(locals) /\ ChecksHold(locals) /\ start(r, locals)
<1>1. PICK user \in Users :
        \/ \E c \in Collections, row \in CollectionRows :
              StartUpdate(r, user, c, row) \/ StartInsert(r, user, c, row)
        \/ \E c \in Collections : StartDrop(r, user, c)
        \/ \E i \in Items, row \in ItemRows : StartPut(r, user, i, row)
        \/ \E i \in Items : StartRemove(r, user, i) \/ StartPublish(r, user, i)
        \/ \E t \in ThirdParties : StartForget(r, user, t)
  BY RegistryAssumption DEF Start
<1>2. ASSUME NEW c \in Collections, NEW row \in CollectionRows, StartUpdate(r, user, c, row)
      PROVE  \E locals : LocalsFit(locals) /\ ChecksHold(locals) /\ start(r, locals)
  <2> DEFINE locals == [ask("save", "write", c) EXCEPT !.row = row]
  <2>1. ChecksHold(locals)
    BY <1>2, RegistryAssumption
       DEF ask, Idle, ChecksHold, SaveHolds, StartUpdate, mayUpdate, isManager
  <2> QED
    BY <1>2, <2>1, AskFits DEF StartUpdate
<1>3. ASSUME NEW c \in Collections, NEW row \in CollectionRows, StartInsert(r, user, c, row)
      PROVE  \E locals : LocalsFit(locals) /\ ChecksHold(locals) /\ start(r, locals)
  <2>1. CASE /\ isManager(row.party, user)
             /\ start(r, [ask("save", "urn", c) EXCEPT !.row = row])
    <3> DEFINE locals == [ask("save", "urn", c) EXCEPT !.row = row]
    <3>1. ChecksHold(locals)
      BY <1>3, <2>1, RegistryAssumption
         DEF ask, Idle, ChecksHold, SaveHolds, StartInsert, isManager
    <3> QED
      BY <2>1, <3>1, AskFits
  <2>2. CASE start(r, [ask("save", "create", c) EXCEPT !.row = row, !.user = user])
    <3> DEFINE locals == [ask("save", "create", c) EXCEPT !.row = row, !.user = user]
    <3>1. ChecksHold(locals)
      BY <1>3 DEF ask, Idle, ChecksHold, SaveHolds, StartInsert
    <3> QED
      BY <2>2, <3>1, AskFits
  <2> QED
    BY <1>3, <2>1, <2>2 DEF StartInsert
<1>4. ASSUME NEW c \in Collections, StartDrop(r, user, c)
      PROVE  \E locals : LocalsFit(locals) /\ ChecksHold(locals) /\ start(r, locals)
  <2> DEFINE locals == [ask("drop", "delete", c) EXCEPT !.todo = {"collection", "items"}]
  <2>1. ChecksHold(locals)
    BY <1>4 DEF ask, Idle, ChecksHold, StartDrop
  <2> QED
    BY <1>4, <2>1, AskFits DEF StartDrop
<1>5. ASSUME NEW i \in Items, NEW row \in ItemRows, StartPut(r, user, i, row)
      PROVE  \E locals : LocalsFit(locals) /\ ChecksHold(locals) /\ start(r, locals)
  <2> DEFINE locals == [ask("put", "write", i) EXCEPT !.row = row]
  <2>1. items[i] # row => i \notin curated /\ isNew(i, row)
    BY <1>5 DEF StartPut, mayReplace, TypeOK
  <2>2. ChecksHold(locals)
    BY <2>1 DEF ask, Idle, ChecksHold, PutHolds
  <2> QED
    BY <1>5, <2>2, AskFits DEF StartPut
<1>6. ASSUME NEW i \in Items, StartRemove(r, user, i)
      PROVE  \E locals : LocalsFit(locals) /\ ChecksHold(locals) /\ start(r, locals)
  <2>1. ChecksHold(ask("remove", "write", i))
    BY <1>6 DEF ask, Idle, ChecksHold, StartRemove
  <2> QED
    BY <1>6, <2>1, AskFits DEF StartRemove
<1>7. ASSUME NEW i \in Items, StartPublish(r, user, i)
      PROVE  \E locals : LocalsFit(locals) /\ ChecksHold(locals) /\ start(r, locals)
  <2>1. ChecksHold(ask("publish", "write", i))
    BY DEF ask, Idle, ChecksHold
  <2> QED
    BY <1>7, <2>1, AskFits DEF StartPublish
<1>8. ASSUME NEW t \in ThirdParties, StartForget(r, user, t)
      PROVE  \E locals : LocalsFit(locals) /\ ChecksHold(locals) /\ start(r, locals)
  <2>1. ChecksHold(ask("forget", "write", t))
    BY <1>8 DEF ask, Idle, ChecksHold, StartForget, mayForget
  <2> QED
    BY <1>8, <2>1, AskFits DEF StartForget
<1> QED
  BY <1>1, <1>2, <1>3, <1>4, <1>5, <1>6, <1>7, <1>8

\* Whether somebody is alone does not change what he has checked.
LEMMA LoneIsNoCheck ==
    ASSUME NEW locals \in Locals, NEW flag
    PROVE  LET after == [locals EXCEPT !.lone = flag]
           IN  /\ after.lone = flag /\ after.pc = locals.pc
               /\ ChecksHold(locals) => ChecksHold(after)
<1> DEFINE after == [locals EXCEPT !.lone = flag]
<1>1. /\ after.lone = flag /\ after.pc = locals.pc /\ after.kind = locals.kind
      /\ after.id = locals.id /\ after.row = locals.row
  BY DEF Locals
<1> HIDE DEF after
<1>2. ChecksHold(locals) => ChecksHold(after)
  BY <1>1 DEF ChecksHold, SaveHolds, PutHolds
<1> QED
  BY <1>1, <1>2 DEF after

\* A request that starts leaves the others disturbed, and itself if it is not alone.
LEMMA StartIsLone ==
    ASSUME TypeOK, NEW r \in Requests, Start(r)
    PROVE  LoneHolds' /\ UNCHANGED <<tables, graph>>
<1>1. PICK locals : LocalsFit(locals) /\ ChecksHold(locals) /\ start(r, locals)
  BY StartChecks
<1>2. UNCHANGED <<tables, graph>>
  BY <1>1 DEF start
<1>3. \A q \in Requests :
          req'[q] = IF q = r THEN [locals EXCEPT !.lone = inFlight = {}]
                    ELSE [req[q] EXCEPT !.lone = FALSE]
  BY <1>1 DEF start
<1>4. \A q \in Requests \ {r} : ~req'[q].lone /\ req'[q].pc = req[q].pc
  <2> TAKE q \in Requests \ {r}
  <2>1. req'[q] = [req[q] EXCEPT !.lone = FALSE] /\ req[q] \in Locals
    BY <1>3 DEF TypeOK
  <2>2. [req[q] EXCEPT !.lone = FALSE].lone = FALSE
        /\ [req[q] EXCEPT !.lone = FALSE].pc = req[q].pc
    BY <2>1, LoneIsNoCheck
  <2> QED
    BY <2>1, <2>2, Zenon
<1>5. (req'[r].lone => inFlight = {}) /\ ChecksHold(req'[r])
  <2>1. req'[r] = [locals EXCEPT !.lone = inFlight = {}] /\ locals \in Locals
    BY <1>1, <1>3 DEF LocalsFit
  <2>2. [locals EXCEPT !.lone = inFlight = {}].lone = (inFlight = {})
        /\ ChecksHold([locals EXCEPT !.lone = inFlight = {}])
    BY <1>1, <2>1, LoneIsNoCheck
  <2> QED
    BY <2>1, <2>2, Zenon
<1>6. ASSUME req'[r].lone PROVE \A q \in Requests \ {r} : req'[q].pc = "idle"
  BY <1>4, <1>5, <1>6 DEF inFlight
<1>7. ChecksHold(req[r])'
  BY <1>2, <1>5
     DEF tables, ChecksHold, SaveHolds, PutHolds, hasPublishedItems, itemsIn, isNew,
         isItemURNRepeated, partyOf, managerOf
<1> QED
  BY <1>2, <1>4, <1>6, <1>7 DEF LoneHolds

\* A statement leaves the locals of the others as they are, is of a request that
\* is served, and makes nobody alone.
LEMMA StepOwn ==
    ASSUME TypeOK, NEW r \in Requests, Step(r)
    PROVE  /\ \A q \in Requests \ {r} : req'[q] = req[q]
           /\ req[r].pc # "idle"
           /\ req'[r].lone => req[r].lone
<1>1. /\ \A q \in Requests \ {r} : req'[q] = req[q]
      /\ req[r].pc # "idle"
  BY DEF TypeOK, Step, CreateVirtualThirdParty, CheckNewURN, WriteCollection, Drop, WriteItem,
         RemoveItem, CreateItemCuration, RemoveVirtualThirdParty, FailStatement, answer, goto,
         at
<1>2. \/ req'[r] = Idle
      \/ req'[r].lone = req[r].lone
  BY DEF TypeOK, Locals, Step, CreateVirtualThirdParty, CheckNewURN, WriteCollection, Drop,
         WriteItem, RemoveItem, CreateItemCuration, RemoveVirtualThirdParty, FailStatement,
         answer, goto
<1>3. ~Idle.lone
  BY DEF Idle
<1> QED
  BY <1>1, <1>2, <1>3

\* What a lone request has checked holds until its next statement.
LEMMA StepIsLone ==
    ASSUME TypeOK, NEW r \in Requests, ChecksHold(req[r]), Step(r), req'[r].lone
    PROVE  ChecksHold(req[r])'
<1>1. req'[r] # Idle
  BY DEF Idle
<1>2. req[r] \in Locals /\ LocalsFit(req[r])
  BY TypeOKParts DEF TypeOK
<1>3. ~answer(r)
  BY <1>1 DEF answer, TypeOK
<1>4. CASE CreateVirtualThirdParty(r)
  <2>1. /\ req' = [req EXCEPT ![r].pc = "urn", ![r].user = None]
        /\ virtual' = [virtual EXCEPT ![req[r].row.party] = req[r].user]
        /\ req[r].kind = "save" /\ req[r].pc = "create"
        /\ UNCHANGED <<collections, graph>>
    BY <1>3, <1>4 DEF CreateVirtualThirdParty, at
  <2>2. /\ req'[r].kind = "save" /\ req'[r].pc = "urn"
        /\ req'[r].row = req[r].row /\ req'[r].id = req[r].id
    BY <2>1 DEF TypeOK, Locals
  <2>3. req[r].user # None /\ req[r].row.party \in ThirdParties
    BY <1>2, <2>1, RegistryAssumption DEF LocalsFit, CollectionRows
  <2>4. virtual'[req[r].row.party] # None
    BY <2>1, <2>3 DEF TypeOK
  <2>5. managerOf(req[r].row.party)' # None
    BY <2>1, <2>2, <2>4 DEF managerOf
  <2> QED
    BY <2>1, <2>2, <2>5 DEF ChecksHold, SaveHolds
<1>5. CASE CheckNewURN(r)
  <2>1. /\ req' = [req EXCEPT ![r].pc = "write"]
        /\ req[r].kind = "save" /\ req[r].pc = "urn"
        /\ UNCHANGED <<tables, graph>>
    BY <1>3, <1>5 DEF CheckNewURN, at, goto
  <2>2. /\ req'[r].kind = "save" /\ req'[r].pc = "write"
        /\ req'[r].row = req[r].row /\ req'[r].id = req[r].id
    BY <2>1 DEF TypeOK, Locals
  <2> QED
    BY <2>1, <2>2 DEF ChecksHold, SaveHolds, managerOf, tables
<1>6. CASE Drop(r)
  <2>1. PICK what : req' = [req EXCEPT ![r].todo = @ \ {what}]
    BY <1>3, <1>6 DEF Drop
  <2>2. req[r].kind = "drop" /\ req'[r].kind = "drop" /\ req'[r].id = req[r].id
    BY <1>6, <2>1 DEF Drop, at, TypeOK, Locals
  <2>3. /\ curated' \subseteq curated
        /\ \A i \in Items : items'[i] = items[i] \/ items'[i] = None
    BY <1>6 DEF Drop, DeleteCollection, DeleteItems, tables
  <2>4. itemsIn(req[r].id)' \subseteq itemsIn(req[r].id)
    BY <2>2, <2>3 DEF itemsIn
  <2> QED
    BY <2>2, <2>3, <2>4 DEF ChecksHold, hasPublishedItems
<1> QED
  BY <1>3, <1>4, <1>5, <1>6 DEF Step, WriteCollection, WriteItem, RemoveItem,
                                CreateItemCuration, RemoveVirtualThirdParty, FailStatement

\* A third party that is registered gets a manager, and none is ever taken off
\* the graph.
LEMMA RegisterIsLone ==
    ASSUME LoneHolds, NEW t \in ThirdParties, NEW user \in Users, Register(t, user), TypeOK
    PROVE  LoneHolds'
<1>1. UNCHANGED <<tables, req>> /\ \A s : graph[s] # None => graph'[s] # None
  BY RegistryAssumption DEF Register, TypeOK
<1>2. \A s : managerOf(s) # None => managerOf(s)' # None
  BY <1>1 DEF managerOf, tables
<1>3. ASSUME NEW locals, ChecksHold(locals) PROVE ChecksHold(locals)'
  BY <1>1, <1>2, <1>3
     DEF tables, ChecksHold, SaveHolds, PutHolds, hasPublishedItems, itemsIn, isNew,
         isItemURNRepeated, partyOf
<1> QED
  BY <1>1, <1>3 DEF LoneHolds

\* What the checks of a request that nobody disturbs have found still holds when
\* its statements come.
THEOREM ChecksStayTrue == Spec => []LoneHolds
<1>1. Init => LoneHolds
  BY DEF Init, LoneHolds, Idle
<1>2. TypeOK /\ LoneHolds /\ [Next]_vars => LoneHolds'
  <2> SUFFICES ASSUME TypeOK, LoneHolds, [Next]_vars PROVE LoneHolds'
    OBVIOUS
  <2>1. ASSUME NEW r \in Requests, Step(r) PROVE LoneHolds'
    <3>1. \A q \in Requests \ {r} : ~req'[q].lone
      BY <2>1, StepOwn DEF LoneHolds
    <3>2. ASSUME req'[r].lone
          PROVE  (\A q \in Requests \ {r} : req'[q].pc = "idle") /\ ChecksHold(req[r])'
      BY <2>1, <3>2, StepOwn, StepIsLone DEF LoneHolds
    <3> QED
      BY <3>1, <3>2 DEF LoneHolds
  <2>2. CASE UNCHANGED vars
    BY <2>2 DEF vars, LoneHolds, ChecksHold, SaveHolds, PutHolds, hasPublishedItems, itemsIn,
                isNew, isItemURNRepeated, partyOf, managerOf
  <2> QED
    BY <2>1, <2>2, StartIsLone, RegisterIsLone DEF Next
<1> QED
  BY <1>1, <1>2, RegistryTypeCorrect, PTL DEF Spec

\* Of what a lone request does only its own statements touch the tables.
LEMMA LoneStepsAreItsOwn ==
    ASSUME TypeOK, LoneHolds, [Next]_vars, NEW r \in Requests, loneStep(r)
    PROVE  UNCHANGED <<tables, graph>> \/ (Step(r) /\ ChecksHold(req[r]))
<1>1. \A q \in Requests \ {r} : ~Step(q)
  BY StepOwn DEF LoneHolds, loneStep
<1>2. ~\E t \in ThirdParties, user \in Users : Register(t, user)
  BY DEF Register, loneStep
<1>3. ~UNCHANGED vars
  BY DEF vars, loneStep
<1> QED
  BY <1>1, <1>2, <1>3, StartIsLone DEF Next, LoneHolds, loneStep

\* An item that is published keeps its URN unless another request is served
\* meanwhile (mayUpdate, deleteCollection, mayReplace, deleteThirdPartyItem).
THEOREM URNsAreKept == Spec => PublishedKeepURN
<1>1. ASSUME TypeOK, LoneHolds, [Next]_vars, NEW r \in Requests, loneStep(r),
             NEW i \in curated, urnOf(i) # None
      PROVE  i \in curated' /\ urnOf(i)' = urnOf(i)
  <2>1. items[i] \in ItemRows /\ items[i] # None /\ i \in Items
    BY <1>1 DEF TypeOK, urnOf
  <2> DEFINE c == items[i].home
  <2>2. collections[c] # None /\ c \in Collections
    BY <1>1, <2>1 DEF urnOf, ItemRows
  <2>3. ASSUME i \in curated', items'[i] = items[i], collections'[c] = collections[c]
        PROVE  i \in curated' /\ urnOf(i)' = urnOf(i)
    BY <2>3 DEF urnOf
  <2>4. CASE UNCHANGED <<tables, graph>>
    BY <2>3, <2>4 DEF tables
  <2>5. CASE Step(r) /\ ChecksHold(req[r])
    <3>1. CASE \/ CreateVirtualThirdParty(r) \/ CheckNewURN(r)
               \/ RemoveVirtualThirdParty(r) \/ FailStatement(r)
      BY <2>3, <3>1
         DEF CreateVirtualThirdParty, CheckNewURN, RemoveVirtualThirdParty, FailStatement,
             tables
    <3>2. CASE CreateItemCuration(r)
      BY <2>3, <3>2 DEF CreateItemCuration
    <3>3. CASE WriteCollection(r)
      <4>1. SaveHolds(req[r]) /\ req[r].pc = "write"
        BY <2>5, <3>3 DEF WriteCollection, at, ChecksHold
      <4>2. c = req[r].id => collections[c] = req[r].row
        BY <1>1, <2>1, <2>2, <4>1 DEF SaveHolds, hasPublishedItems, itemsIn
      <4> QED
        BY <2>2, <2>3, <3>3, <4>2 DEF WriteCollection, TypeOK
    <3>4. CASE Drop(r)
      <4>1. ~hasPublishedItems(req[r].id)
        BY <2>5, <3>4 DEF Drop, at, ChecksHold
      <4>2. c # req[r].id
        BY <1>1, <2>1, <4>1 DEF hasPublishedItems, itemsIn
      <4>3. i \notin itemsIn(req[r].id)
        BY <4>2 DEF itemsIn
      <4>4. /\ i \in curated' /\ items'[i] = items[i]
            /\ collections'[c] = collections[c]
        BY <1>1, <2>1, <2>2, <3>4, <4>2, <4>3
           DEF Drop, DeleteCollection, DeleteItems, tables, TypeOK
      <4> QED
        BY <2>3, <4>4
    <3>5. CASE WriteItem(r)
      <4>1. i = req[r].id => items[i] = req[r].row
        BY <1>1, <2>5, <3>5 DEF WriteItem, at, ChecksHold, PutHolds
      <4> QED
        BY <2>1, <2>3, <3>5, <4>1 DEF WriteItem, TypeOK
    <3>6. CASE RemoveItem(r)
      <4>1. i # req[r].id
        BY <1>1, <2>5, <3>6 DEF RemoveItem, at, ChecksHold
      <4> QED
        BY <2>1, <2>3, <3>6, <4>1 DEF RemoveItem, DeleteItems
    <3> QED
      BY <2>5, <3>1, <3>2, <3>3, <3>4, <3>5, <3>6 DEF Step
  <2> QED
    BY <1>1, <2>4, <2>5, LoneStepsAreItsOwn
<1>2. ASSUME TypeOK, LoneHolds, [Next]_vars
      PROVE  [\A r \in Requests : loneStep(r) =>
                \A i \in curated : urnOf(i) # None => i \in curated' /\ urnOf(i)' = urnOf(i)]_vars
  BY <1>1, <1>2
<1> QED
  BY <1>2, RegistryTypeCorrect, ChecksStayTrue, PTL DEF Spec, PublishedKeepURN

\* An upsert of an item that is not disturbed leaves the suffixes of a third party
\* as much apart as they were, over all of its collections (isItemURNRepeated).
THEOREM SuffixesAreKeptApart == Spec => SuffixesStayApart
<1>1. ASSUME TypeOK, LoneHolds, [Next]_vars, NEW r \in Requests, loneStep(r),
             req[r].kind = "put", NEW j \in ambiguous'
      PROVE  j \in ambiguous
  <2>1. j \in Items /\ urnOf(j)' # None
    BY <1>1 DEF ambiguous
  <2>2. PICK k \in Items \ {j} :
          /\ items'[k] # None /\ items'[k].suffix = items'[j].suffix
          /\ partyOf(items[k].home)' = partyOf(items[j].home)'
    BY <1>1 DEF ambiguous, isItemURNRepeated
  <2>3. CASE UNCHANGED <<collections, items>>
    BY <2>1, <2>2, <2>3 DEF ambiguous, isItemURNRepeated, urnOf, partyOf
  <2>4. ASSUME WriteItem(r), ChecksHold(req[r]), ~UNCHANGED <<collections, items>>
        PROVE  j \in ambiguous
    <3> DEFINE i == req[r].id
               row == req[r].row
    <3>1. UNCHANGED collections /\ items' = [items EXCEPT ![i] = row]
      BY <2>4 DEF WriteItem
    <3>2. i \in Items /\ items' # items
      BY <1>1, <2>4, <3>1 DEF ChecksHold, PutHolds
    <3> HIDE DEF i, row
    <3>0. /\ items = [other \in Items |-> items[other]]
          /\ items' = [other \in Items |-> IF other = i THEN row ELSE items[other]]
      <4>1. items = [other \in Items |-> items[other]]
        BY <1>1 DEF TypeOK
      <4>2. DOMAIN items = Items
        BY <1>1 DEF TypeOK
      <4> QED
        BY <3>1, <4>1, <4>2
    <3>3. items[i] # row
      BY <3>0, <3>2
    <3>4. isNew(i, row)
      BY <1>1, <2>4, <3>3 DEF ChecksHold, PutHolds, i, row
    <3>5. \A other \in Items \ {i} :
              items[other] # None => \/ items[other].suffix # row.suffix
                                     \/ partyOf(items[other].home) # partyOf(row.home)
      BY <3>4 DEF isNew, isItemURNRepeated
    <3>6. items'[i] = row /\ \A other \in Items \ {i} : items'[other] = items[other]
      BY <3>0, <3>2
    <3>7. \A other \in Items : partyOf(items[other].home)' = partyOf(items'[other].home)
      BY <3>1 DEF partyOf
    <3>8. items'[j] # None
      BY <2>1 DEF urnOf
    <3>9. j # i
      <4>1. ASSUME j = i PROVE FALSE
        <5>1. items'[k] = items[k] /\ items'[j] = row
          BY <2>2, <3>6, <4>1
        <5>2. partyOf(items[k].home) = partyOf(row.home)
          BY <2>1, <2>2, <3>7, <5>1
        <5> QED
          BY <2>2, <3>5, <4>1, <5>1, <5>2
      <4> QED
        BY <4>1
    <3>10. k # i
      BY <2>1, <2>2, <3>5, <3>6, <3>7, <3>8, <3>9
    <3>11. items'[j] = items[j] /\ items'[k] = items[k]
      BY <2>1, <2>2, <3>6, <3>9, <3>10
    <3>12. urnOf(j) = urnOf(j)'
      BY <3>1, <3>11 DEF urnOf
    <3>13. isItemURNRepeated(j, partyOf(items[j].home), items[j].suffix)
      BY <2>2, <3>7, <3>11, <2>1 DEF isItemURNRepeated
    <3> QED
      BY <2>1, <3>12, <3>13 DEF ambiguous
  <2>5. Step(r) => WriteItem(r) \/ UNCHANGED <<collections, items>>
    BY <1>1 DEF Step, CreateVirtualThirdParty, CheckNewURN, WriteCollection, Drop, RemoveItem,
                CreateItemCuration, RemoveVirtualThirdParty, FailStatement, tables, at
  <2> QED
    BY <1>1, <2>3, <2>4, <2>5, LoneStepsAreItsOwn DEF tables
<1>2. ASSUME TypeOK, LoneHolds, [Next]_vars
      PROVE  [\A r \in Requests :
                loneStep(r) /\ req[r].kind = "put" => ambiguous' \subseteq ambiguous]_vars
  BY <1>1, <1>2
<1> QED
  BY <1>2, RegistryTypeCorrect, ChecksStayTrue, PTL DEF Spec, SuffixesStayApart

\* A collection has somebody who manages it and finds it among his own exactly if
\* its third party has a manager: the one who is asked for is the one it is listed
\* for, though the graph is only asked first in one of the two.
LEMMA StrandedMeans ==
    TypeOK => stranded = {c \in Collections : /\ collections[c] # None
                                              /\ managerOf(partyOf(c)) = None}
<1> SUFFICES ASSUME TypeOK, NEW c \in Collections, collections[c] # None
             PROVE  managerOf(partyOf(c)) = None
                    <=> ~\E user \in Users : /\ managesCollection(c, user)
                                             /\ c \in getDbTPCollectionsByManager(user)
  BY DEF stranded
<1> DEFINE t == partyOf(c)
<1>1. t \in ThirdParties
  BY DEF TypeOK, partyOf, CollectionRows
<1>2. ASSUME NEW user \in Users, managesCollection(c, user) PROVE managerOf(t) # None
  BY <1>2, RegistryAssumption DEF managesCollection, isManager
<1>3. ASSUME managerOf(t) # None
      PROVE  \E user \in Users : /\ managesCollection(c, user)
                                 /\ c \in getDbTPCollectionsByManager(user)
  <2>1. managerOf(t) \in Users
    BY <1>1, <1>3 DEF managerOf, TypeOK
  <2>2. graph[t] = managerOf(t) \/ virtual[t] = managerOf(t)
    BY DEF managerOf
  <2>3. t \in getThirdParties(managerOf(t))
    BY <1>1, <2>2 DEF getThirdParties, fetchThirdPartiesByManager,
                      getVirtualThirdPartiesByManager
  <2>4. c \in getDbTPCollectionsByManager(managerOf(t))
    BY <2>3 DEF getDbTPCollectionsByManager
  <2> QED
    BY <2>1, <2>4 DEF managesCollection, isManager
<1> QED
  BY <1>2, <1>3

\* A lone request leaves every stored collection the manager it had, and gives the
\* one it stores a manager.
LEMMA LoneStepKeepsManagers ==
    ASSUME TypeOK, NEW r \in Requests, Step(r), ChecksHold(req[r]),
           NEW c \in Collections, collections'[c] # None, managerOf(partyOf(c))' = None
    PROVE  collections[c] # None /\ managerOf(partyOf(c)) = None
<1>1. ASSUME collections'[c] = collections[c],
             managerOf(partyOf(c)) # None => managerOf(partyOf(c))' # None
      PROVE  collections[c] # None /\ managerOf(partyOf(c)) = None
  BY <1>1
<1>2. collections[c] # None => partyOf(c) \in ThirdParties
  BY DEF TypeOK, partyOf, CollectionRows
<1>3. CASE CreateVirtualThirdParty(r)
  <2>1. req[r].row.party \in ThirdParties /\ req[r].user # None
    BY <1>3, TypeOKParts, RegistryAssumption
       DEF CreateVirtualThirdParty, at, LocalsFit, CollectionRows
  <2>2. \A t \in ThirdParties : virtual[t] # None => virtual'[t] # None
    BY <1>3, <2>1 DEF CreateVirtualThirdParty, TypeOK
  <2> QED
    BY <1>1, <1>2, <1>3, <2>2 DEF CreateVirtualThirdParty, managerOf, partyOf
<1>4. CASE \/ CheckNewURN(r) \/ WriteItem(r) \/ RemoveItem(r) \/ CreateItemCuration(r)
           \/ FailStatement(r)
  BY <1>1, <1>4 DEF CheckNewURN, WriteItem, RemoveItem, CreateItemCuration, DeleteItems,
                    FailStatement, tables, managerOf, partyOf
<1>5. CASE WriteCollection(r)
  <2>1. managerOf(req[r].row.party) # None /\ UNCHANGED <<virtual, graph>>
    BY <1>5 DEF WriteCollection, at, ChecksHold, SaveHolds
  <2>2. collections'[c] = collections[c] \/ collections'[c] = req[r].row
    BY <1>5 DEF WriteCollection, TypeOK
  <2>3. collections'[c] # req[r].row
    BY <2>1 DEF managerOf, partyOf
  <2> QED
    BY <1>1, <2>1, <2>2, <2>3 DEF managerOf, partyOf
<1>6. CASE Drop(r)
  <2>1. UNCHANGED graph /\ (UNCHANGED <<collections, virtual>> \/ DeleteCollection(req[r].id))
    BY <1>6 DEF Drop, DeleteItems, tables
  <2>2. CASE UNCHANGED <<collections, virtual>>
    BY <1>1, <2>1, <2>2 DEF managerOf, partyOf
  <2>3. CASE DeleteCollection(req[r].id)
    <3>1. c # req[r].id /\ collections'[c] = collections[c]
      BY <2>3 DEF DeleteCollection, TypeOK
    <3>2. \/ virtual' = virtual
          \/ /\ partyOf(c) # partyOf(req[r].id)
             /\ virtual' = [virtual EXCEPT ![partyOf(req[r].id)] = None]
      BY <2>3, <3>1 DEF DeleteCollection, trigger
    <3>3. virtual'[partyOf(c)] = virtual[partyOf(c)]
      BY <1>2, <3>1, <3>2 DEF TypeOK
    <3> QED
      BY <1>1, <2>1, <3>1, <3>3 DEF managerOf, partyOf
  <2> QED
    BY <2>1, <2>2, <2>3
<1>7. CASE RemoveVirtualThirdParty(r)
  <2>1. graph[req[r].id] # None /\ UNCHANGED <<collections, graph>>
    BY <1>7 DEF RemoveVirtualThirdParty, at, ChecksHold
  <2>2. partyOf(c) = req[r].id \/ virtual'[partyOf(c)] = virtual[partyOf(c)]
    BY <1>2, <1>7, <2>1 DEF RemoveVirtualThirdParty, TypeOK
  <2> QED
    BY <1>1, <2>1, <2>2 DEF managerOf, partyOf
<1> QED
  BY <1>3, <1>4, <1>5, <1>6, <1>7 DEF Step

\* No request that nobody disturbs leaves a collection without a manager who finds
\* it: the virtual third party goes with its last collection or once the graph has
\* it (delete_virtual_third_party_trigger, removeVirtualThirdParty).
THEOREM ManagersAreKept == Spec => CollectionsKeepManagers
<1>1. ASSUME TypeOK, TypeOK', LoneHolds, [Next]_vars, NEW r \in Requests, loneStep(r),
             stranded = {c \in Collections : /\ collections[c] # None
                                             /\ managerOf(partyOf(c)) = None},
             stranded' = {c \in Collections : /\ collections[c] # None
                                              /\ managerOf(partyOf(c)) = None}'
      PROVE  stranded' \subseteq stranded
  <2>1. CASE UNCHANGED <<tables, graph>>
    BY <1>1, <2>1 DEF tables, managerOf, partyOf
  <2>2. CASE Step(r) /\ ChecksHold(req[r])
    BY <1>1, <2>2, LoneStepKeepsManagers
  <2> QED
    BY <1>1, <2>1, <2>2, LoneStepsAreItsOwn
<1>2. (TypeOK => stranded = {c \in Collections : /\ collections[c] # None
                                                 /\ managerOf(partyOf(c)) = None})'
  BY StrandedMeans, PTL
<1>3. ASSUME TypeOK, TypeOK', LoneHolds, [Next]_vars
      PROVE  [\A r \in Requests : loneStep(r) => stranded' \subseteq stranded]_vars
  BY <1>1, <1>2, <1>3, StrandedMeans
<1> QED
  BY <1>3, RegistryTypeCorrect, ChecksStayTrue, PTL DEF Spec, CollectionsKeepManagers

=============================================================================
