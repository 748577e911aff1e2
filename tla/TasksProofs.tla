---------------------------- MODULE TasksProofs -----------------------------
(***************************************************************************)
(* Proofs about Tasks, for any number of tasks, folders, requests in       *)
(* flight and changes.                                                     *)
(***************************************************************************)
EXTENDS Tasks, WellFoundedInduction, TLAPS

\* A set of numbers that is not empty has a least one: the free slot that a new
\* request takes.
LEMMA Least == ASSUME NEW S \in SUBSET Nat, S # {} PROVE \E n \in S : \A m \in S : n <= m
<1> DEFINE R == {ss \in Nat \X Nat : ss[1] < ss[2]}
<1>1. OpToRel(<, Nat) = R
  BY DEF OpToRel
<1>2. IsWellFoundedOn(R, Nat)
  BY <1>1, NatLessThanWellFounded
<1>3. PICK n \in S : \A m \in S : <<m, n>> \notin R
  <2> HIDE DEF R
  <2> QED BY <1>2, WFMin
<1>4. ASSUME NEW m \in S PROVE n <= m
  <2>1. <<m, n>> \notin R /\ m \in Nat /\ n \in Nat
    BY <1>3
  <2>2. <<m, n>> \in Nat \X Nat
    BY <2>1
  <2>3. <<m, n>>[1] = m /\ <<m, n>>[2] = n
    OBVIOUS
  <2>4. ~ (m < n)
    BY <2>1, <2>2, <2>3
  <2> QED BY <2>1, <2>4
<1> QED BY <1>4

\* What a choice may be after a changes, when the ids in free are not given away.
Chosen(field, a, free) ==
    CASE field = "status" -> Status
      [] field = "folder" -> (Folders \cup {None}) \ free
      [] OTHER -> 0 .. a + 1
RowsAt(a, free) == [title : 0 .. a + 1, desc : 0 .. a + 1, status : Status,
                    folder : (Folders \cup {None}) \ free]
TablesAt(a, free) == UNION {[S -> RowsAt(a, free)] : S \in SUBSET (Tasks \ free)}

\* A cached list, and what its fetch has read.
Fetching == {"idle", "sent", "read"}
ListsAt(a, free) == [data : TablesAt(a, free), answer : TablesAt(a, free),
                     has : BOOLEAN, stale : BOOLEAN, late : BOOLEAN, st : Fetching]
FlistsAt(free) == [data : SUBSET (Folders \ free), answer : SUBSET (Folders \ free),
                   has : BOOLEAN, stale : BOOLEAN, late : BOOLEAN, st : Fetching]

\* A request for a change is about a task and a value that exist or existed.
Req == [op : Ops \cup {"idle"}, id : Tasks \cup Folders \cup {None}, field : Fields,
        value : Texts \cup Status \cup Folders \cup {None},
        st : {"idle", "sent", "done", "error"}, here : BOOLEAN]
Sound(r, a, free) ==
    /\ r.op = "idle" <=> r.st = "idle"
    /\ r.op \in {"update", "describe"} =>
            r.id \in Tasks \ free /\ r.value \in Chosen(r.field, a, free)
    /\ r.op = "describe" => r.field = "desc"
    /\ r.op \notin {"update", "describe"} => r.field = "title" /\ r.value \in 0 .. a + 1

TablesOK ==
    /\ tasks \in TablesAt(acts, ids) /\ chosen \in TablesAt(acts, ids) /\ DOMAIN chosen = Live
    /\ folders \subseteq Folders \ ids /\ ids \subseteq Tasks \cup Folders
    /\ \A t \in Live : tasks[t].folder \in folders \cup {None}
ReqsOK ==
    /\ reqs \in [Slots -> Req]
    /\ \A i \in Slots : Sound(reqs[i], acts, ids)
RowsOK ==
    /\ edit \in [task : (Tasks \cup {None}) \ ids, typed : 0 .. acts + 1, draft : 0 .. acts + 1]
    /\ ed \in [task : (Tasks \cup {None}) \ ids, shown : 0 .. acts + 1, made : BOOLEAN]
    /\ dialog \in {None, "new"} \cup Folders
    /\ page \in Pages
    /\ acts \in 0 .. MaxActs
    /\ reason \in {"none", "overlap", "failed", "reset", "remade", "oldList", "answerLost"}
CachesOK == list \in ListsAt(acts, ids) /\ flist \in FlistsAt(ids)
TInv == TablesOK /\ ReqsOK /\ RowsOK /\ CachesOK

-----------------------------------------------------------------------------
(* What keeps the last choices *)

Changing(r, t, field) == r.op \in {"update", "describe"} /\ r.id = t /\ r.field = field
\* At most one change of a field is on its way.
Single == \A i, j \in Slots, t \in Tasks, field \in Fields :
    Changing(reqs[i], t, field) /\ Changing(reqs[j], t, field) => i = j
\* A field that is not what was chosen has a change on its way, or refused.
Owed == \A t \in Live, field \in Fields :
    tasks[t][field] # chosen[t][field] =>
        \E i \in Slots : Changing(reqs[i], t, field) /\ reqs[i].st \in {"sent", "error"}
\* What is on its way is what was chosen, or a folder that exists no more.
Latest == \A i \in Slots, t \in Live, field \in Fields :
    Changing(reqs[i], t, field) /\ reqs[i].st = "sent" =>
        \/ reqs[i].value = chosen[t][field]
        \/ field = "folder" /\ reqs[i].value \notin folders \cup {None}
\* A title being typed is new to the list.
Drafted == edit.task # None =>
    edit.draft = edit.typed /\ list.data[edit.task].title # edit.typed
Described == ed.task \in Live => ed.shown = chosen[ed.task].desc
KeepInv == reason = "none" => Single /\ Owed /\ Latest /\ Drafted /\ Described

-----------------------------------------------------------------------------
(* What brings the lists up to date *)

Changes(op) == \E i \in Slots : reqs[i].st = "done" /\ reqs[i].op = op
TasksDue == \E op \in {"update", "createTask", "deleteTask"} : Changes(op)
FoldersDue == \E op \in {"createFolder", "deleteFolder", "deleteHere"} : Changes(op)
\* The tasks with their folders, but for a folder that has been deleted.
Current(table) ==
    /\ DOMAIN table = Live
    /\ \A t \in Live : \/ table[t].folder = tasks[t].folder
                       \/ table[t].folder \notin folders /\ tasks[t].folder = None
\* A first answer that is late may be older than the tables.
ListInv ==
    /\ list.has \/ list.stale
    /\ Current(list.data) \/ list.stale \/ list.late \/ TasksDue
    /\ list.st = "read" => Current(list.answer) \/ (list.late /\ ~list.has) \/ TasksDue
FlistInv ==
    /\ flist.has \/ flist.stale
    /\ flist.data = folders \/ flist.stale \/ flist.late \/ FoldersDue
    /\ flist.st = "read" => flist.answer = folders \/ (flist.late /\ ~flist.has) \/ FoldersDue
\* A stale list is fetched while it is shown, and only then.
MountInv ==
    /\ IF ListMounted THEN list.stale => list.st # "idle" ELSE list.st = "idle"
    /\ IF FoldersMounted THEN flist.stale => flist.st # "idle" ELSE flist.st = "idle"
ShowInv == MountInv /\ (reason # "answerLost" => ListInv /\ FlistInv)

IInv == TInv /\ KeepInv /\ ShowInv
-----------------------------------------------------------------------------
(* Types.  What is known of an id or of a change stays known. *)

LEMMA ChosenGrows ==
    ASSUME NEW field \in Fields, NEW a \in Nat, NEW b \in Nat, a <= b,
           NEW free, NEW left \in SUBSET free
    PROVE  Chosen(field, a, free) \subseteq Chosen(field, b, left)
BY DEF Chosen, Fields

LEMMA RowsGrow ==
    ASSUME NEW a \in Nat, NEW b \in Nat, a <= b, NEW free, NEW left \in SUBSET free
    PROVE  RowsAt(a, free) \subseteq RowsAt(b, left)
BY DEF RowsAt

LEMMA TableIs ==
    ASSUME NEW a, NEW free, NEW table \in TablesAt(a, free)
    PROVE  /\ DOMAIN table \subseteq Tasks \ free /\ table \in [DOMAIN table -> RowsAt(a, free)]
           /\ \A t \in DOMAIN table : table[t] \in RowsAt(a, free)
BY DEF TablesAt

LEMMA IsTable ==
    ASSUME NEW a, NEW free, NEW S \in SUBSET (Tasks \ free), NEW table \in [S -> RowsAt(a, free)]
    PROVE  table \in TablesAt(a, free)
BY DEF TablesAt

LEMMA TablesGrow ==
    ASSUME NEW a \in Nat, NEW b \in Nat, a <= b, NEW free, NEW left \in SUBSET free
    PROVE  TablesAt(a, free) \subseteq TablesAt(b, left)
<1>1. ASSUME NEW table \in TablesAt(a, free) PROVE table \in TablesAt(b, left)
  <2>1. table \in [DOMAIN table -> RowsAt(a, free)] /\ DOMAIN table \subseteq Tasks \ free
    BY <1>1, TableIs
  <2>2. table \in [DOMAIN table -> RowsAt(b, left)] /\ DOMAIN table \subseteq Tasks \ left
    BY <2>1, RowsGrow
  <2> QED BY <2>2, IsTable
<1> QED BY <1>1

LEMMA ListsGrow ==
    ASSUME NEW a \in Nat, NEW b \in Nat, a <= b, NEW free, NEW left \in SUBSET free
    PROVE  ListsAt(a, free) \subseteq ListsAt(b, left) /\ FlistsAt(free) \subseteq FlistsAt(left)
BY TablesGrow DEF ListsAt, FlistsAt

LEMMA SoundGrows ==
    ASSUME NEW a \in Nat, NEW b \in Nat, a <= b, NEW free, NEW left \in SUBSET free,
           NEW r \in Req, Sound(r, a, free)
    PROVE  Sound(r, b, left)
<1>1. r.op \in {"update", "describe"} => r.id \in Tasks \ left /\ r.value \in Chosen(r.field, b, left)
  BY ChosenGrows DEF Req, Sound
<1>2. r.op \notin {"update", "describe"} => r.field = "title" /\ r.value \in 0 .. b + 1
  BY DEF Sound
<1> QED BY <1>1, <1>2 DEF Sound

LEMMA FreshAt ==
    ASSUME NEW a \in Nat, NEW free \in SUBSET (Tasks \cup Folders), NEW title \in 0 .. a + 1
    PROVE  Fresh \in RowsAt(a, free) /\ [Fresh EXCEPT !.title = title] \in RowsAt(a, free)
BY TasksAssumption DEF RowsAt, Fresh, Status, Order

LEMMA NoReqSound == ASSUME NEW a \in Nat, NEW free PROVE NoReq \in Req /\ Sound(NoReq, a, free)
BY TasksAssumption DEF Req, Sound, NoReq, Ops, Fields, Texts

\* A row of which a field is written.
LEMMA RowWritten ==
    ASSUME NEW a \in Nat, NEW free, NEW row \in RowsAt(a, free), NEW field \in Fields,
           NEW value \in Chosen(field, a, free)
    PROVE  /\ [row EXCEPT ![field] = value] \in RowsAt(a, free)
           /\ [row EXCEPT ![field] = value][field] = value
           /\ \A other \in Fields \ {field} : [row EXCEPT ![field] = value][other] = row[other]
<1>1. CASE field = "title"
  BY <1>1 DEF RowsAt, Chosen, Fields
<1>2. CASE field = "desc"
  BY <1>2 DEF RowsAt, Chosen, Fields
<1>3. CASE field = "status"
  BY <1>3 DEF RowsAt, Chosen, Fields
<1>4. CASE field = "folder"
  BY <1>4 DEF RowsAt, Chosen, Fields
<1> QED BY <1>1, <1>2, <1>3, <1>4 DEF Fields

LEMMA WithoutAt ==
    ASSUME NEW a \in Nat, NEW free \in SUBSET (Tasks \cup Folders), NEW f,
           NEW row \in RowsAt(a, free)
    PROVE  /\ Without(f, row) \in RowsAt(a, free)
           /\ Without(f, row).folder = IF row.folder = f THEN None ELSE row.folder
           /\ \A field \in Fields \ {"folder"} : Without(f, row)[field] = row[field]
<1>1. None \in (Folders \cup {None}) \ free
  BY TasksAssumption
<1>2. CASE row.folder = f
  BY <1>1, <1>2 DEF Without, RowsAt, Fields
<1>3. CASE row.folder # f
  BY <1>3 DEF Without
<1> QED BY <1>2, <1>3

\* A row is its fields.
LEMMA SameRow ==
    ASSUME NEW a, NEW free, NEW b, NEW left, NEW row \in RowsAt(a, free), NEW other \in RowsAt(b, left),
           \A field \in Fields : row[field] = other[field]
    PROVE  row = other
BY DEF RowsAt, Fields

\* Queries.
LEMMA ListMoves ==
    ASSUME NEW a \in Nat, NEW free, NEW q \in ListsAt(a, free), NEW mounted \in BOOLEAN
    PROVE  /\ Fetch(q) \in ListsAt(a, free) /\ Cancel(q) \in ListsAt(a, free)
           /\ Stored(q) \in ListsAt(a, free) /\ Invalidate(q, mounted) \in ListsAt(a, free)
<1> DEFINE T == TablesAt(a, free)
<1>1. q \in [data : T, answer : T, has : BOOLEAN, stale : BOOLEAN, late : BOOLEAN, st : Fetching]
  BY DEF ListsAt
<1> HIDE DEF T
<1>2. /\ Fetch(q) \in [data : T, answer : T, has : BOOLEAN, stale : BOOLEAN, late : BOOLEAN, st : Fetching]
      /\ Cancel(q) \in [data : T, answer : T, has : BOOLEAN, stale : BOOLEAN, late : BOOLEAN, st : Fetching]
      /\ Stored(q) \in [data : T, answer : T, has : BOOLEAN, stale : BOOLEAN, late : BOOLEAN, st : Fetching]
      /\ Invalidate(q, mounted) \in [data : T, answer : T, has : BOOLEAN, stale : BOOLEAN, late : BOOLEAN, st : Fetching]
  BY <1>1 DEF Fetch, Cancel, Stored, Invalidate, Fetching
<1> QED BY <1>2 DEF ListsAt, T

LEMMA FlistMoves ==
    ASSUME NEW free, NEW q \in FlistsAt(free), NEW mounted \in BOOLEAN
    PROVE  /\ Fetch(q) \in FlistsAt(free) /\ Cancel(q) \in FlistsAt(free)
           /\ Stored(q) \in FlistsAt(free) /\ Invalidate(q, mounted) \in FlistsAt(free)
BY DEF FlistsAt, Fetch, Cancel, Stored, Invalidate, Fetching

-----------------------------------------------------------------------------
(* What any step may do to one part of the state *)

\* A slot is given a new request.
Starts(i, r) == reqs[i].st = "idle" /\ reqs' = [reqs EXCEPT ![i] = r]
Begun(r) == r.st = "sent" /\ r.op \in Ops
\* A slot goes on to another state, its request otherwise the same.
Moves(i, st) == reqs' = [reqs EXCEPT ![i].st = st]
Drops(i) == reqs' = [reqs EXCEPT ![i] = NoReq]

LEMMA CallStarts ==
    ASSUME NEW op \in Ops, NEW id, NEW field, NEW value, Call(op, id, field, value)
    PROVE  \E i \in Slots, here \in BOOLEAN :
                Starts(i, [op |-> op, id |-> id, field |-> field, value |-> value,
                           st |-> "sent", here |-> here])
<1> DEFINE i == CHOOSE j \in Idle : \A k \in Idle : j <= k
<1>1. Idle # {} /\ Idle \subseteq Nat
  BY DEF Call, Idle, Slots
<1>2. i \in Idle
  BY <1>1, Least
<1>5. reqs[i].st = "idle" /\ i \in Slots
  BY <1>2 DEF Idle
<1>6. reqs' = [reqs EXCEPT ![i] = [op |-> op, id |-> id, field |-> field, value |-> value,
                                  st |-> "sent", here |-> op \in Waited]]
  BY DEF Call
<1> DEFINE here == op \in Waited
<1> HIDE DEF i
<1>7. Starts(i, [op |-> op, id |-> id, field |-> field, value |-> value, st |-> "sent", here |-> here])
  BY <1>5, <1>6 DEF Starts
<1>8. here \in BOOLEAN
  OBVIOUS
<1> HIDE DEF here
<1> QED BY <1>5, <1>7, <1>8

\* Requests begin, move on, end, and are no longer waited for by the page.
ReqStep ==
    \/ UNCHANGED reqs
    \/ \E i \in Slots, r \in Req : Starts(i, r) /\ Begun(r) /\ Sound(r, acts', ids')
    \/ \E i \in Slots, st \in {"done", "error"} : reqs[i].st = "sent" /\ Moves(i, st)
    \/ \E i \in Slots : reqs[i].st # "idle" /\ Drops(i)
    \/ reqs' = Left(reqs)
    \/ \E i \in Slots : reqs[i].st # "idle" /\ reqs' = Left([reqs EXCEPT ![i] = NoReq])

LEMMA LeftIs ==
    ASSUME NEW rs \in [Slots -> Req]
    PROVE  /\ Left(rs) \in [Slots -> Req]
           /\ \A i \in Slots : /\ Left(rs)[i].op = rs[i].op /\ Left(rs)[i].id = rs[i].id
                               /\ Left(rs)[i].field = rs[i].field /\ Left(rs)[i].value = rs[i].value
                               /\ Left(rs)[i].st = rs[i].st
BY DEF Left, Req

LEMMA ReqsGrow ==
    ASSUME TInv, ReqStep, acts' \in 0 .. MaxActs, acts <= acts', ids' \subseteq ids
    PROVE  ReqsOK'
<1>1. /\ reqs \in [Slots -> Req] /\ acts \in Nat /\ acts' \in Nat
      /\ \A i \in Slots : Sound(reqs[i], acts, ids)
  BY DEF TInv, ReqsOK, RowsOK
<1>2. \A i \in Slots : Sound(reqs[i], acts', ids')
  BY <1>1, SoundGrows
<1>3. reqs' \in [Slots -> Req] /\ \A i \in Slots : Sound(reqs'[i], acts', ids')
  <2>1. CASE UNCHANGED reqs
    BY <1>1, <1>2, <2>1
  <2>2. ASSUME NEW i \in Slots, NEW r \in Req, Starts(i, r), Sound(r, acts', ids')
        PROVE  reqs' \in [Slots -> Req] /\ \A j \in Slots : Sound(reqs'[j], acts', ids')
    <3>1. reqs' \in [Slots -> Req] /\ \A j \in Slots : reqs'[j] = IF j = i THEN r ELSE reqs[j]
      BY <1>1, <2>2 DEF Starts
    <3> QED BY <1>2, <2>2, <3>1
  <2>3. ASSUME NEW i \in Slots, NEW st \in {"done", "error"}, reqs[i].st = "sent", Moves(i, st)
        PROVE  reqs' \in [Slots -> Req] /\ \A j \in Slots : Sound(reqs'[j], acts', ids')
    <3> DEFINE r == [reqs[i] EXCEPT !.st = st]
    <3>1. r \in Req /\ Sound(r, acts', ids')
      BY <1>1, <1>2, <2>3 DEF Req, Sound
    <3>2. reqs' = [reqs EXCEPT ![i] = r]
      BY <1>1, <2>3 DEF Moves
    <3> HIDE DEF r
    <3> QED BY <1>1, <1>2, <3>1, <3>2
  <2>4. ASSUME NEW i \in Slots
        PROVE  /\ [reqs EXCEPT ![i] = NoReq] \in [Slots -> Req]
               /\ \A j \in Slots : Sound([reqs EXCEPT ![i] = NoReq][j], acts', ids')
    BY <1>1, <1>2, NoReqSound
  <2>5. ASSUME NEW rs \in [Slots -> Req], reqs' = Left(rs),
               \A j \in Slots : Sound(rs[j], acts', ids')
        PROVE  reqs' \in [Slots -> Req] /\ \A j \in Slots : Sound(reqs'[j], acts', ids')
    BY <2>5, LeftIs DEF Sound
  <2>6. CASE \E i \in Slots : reqs[i].st # "idle" /\ Drops(i)
    BY <2>4, <2>6 DEF Drops
  <2>7. CASE \E i \in Slots : reqs[i].st # "idle" /\ reqs' = Left([reqs EXCEPT ![i] = NoReq])
    BY <2>4, <2>5, <2>7
  <2>8. CASE reqs' = Left(reqs)
    BY <1>1, <1>2, <2>5, <2>8
  <2> QED BY <2>1, <2>2, <2>3, <2>6, <2>7, <2>8 DEF ReqStep
<1> QED BY <1>3 DEF ReqsOK

LEMMA CycleType == ASSUME NEW s \in Status PROVE Cycle(s) \in Status /\ Check(s) \in Status
<1> DEFINE x == CHOOSE i \in 1 .. 3 : Order[i] = s
<1>1. x \in 1 .. 3
  BY DEF Status
<1>2. Cycle(s) = Order[(x % 3) + 1]
  BY DEF Cycle
<1> HIDE DEF x
<1>3. (x % 3) + 1 \in 1 .. 3
  BY <1>1
<1>4. Order[1] \in Status /\ Order[2] \in Status /\ Order[3] \in Status
  BY DEF Order, Status
<1>5. Check(s) \in Status
  BY DEF Check, Order, Status
<1>6. (x % 3) + 1 = 1 \/ (x % 3) + 1 = 2 \/ (x % 3) + 1 = 3
  BY <1>3
<1> QED BY <1>2, <1>4, <1>5, <1>6

\* What the page shows of a task.
LEMMA ListedRow ==
    ASSUME TInv, NEW t \in DOMAIN list.data
    PROVE  /\ t \in Tasks \ ids /\ list.data[t] \in RowsAt(acts, ids)
           /\ list.data[t].title \in 0 .. acts + 1 /\ list.data[t].desc \in 0 .. acts + 1
           /\ list.data[t].status \in Status
<1>1. list.data \in TablesAt(acts, ids)
  BY DEF TInv, CachesOK, ListsAt
<1>2. t \in Tasks \ ids /\ list.data[t] \in RowsAt(acts, ids)
  BY <1>1, TableIs
<1> QED BY <1>2 DEF RowsAt

\* Whom a step is by: the user on the page of the tasks or on those of the
\* folders, or anyone else.
LEMMA ActsGrow ==
    ASSUME TInv, Next
    PROVE  acts' \in 0 .. MaxActs /\ acts <= acts' /\ ids' \subseteq ids
<1>1. acts \in 0 .. MaxActs /\ MaxActs \in Nat
  BY TasksAssumption DEF TInv, RowsOK
<1>2. Acts => acts' \in 0 .. MaxActs /\ acts <= acts'
  BY <1>1 DEF Acts
<1>3. ASSUME NEW t \in Tasks, ClickStatus(t) \/ PickFolder(t) \/ TypeTitle(t) \/ Expand(t) \/ ClickDelete(t)
      PROVE  (Acts \/ UNCHANGED acts) /\ UNCHANGED ids
  BY <1>3 DEF ClickStatus, PickFolder, TypeTitle, Expand, ClickDelete, server
<1>4. CommitTitle \/ Escape \/ Collapse \/ Describe \/ ClickCreate
        => (Acts \/ UNCHANGED acts) /\ UNCHANGED ids
  BY DEF CommitTitle, Escape, Collapse, Describe, ClickCreate, server
<1>5. OpenDialog \/ CloseDialog \/ SubmitDialog \/ DeleteInDialog
        => (Acts \/ UNCHANGED acts) /\ UNCHANGED ids
  BY DEF OpenDialog, CloseDialog, SubmitDialog, DeleteInDialog, server
<1>6. ASSUME NEW f \in Folders, DeleteHere(f) PROVE (Acts \/ UNCHANGED acts) /\ UNCHANGED ids
  BY <1>6 DEF DeleteHere, server
<1>7. ASSUME NEW p \in Pages, NEW elapsed \in BOOLEAN, Go(p, elapsed)
      PROVE  (Acts \/ UNCHANGED acts) /\ UNCHANGED ids
  BY <1>7 DEF Go, server
<1>8. ASSUME NEW i \in Slots, Serve(i) PROVE UNCHANGED acts /\ ids' \subseteq ids
  BY <1>8 DEF Serve, Write, server
<1>9. ASSUME NEW i \in Slots, Answer(i) PROVE UNCHANGED acts /\ UNCHANGED ids
  BY <1>9 DEF Answer, Fails, Succeeds, server
<1>10. ReadTasks \/ ReadFolders \/ ListArrives \/ FoldersArrive => UNCHANGED acts /\ UNCHANGED ids
  BY DEF ReadTasks, ReadFolders, ListArrives, FoldersArrive, server
<1> QED BY <1>1, <1>2, <1>3, <1>4, <1>5, <1>6, <1>7, <1>8, <1>9, <1>10
    DEF Next, OnTaskPage, OnFolderPages

LEMMA Requests == TInv /\ Next => ReqStep
<1> SUFFICES ASSUME TInv, Next PROVE ReqStep
  OBVIOUS
<1>0. MaxActs \in Nat /\ acts' \in Nat /\ acts' \in 0 .. MaxActs /\ acts <= acts' /\ ids' \subseteq ids /\ acts \in Nat
  BY ActsGrow, TasksAssumption DEF TInv, RowsOK
<1>c. ASSUME NEW op \in Ops, NEW id \in Tasks \cup Folders \cup {None}, NEW field \in Fields, NEW value,
             Call(op, id, field, value),
             value \in Texts \cup Status \cup Folders \cup {None},
             op \in {"update", "describe"} =>
                id \in Tasks \ ids' /\ value \in Chosen(field, acts', ids'),
             op = "describe" => field = "desc",
             op \notin {"update", "describe"} => field = "title" /\ value \in 0 .. acts' + 1
      PROVE  ReqStep
  <2>1. PICK i \in Slots, here \in BOOLEAN :
            Starts(i, [op |-> op, id |-> id, field |-> field, value |-> value,
                       st |-> "sent", here |-> here])
    BY <1>c, CallStarts
  <2> DEFINE r == [op |-> op, id |-> id, field |-> field, value |-> value, st |-> "sent", here |-> here]
  <2>2. r \in Req
    BY <1>c DEF Req
  <2>3. Sound(r, acts', ids') /\ Begun(r)
    BY <1>c DEF Sound, Begun, Ops
  <2> QED BY <2>1, <2>2, <2>3 DEF ReqStep
<1>u. ASSUME NEW t \in DOMAIN list.data, NEW field \in {"status", "folder"}, NEW value, Update(t, field, value),
             ids' = ids, field = "status" => value \in Status,
             field = "folder" => value \in flist.data \cup {None}
      PROVE  ReqStep
  <2>1. t \in Tasks \ ids
    BY ListedRow
  <2>2. flist.data \subseteq Folders \ ids /\ None \notin ids
    BY TasksAssumption DEF TInv, CachesOK, FlistsAt, TablesOK
  <2>3. value \in Chosen(field, acts', ids') /\ value \in Texts \cup Status \cup Folders \cup {None}
    BY <1>u, <2>2 DEF Chosen
  <2> QED BY <1>u, <1>c, <2>1, <2>3 DEF Update, Ops, Fields
<1>n. Acts => New \in 0 .. acts' + 1 /\ New \in Texts
  BY <1>0 DEF Acts, New, Texts
<1>z. 0 \in Texts /\ 0 \in 0 .. acts' + 1
  <2>1. ASSUME NEW n \in Nat PROVE 0 \in 0 .. n + 1 /\ 0 \in 0 .. n
    OBVIOUS
  <2>2. MaxActs \in Nat /\ acts' \in Nat
    BY <1>0, TasksAssumption
  <2> QED BY <2>1, <2>2 DEF Texts
<1>1. ASSUME NEW t \in Tasks, ClickStatus(t) PROVE ReqStep
  <2>1. t \in DOMAIN list.data /\ ids' = ids
    BY <1>1 DEF ClickStatus, OnTasks
  <2>2. PICK s \in {Cycle(list.data[t].status), Check(list.data[t].status)} : Update(t, "status", s)
    BY <1>1 DEF ClickStatus
  <2>3. s \in Status
    BY <2>1, <2>2, ListedRow, CycleType
  <2> QED BY <2>1, <2>2, <2>3, <1>u
<1>2. ASSUME NEW t \in Tasks, PickFolder(t) PROVE ReqStep
  <2>1. t \in DOMAIN list.data /\ ids' = ids
    BY <1>2 DEF PickFolder, OnTasks
  <2>2. PICK f \in flist.data \cup {None} : Update(t, "folder", f)
    BY <1>2 DEF PickFolder
  <2> QED BY <2>1, <2>2, <1>u
<1>3. CASE CommitTitle
  <2>1. CASE UNCHANGED reqs
    BY <2>1 DEF ReqStep
  <2>2. CASE Call("update", edit.task, "title", edit.draft)
    <3>1. edit.task \in Tasks \ ids' /\ edit.draft \in 0 .. acts' + 1
      BY <1>3, <1>0 DEF CommitTitle, TInv, RowsOK
    <3>2. edit.draft \in Texts /\ edit.draft \in Chosen("title", acts', ids')
      BY <3>1, <1>0 DEF Chosen, Texts
    <3> QED BY <1>c, <2>2, <3>1, <3>2 DEF Ops, Fields
  <2> QED BY <1>3, <2>1, <2>2 DEF CommitTitle
<1>4. CASE Describe
  <2>1. ed.task \in Tasks \ ids' /\ Call("describe", ed.task, "desc", New) /\ Acts
    BY <1>4, <1>0 DEF Describe, TInv, RowsOK
  <2>2. New \in Chosen("desc", acts', ids')
    BY <2>1, <1>n DEF Chosen
  <2> QED BY <1>c, <1>n, <2>1, <2>2 DEF Ops, Fields
<1>5. CASE ClickCreate
  BY <1>5, <1>c, <1>n DEF ClickCreate, Ops, Fields
<1>6. ASSUME NEW t \in Tasks, ClickDelete(t) PROVE ReqStep
  BY <1>6, <1>c, <1>z DEF ClickDelete, Ops, Fields
<1>7. CASE SubmitDialog
  <2>1. dialog \in Folders => dialog \in Tasks \cup Folders \cup {None}
    OBVIOUS
  <2> QED BY <1>7, <1>c, <1>z, <2>1 DEF SubmitDialog, Ops, Fields
<1>8. CASE DeleteInDialog
  BY <1>8, <1>c, <1>z DEF DeleteInDialog, Ops, Fields
<1>9. ASSUME NEW f \in Folders, DeleteHere(f) PROVE ReqStep
  BY <1>9, <1>c, <1>z DEF DeleteHere, Ops, Fields
<1>10. ASSUME NEW t \in Tasks, TypeTitle(t) \/ Expand(t) PROVE ReqStep
  BY <1>10 DEF TypeTitle, Expand, ReqStep
<1>11. Escape \/ Collapse \/ OpenDialog \/ CloseDialog => ReqStep
  BY DEF Escape, Collapse, OpenDialog, CloseDialog, ReqStep
<1>12. ASSUME NEW p \in Pages, NEW elapsed \in BOOLEAN, Go(p, elapsed) PROVE ReqStep
  BY <1>12 DEF Go, ReqStep
<1>13. ASSUME NEW i \in Slots, Serve(i) PROVE ReqStep
  BY <1>13 DEF Serve, ReqStep, Moves
<1>14. ASSUME NEW i \in Slots, Answer(i) PROVE ReqStep
  BY <1>14 DEF Answer, Fails, Succeeds, ReqStep, Drops
<1>15. ReadTasks \/ ReadFolders \/ ListArrives \/ FoldersArrive => ReqStep
  BY DEF ReadTasks, ReadFolders, ListArrives, FoldersArrive, ReqStep
<1> QED BY <1>1, <1>2, <1>3, <1>4, <1>5, <1>6, <1>7, <1>8, <1>9, <1>10, <1>11, <1>12, <1>13,
           <1>14, <1>15 DEF Next, OnTaskPage, OnFolderPages

\* The user chooses a value for a field, whatever the tables have.
Chooses(t, field, value) ==
    /\ chosen' = IF t \in Live THEN [chosen EXCEPT ![t][field] = value] ELSE chosen
    /\ UNCHANGED <<tasks, folders, ids>>
Served == \E i \in Slots : Serve(i) /\ reqs[i] \in Req /\ Sound(reqs[i], acts, ids)
ServerStep ==
    \/ UNCHANGED server
    \/ \E t \in Tasks, field \in Fields : \E value \in Chosen(field, acts', ids') : Chooses(t, field, value)
    \/ Served

LEMMA ServerSteps == TInv /\ Next => ServerStep
<1> SUFFICES ASSUME TInv, Next PROVE ServerStep
  OBVIOUS
<1>0. MaxActs \in Nat /\ acts' \in 0 .. MaxActs /\ acts <= acts' /\ ids' \subseteq ids /\ acts \in Nat
  BY ActsGrow, TasksAssumption DEF TInv, RowsOK
<1>u. ASSUME NEW t \in DOMAIN list.data, NEW field \in {"status", "folder"}, NEW value, Update(t, field, value),
             UNCHANGED <<tasks, folders, ids>>, field = "status" => value \in Status,
             field = "folder" => value \in flist.data \cup {None}
      PROVE  ServerStep
  <2>1. t \in Tasks /\ field \in Fields
    BY ListedRow DEF Fields
  <2>2. flist.data \subseteq Folders \ ids /\ None \notin ids
    BY TasksAssumption DEF TInv, CachesOK, FlistsAt, TablesOK
  <2>3. value \in Chosen(field, acts', ids')
    BY <1>u, <2>2 DEF Chosen
  <2>4. Chooses(t, field, value)
    BY <1>u DEF Update, Choose, Chooses
  <2> QED BY <2>1, <2>3, <2>4 DEF ServerStep
<1>1. ASSUME NEW t \in Tasks, ClickStatus(t) PROVE ServerStep
  <2>1. t \in DOMAIN list.data /\ UNCHANGED <<tasks, folders, ids>>
    BY <1>1 DEF ClickStatus, OnTasks
  <2>2. PICK s \in {Cycle(list.data[t].status), Check(list.data[t].status)} : Update(t, "status", s)
    BY <1>1 DEF ClickStatus
  <2>3. s \in Status
    BY <2>1, <2>2, ListedRow, CycleType
  <2> QED BY <2>1, <2>2, <2>3, <1>u
<1>2. ASSUME NEW t \in Tasks, PickFolder(t) PROVE ServerStep
  <2>1. t \in DOMAIN list.data /\ UNCHANGED <<tasks, folders, ids>>
    BY <1>2 DEF PickFolder, OnTasks
  <2>2. PICK f \in flist.data \cup {None} : Update(t, "folder", f)
    BY <1>2 DEF PickFolder
  <2> QED BY <2>1, <2>2, <1>u
<1>3. CASE CommitTitle
  <2>1. edit.task \in Tasks /\ edit.typed \in 0 .. acts' + 1
    BY <1>3, <1>0 DEF CommitTitle, TInv, RowsOK
  <2>2. edit.typed \in Chosen("title", acts', ids') /\ "title" \in Fields
    BY <2>1, <1>0 DEF Chosen, Fields
  <2>3. Chooses(edit.task, "title", edit.typed)
    BY <1>3 DEF CommitTitle, Choose, Chooses
  <2> QED BY <2>1, <2>2, <2>3 DEF ServerStep
<1>4. CASE Describe
  <2>1. ed.task \in Tasks /\ New \in 0 .. acts' + 1
    BY <1>4, <1>0 DEF Describe, TInv, RowsOK, Acts, New
  <2>2. New \in Chosen("desc", acts', ids') /\ "desc" \in Fields
    BY <2>1, <1>0 DEF Chosen, Fields
  <2>3. Chooses(ed.task, "desc", New)
    BY <1>4 DEF Describe, Choose, Chooses
  <2> QED BY <2>1, <2>2, <2>3 DEF ServerStep
<1>5. ASSUME NEW t \in Tasks, TypeTitle(t) \/ Expand(t) \/ ClickDelete(t) PROVE UNCHANGED server
  BY <1>5 DEF TypeTitle, Expand, ClickDelete
<1>6. Escape \/ Collapse \/ ClickCreate \/ OpenDialog \/ CloseDialog \/ SubmitDialog \/ DeleteInDialog
        => UNCHANGED server
  BY DEF Escape, Collapse, ClickCreate, OpenDialog, CloseDialog, SubmitDialog, DeleteInDialog
<1>7. ASSUME NEW f \in Folders, DeleteHere(f) PROVE UNCHANGED server
  BY <1>7 DEF DeleteHere
<1>8. ASSUME NEW p \in Pages, NEW elapsed \in BOOLEAN, Go(p, elapsed) PROVE UNCHANGED server
  BY <1>8 DEF Go
<1>9. ASSUME NEW i \in Slots, Serve(i) PROVE ServerStep
  <2>1. reqs[i] \in Req /\ Sound(reqs[i], acts, ids)
    BY DEF TInv, ReqsOK
  <2> QED BY <1>9, <2>1 DEF ServerStep, Served
<1>10. ASSUME NEW i \in Slots, Answer(i) PROVE UNCHANGED server
  BY <1>10 DEF Answer, Fails, Succeeds
<1>11. ReadTasks \/ ReadFolders \/ ListArrives \/ FoldersArrive => UNCHANGED server
  BY DEF ReadTasks, ReadFolders, ListArrives, FoldersArrive
<1> QED BY <1>1, <1>2, <1>3, <1>4, <1>5, <1>6, <1>7, <1>8, <1>9, <1>10, <1>11
    DEF Next, OnTaskPage, OnFolderPages, ServerStep

LEMMA TablesStep == TInv /\ Next => TablesOK'
<1> SUFFICES ASSUME TInv, Next PROVE TablesOK'
  OBVIOUS
<1>0. acts' \in Nat /\ acts <= acts' /\ ids' \subseteq ids /\ acts \in Nat
  BY ActsGrow, TasksAssumption DEF TInv, RowsOK
<1>t. /\ tasks \in TablesAt(acts, ids) /\ chosen \in TablesAt(acts, ids) /\ DOMAIN chosen = Live
      /\ folders \subseteq Folders \ ids /\ ids \subseteq Tasks \cup Folders
      /\ \A t \in Live : tasks[t].folder \in folders \cup {None}
  BY DEF TInv, TablesOK
<1>g. tasks \in TablesAt(acts', ids') /\ chosen \in TablesAt(acts', ids')
  BY <1>0, <1>t, TablesGrow
<1>d. /\ Live \subseteq Tasks \ ids' /\ \A t \in Live : tasks[t] \in RowsAt(acts', ids')
      /\ \A t \in Live : chosen[t] \in RowsAt(acts', ids')
  BY <1>g, <1>t, TableIs DEF Live
<1>1. CASE UNCHANGED server
  BY <1>1, <1>t, <1>g DEF server, TablesOK, Live
<1>2. ASSUME NEW t \in Tasks, NEW field \in Fields, NEW value \in Chosen(field, acts', ids'),
             Chooses(t, field, value)
      PROVE  TablesOK'
  <2>1. CASE t \in Live
    <3>1. [chosen[t] EXCEPT ![field] = value] \in RowsAt(acts', ids')
      BY <1>0, <1>d, <2>1, RowWritten
    <3>2. chosen' = [chosen EXCEPT ![t] = [chosen[t] EXCEPT ![field] = value]]
      BY <1>2, <2>1 DEF Chooses
    <3>3. chosen \in [Live -> RowsAt(acts', ids')]
      BY <1>g, <1>t, TableIs
    <3>4. chosen' \in [Live -> RowsAt(acts', ids')]
      BY <3>1, <3>2, <3>3
    <3> QED BY <1>2, <1>t, <1>g, <1>d, <3>4, IsTable DEF Chooses, TablesOK, Live
  <2>2. CASE t \notin Live
    BY <1>2, <2>2, <1>t, <1>g DEF Chooses, TablesOK, Live
  <2> QED BY <2>1, <2>2
<1>3. CASE Served
  <2>0. PICK i \in Slots : Serve(i) /\ reqs[i] \in Req /\ Sound(reqs[i], acts, ids)
    BY <1>3 DEF Served
  <2> DEFINE r == reqs[i]
  <2>a. acts' = acts
    BY <2>0 DEF Serve
  <2>1. CASE ~Allowed(r)
    BY <2>0, <2>1, <1>1 DEF Serve
  <2>2. CASE Allowed(r) /\ Write(r)
    <3>1. CASE r.op \in {"update", "describe"}
      <4>1. /\ tasks' = [tasks EXCEPT ![r.id] = Written(@, r.field, r.value)]
            /\ UNCHANGED <<folders, ids, chosen>>
        BY <2>2, <3>1 DEF Write
      <4>2. r.id \in Live /\ r.field \in Fields /\ r.value \in Chosen(r.field, acts', ids')
            /\ (r.field = "folder" => r.value \in folders \cup {None})
        BY <2>0, <2>a, <2>2, <3>1, <4>1 DEF Allowed, Req, Sound
      <4> DEFINE row == Written(tasks[r.id], r.field, r.value)
      <4>3. row \in RowsAt(acts', ids') /\ row[r.field] = r.value
            /\ \A other \in Fields \ {r.field} : row[other] = tasks[r.id][other]
        BY <1>0, <1>d, <4>2, RowWritten DEF Written
      <4>4. row.folder \in folders \cup {None}
        BY <1>t, <4>2, <4>3 DEF Fields
      <4>5. tasks' = [tasks EXCEPT ![r.id] = row]
        BY <4>1
      <4> HIDE DEF row
      <4>6. tasks \in [Live -> RowsAt(acts', ids')]
        BY <1>g, TableIs DEF Live
      <4>7. tasks' \in [Live -> RowsAt(acts', ids')]
        BY <4>3, <4>5, <4>6
      <4>8. \A t \in Live : tasks'[t].folder \in folders \cup {None}
        BY <1>t, <4>4, <4>5, <4>6
      <4>9. tasks' \in TablesAt(acts', ids')
        BY <1>d, <4>7, IsTable
      <4> QED BY <1>t, <1>g, <4>1, <4>7, <4>8, <4>9 DEF TablesOK, Live
    <3>2. CASE r.op = "createTask"
      <4>1. PICK t \in Tasks \cap ids :
              /\ tasks' = [u \in Live \cup {t} |-> IF u = t THEN [Fresh EXCEPT !.title = r.value]
                                                   ELSE tasks[u]]
              /\ chosen' = [u \in Live \cup {t} |-> IF u = t THEN [Fresh EXCEPT !.title = r.value]
                                                    ELSE chosen[u]]
              /\ ids' = ids \ {t}
        BY <2>2, <3>2 DEF Write
      <4>2. UNCHANGED folders
        BY <2>2, <3>2 DEF Write
      <4>3. [Fresh EXCEPT !.title = r.value] \in RowsAt(acts', ids')
        BY <2>0, <2>a, <3>2, <1>0, <1>t, FreshAt DEF Sound
      <4>4. [Fresh EXCEPT !.title = r.value].folder = None
        BY DEF Fresh
      <4> DEFINE S == Live \cup {t}
                 row == [Fresh EXCEPT !.title = r.value]
      <4> HIDE DEF row
      <4>5. tasks' \in [S -> RowsAt(acts', ids')] /\ chosen' \in [S -> RowsAt(acts', ids')]
        BY <4>1, <4>3, <1>d DEF row
      <4>6. S \subseteq Tasks \ ids'
        BY <4>1, <1>d
      <4>7. tasks' \in TablesAt(acts', ids') /\ chosen' \in TablesAt(acts', ids')
        BY <4>5, <4>6, IsTable
      <4>8. \A u \in S : tasks'[u].folder \in folders \cup {None}
        BY <4>1, <4>4, <1>t DEF row
      <4> QED BY <1>t, <1>0, <4>1, <4>2, <4>5, <4>7, <4>8 DEF TablesOK, Live
    <3>3. CASE r.op = "deleteTask"
      <4>1. /\ tasks' = [u \in Live \ {r.id} |-> tasks[u]]
            /\ chosen' = [u \in Live \ {r.id} |-> chosen[u]]
            /\ UNCHANGED <<folders, ids>>
        BY <2>2, <3>3 DEF Write
      <4> DEFINE S == Live \ {r.id}
      <4>2. tasks' \in [S -> RowsAt(acts', ids')] /\ chosen' \in [S -> RowsAt(acts', ids')]
        BY <4>1, <1>d
      <4>3. tasks' \in TablesAt(acts', ids') /\ chosen' \in TablesAt(acts', ids')
        BY <4>2, <1>d, IsTable
      <4> QED BY <1>t, <4>1, <4>2, <4>3 DEF TablesOK, Live
    <3>4. CASE r.op = "createFolder"
      BY <2>2, <3>4, <1>t, <1>g, <1>0 DEF Write, TablesOK, Live
    <3>5. CASE r.op = "updateFolder"
      BY <2>2, <3>5, <1>1 DEF Write
    <3>6. CASE r.op \in {"deleteFolder", "deleteHere"}
      <4>1. /\ folders' = folders \ {r.id}
            /\ tasks' = [t \in Live |-> Without(r.id, tasks[t])]
            /\ chosen' = [t \in Live |-> Without(r.id, chosen[t])]
            /\ UNCHANGED ids
        BY <2>2, <3>6 DEF Write
      <4>2. \A t \in Live : Without(r.id, tasks[t]) \in RowsAt(acts', ids')
                            /\ Without(r.id, chosen[t]) \in RowsAt(acts', ids')
        BY <1>0, <1>t, <1>d, WithoutAt
      <4>3. tasks' \in [Live -> RowsAt(acts', ids')] /\ chosen' \in [Live -> RowsAt(acts', ids')]
        BY <4>1, <4>2
      <4>4. tasks' \in TablesAt(acts', ids') /\ chosen' \in TablesAt(acts', ids')
        BY <4>3, <1>d, IsTable
      <4>5. \A t \in Live : Without(r.id, tasks[t]).folder \in (folders \ {r.id}) \cup {None}
        BY <1>0, <1>t, <1>d, WithoutAt
      <4> QED BY <1>t, <4>1, <4>3, <4>4, <4>5 DEF TablesOK, Live
    <3>7. r.op \in Ops \cup {"idle"}
      BY <2>0 DEF Req
    <3>8. r.op # "idle"
      BY <2>0 DEF Sound, Serve
    <3> QED BY <3>1, <3>2, <3>3, <3>4, <3>5, <3>6, <3>7, <3>8 DEF Ops
  <2> QED BY <2>0, <2>1, <2>2 DEF Serve
<1> QED BY <1>1, <1>2, <1>3, ServerSteps DEF ServerStep

\* The queries move as their definitions say.
CacheStep ==
    /\ \/ UNCHANGED list \/ list' = Fetch(list) \/ list' = Cancel(list)
       \/ list' = [list EXCEPT !.st = "read", !.answer = tasks] /\ list.st = "sent" /\ UNCHANGED tasks
       \/ list.st = "read" /\ list' = Stored(list)
       \/ \E mounted \in BOOLEAN : list' = Invalidate(list, mounted)
    /\ \/ UNCHANGED flist \/ flist' = Fetch(flist) \/ flist' = Cancel(flist)
       \/ flist' = [flist EXCEPT !.st = "read", !.answer = folders] /\ flist.st = "sent" /\ UNCHANGED folders
       \/ flist.st = "read" /\ flist' = Stored(flist)
       \/ \E mounted \in BOOLEAN : flist' = Invalidate(flist, mounted)
       \/ \E mounted \in BOOLEAN : flist' = Fetch(Invalidate(flist, mounted))

LEMMA CacheSteps == TInv /\ Next => CacheStep
<1> SUFFICES ASSUME TInv, Next PROVE CacheStep
  OBVIOUS
<1>0. ListMounted \in BOOLEAN /\ FoldersMounted \in BOOLEAN
  BY DEF ListMounted, FoldersMounted
<1>i. ASSUME NEW q, NEW mounted \in BOOLEAN, NEW elapsed \in BOOLEAN
      PROVE  Mounts(q, mounted, elapsed) \in {q, Cancel(q), Fetch(q)}
  BY DEF Mounts
<1>1. ASSUME NEW t \in Tasks, ClickStatus(t) \/ PickFolder(t) \/ TypeTitle(t) \/ Expand(t) \/ ClickDelete(t)
      PROVE  UNCHANGED cached
  BY <1>1 DEF ClickStatus, PickFolder, TypeTitle, Expand, ClickDelete
<1>2. CommitTitle \/ Escape \/ Collapse \/ ClickCreate \/ OpenDialog \/ CloseDialog \/ SubmitDialog \/ DeleteInDialog
        => UNCHANGED cached
  BY DEF CommitTitle, Escape, Collapse, ClickCreate, OpenDialog, CloseDialog, SubmitDialog, DeleteInDialog
<1>3. ASSUME NEW f \in Folders, DeleteHere(f) PROVE UNCHANGED cached
  BY <1>3 DEF DeleteHere
<1>4. CASE Describe
  BY <1>0, <1>4 DEF Describe, CacheStep
<1>5. ASSUME NEW p \in Pages, NEW elapsed \in BOOLEAN, Go(p, elapsed) PROVE CacheStep
  <2>1. list' \in {list, Cancel(list), Fetch(list)}
    BY <1>5, <1>i DEF Go, Goto
  <2>2. flist' \in {flist, Cancel(flist), Fetch(flist)}
    BY <1>5, <1>i DEF Go, Goto
  <2> QED BY <2>1, <2>2 DEF CacheStep
<1>6. ASSUME NEW i \in Slots, Serve(i) \/ Fails(i) PROVE UNCHANGED cached
  BY <1>6 DEF Serve, Fails
<1>7. ASSUME NEW i \in Slots, Succeeds(i) PROVE CacheStep
  <2>1. CASE Refreshed(reqs[i].op)
    BY <1>0, <2>1 DEF Refreshed, CacheStep
  <2>2. CASE list' = Cancel(list) /\ flist' = Mounts(Invalidate(flist, FoldersMounted), TRUE, FALSE)
    <3>1. flist' \in {Invalidate(flist, FoldersMounted), Fetch(Invalidate(flist, FoldersMounted))}
      BY <2>2 DEF Mounts
    <3> QED BY <1>0, <2>2, <3>1 DEF CacheStep
  <2> QED BY <1>7, <2>1, <2>2 DEF Succeeds
<1>8. CASE ReadTasks
  BY <1>8 DEF ReadTasks, CacheStep, server
<1>9. CASE ReadFolders
  BY <1>9 DEF ReadFolders, CacheStep, server
<1>10. CASE ListArrives
  BY <1>10 DEF ListArrives, CacheStep
<1>11. CASE FoldersArrive
  BY <1>11 DEF FoldersArrive, CacheStep
<1>12. UNCHANGED cached => CacheStep
  BY DEF cached, CacheStep
<1> QED BY <1>1, <1>2, <1>3, <1>4, <1>5, <1>6, <1>7, <1>8, <1>9, <1>10, <1>11, <1>12
    DEF Next, OnTaskPage, OnFolderPages, Answer

LEMMA CachesStep == TInv /\ Next => CachesOK'
<1> SUFFICES ASSUME TInv, Next PROVE CachesOK'
  OBVIOUS
<1>0. acts' \in Nat /\ acts <= acts' /\ ids' \subseteq ids /\ acts \in Nat
  BY ActsGrow, TasksAssumption DEF TInv, RowsOK
<1>1. list \in ListsAt(acts', ids') /\ flist \in FlistsAt(ids') /\ tasks \in TablesAt(acts', ids')
      /\ folders \in SUBSET (Folders \ ids')
  BY <1>0, ListsGrow, TablesGrow DEF TInv, CachesOK, TablesOK
<1>2. [list EXCEPT !.st = "read", !.answer = tasks] \in ListsAt(acts', ids')
  <2> DEFINE T == TablesAt(acts', ids')
  <2>1. list \in [data : T, answer : T, has : BOOLEAN, stale : BOOLEAN, late : BOOLEAN, st : Fetching] /\ tasks \in T
    BY <1>1 DEF ListsAt
  <2> HIDE DEF T
  <2>2. [list EXCEPT !.st = "read", !.answer = tasks] \in [data : T, answer : T, has : BOOLEAN, stale : BOOLEAN, late : BOOLEAN, st : Fetching]
    BY <2>1 DEF Fetching
  <2> QED BY <2>2 DEF T, ListsAt
<1>3. [flist EXCEPT !.st = "read", !.answer = folders] \in FlistsAt(ids')
  BY <1>1 DEF FlistsAt, Fetching
<1>4. list' \in ListsAt(acts', ids')
  BY <1>0, <1>1, <1>2, ListMoves, CacheSteps DEF CacheStep
<1>5. flist' \in FlistsAt(ids')
  BY <1>0, <1>1, <1>3, FlistMoves, CacheSteps DEF CacheStep
<1> QED BY <1>4, <1>5 DEF CachesOK

LEMMA RowsStep == TInv /\ Next => RowsOK'
<1> SUFFICES ASSUME TInv, Next PROVE RowsOK'
  OBVIOUS
<1> DEFINE Edits == [task : (Tasks \cup {None}) \ ids', typed : 0 .. acts' + 1, draft : 0 .. acts' + 1]
           Eds == [task : (Tasks \cup {None}) \ ids', shown : 0 .. acts' + 1, made : BOOLEAN]
           Reasons == {"none", "overlap", "failed", "reset", "remade", "oldList", "answerLost"}
           Dialogs == {None, "new"} \cup Folders
<1>0. acts' \in 0 .. MaxActs /\ acts' \in Nat /\ acts <= acts' /\ ids' \subseteq ids /\ acts \in Nat
  BY ActsGrow, TasksAssumption DEF TInv, RowsOK
<1>t. edit \in Edits /\ ed \in Eds /\ dialog \in Dialogs /\ page \in Pages /\ reason \in Reasons
  BY <1>0 DEF TInv, RowsOK
<1>n. NoEdit \in Edits /\ NoEd \in Eds /\ None \in Dialogs
  <2>1. None \in (Tasks \cup {None}) \ ids'
    BY <1>0, TasksAssumption DEF TInv, TablesOK
  <2>2. ASSUME NEW n \in Nat PROVE 0 \in 0 .. n + 1
    OBVIOUS
  <2>3. NoEdit \in Edits
    BY <1>0, <2>1, <2>2 DEF NoEdit
  <2>4. NoEd \in Eds
    BY <1>0, <2>1, <2>2 DEF NoEd
  <2> QED BY <2>3, <2>4
<1>q. ASSUME edit' \in Edits, ed' \in Eds, dialog' \in Dialogs, page' \in Pages, reason' \in Reasons
      PROVE  RowsOK'
  BY <1>q, <1>0 DEF RowsOK
<1>r. ASSUME NEW cond, NEW why \in Reasons, Note(cond, why) PROVE reason' \in Reasons
  BY <1>r, <1>t DEF Note
<1>l. /\ \A t \in DOMAIN list.data : t \in Tasks \ ids /\ list.data[t].desc \in 0 .. acts' + 1
      /\ \A t \in DOMAIN list.answer : /\ t \in Tasks \ ids /\ list.answer[t].desc \in 0 .. acts' + 1
                                      /\ list.answer[t].title \in 0 .. acts' + 1
  <2>1. list.data \in TablesAt(acts, ids) /\ list.answer \in TablesAt(acts, ids)
    BY DEF TInv, CachesOK, ListsAt
  <2> QED BY <1>0, <2>1, TableIs DEF RowsAt
<1> HIDE DEF Edits, Eds, Reasons, Dialogs
<1>1. ASSUME NEW t \in Tasks, ClickStatus(t) \/ PickFolder(t) PROVE RowsOK'
  <2>1. UNCHANGED <<page, edit, ed, dialog>>
    BY <1>1 DEF ClickStatus, PickFolder, rows
  <2>2. Note(Overlaps(t, "status"), "overlap") \/ Note(Overlaps(t, "folder"), "overlap")
    BY <1>1 DEF ClickStatus, PickFolder, Update, Choose
  <2>3. reason' \in Reasons
    BY <1>r, <2>2 DEF Reasons
  <2> QED BY <1>t, <1>q, <2>1, <2>3
<1>2. ASSUME NEW t \in Tasks, TypeTitle(t) PROVE RowsOK'
  <2>1. edit' = [task |-> t, typed |-> New, draft |-> New] /\ t \in DOMAIN list.data /\ Acts
    BY <1>2 DEF TypeTitle, OnTasks
  <2>2. edit' \in Edits
    BY <2>1, <1>0, <1>l DEF Edits, Acts, New
  <2>3. UNCHANGED <<page, ed, dialog, reason>>
    BY <1>2 DEF TypeTitle
  <2> QED BY <1>t, <1>q, <2>2, <2>3
<1>3. ASSUME NEW t \in Tasks, Expand(t) PROVE RowsOK'
  <2>1. /\ ed' = [task |-> t, shown |-> list.data[t].desc, made |-> list.data[t].desc # 0]
        /\ t \in DOMAIN list.data
    BY <1>3 DEF Expand, OnTasks
  <2>2. ed' \in Eds
    BY <2>1, <1>0, <1>l DEF Eds
  <2>3. UNCHANGED <<page, edit, dialog>>
    BY <1>3 DEF Expand
  <2>4. reason' \in Reasons
    BY <1>3, <1>r DEF Expand, Reasons
  <2> QED BY <1>t, <1>q, <2>2, <2>3, <2>4
<1>4. ASSUME NEW t \in Tasks, ClickDelete(t) PROVE RowsOK'
  BY <1>4, <1>t, <1>q DEF ClickDelete, rows
<1>5. CASE CommitTitle
  <2>1. UNCHANGED <<page, ed, dialog>> /\ edit' = NoEdit
    BY <1>5 DEF CommitTitle
  <2>2. reason' \in Reasons
    BY <1>5, <1>r DEF CommitTitle, Choose, Reasons
  <2> QED BY <1>t, <1>n, <1>q, <2>1, <2>2
<1>6. CASE Escape
  BY <1>6, <1>t, <1>n, <1>q DEF Escape
<1>7. CASE Collapse
  BY <1>7, <1>t, <1>n, <1>q DEF Collapse
<1>8. CASE Describe
  <2>1. UNCHANGED <<page, edit, dialog>> /\ ed' = [ed EXCEPT !.shown = New] /\ Acts
    BY <1>8 DEF Describe
  <2>2. New \in 0 .. acts' + 1
    BY <2>1, <1>0 DEF Acts, New
  <2>3. ed' \in Eds
    BY <2>1, <2>2, <1>t DEF Eds
  <2>4. reason' \in Reasons
    BY <1>8, <1>r DEF Describe, Choose, Reasons
  <2> QED BY <1>t, <1>q, <2>1, <2>3, <2>4
<1>9. CASE ClickCreate
  BY <1>9, <1>t, <1>q DEF ClickCreate, rows
<1>10. CASE OpenDialog
  <2>1. dialog' \in Dialogs
    BY <1>10 DEF OpenDialog, Dialogs, TInv, CachesOK, FlistsAt
  <2> QED BY <1>10, <2>1, <1>t, <1>q DEF OpenDialog, rows
<1>11. CASE CloseDialog \/ SubmitDialog \/ DeleteInDialog
  BY <1>11, <1>t, <1>n, <1>q DEF CloseDialog, SubmitDialog, DeleteInDialog, rows
<1>12. ASSUME NEW f \in Folders, DeleteHere(f) PROVE RowsOK'
  BY <1>12, <1>t, <1>q DEF DeleteHere, rows
<1>13. ASSUME NEW p \in Pages, NEW elapsed \in BOOLEAN, Go(p, elapsed) PROVE RowsOK'
  BY <1>13, <1>t, <1>n, <1>q DEF Go, Goto
<1>14. ASSUME NEW i \in Slots, Serve(i) PROVE RowsOK'
  BY <1>14, <1>t, <1>q DEF Serve, rows
<1>15. ASSUME NEW i \in Slots, Fails(i) PROVE RowsOK'
  <2>1. reason' \in Reasons
    BY <1>15, <1>r DEF Fails, Reasons
  <2> QED BY <1>15, <2>1, <1>t, <1>q DEF Fails, rows
<1>16. ASSUME NEW i \in Slots, Succeeds(i) PROVE RowsOK'
  <2>1. "folders" \in Pages
    BY DEF Pages
  <2>2. UNCHANGED reason
    BY <1>16 DEF Succeeds
  <2>3. CASE UNCHANGED <<page, rows>> /\ dialog' \in {None, dialog}
    BY <2>2, <2>3, <1>t, <1>n, <1>q DEF rows
  <2>4. CASE page' = "folders" /\ edit' = NoEdit /\ ed' = NoEd /\ dialog' = None
    BY <2>1, <2>2, <2>4, <1>t, <1>n, <1>q
  <2> QED BY <1>16, <2>3, <2>4 DEF Succeeds
<1>17. CASE ReadTasks \/ ReadFolders \/ FoldersArrive
  BY <1>17, <1>t, <1>q DEF ReadTasks, ReadFolders, FoldersArrive, rows
<1>18. CASE ListArrives
  <2>1. UNCHANGED <<page, dialog>>
    BY <1>18 DEF ListArrives
  <2>2. edit' \in Edits
    <3>1. edit' = IF edit.task \notin DOMAIN list.answer THEN NoEdit
                  ELSE IF list.answer[edit.task].title # list.data[edit.task].title
                       THEN [edit EXCEPT !.draft = list.answer[edit.task].title] ELSE edit
      BY <1>18 DEF ListArrives
    <3>2. ASSUME edit.task \in DOMAIN list.answer
          PROVE  [edit EXCEPT !.draft = list.answer[edit.task].title] \in Edits
      BY <3>2, <1>t, <1>l DEF Edits
    <3> QED BY <3>1, <3>2, <1>t, <1>n
  <2>3. ed' \in Eds
    <3>1. ed' = IF ed.task \notin DOMAIN list.answer THEN NoEd
                ELSE IF ~ed.made /\ list.answer[ed.task].desc # 0
                     THEN [ed EXCEPT !.shown = list.answer[ed.task].desc, !.made = TRUE] ELSE ed
      BY <1>18 DEF ListArrives
    <3>2. ASSUME ed.task \in DOMAIN list.answer
          PROVE  [ed EXCEPT !.shown = list.answer[ed.task].desc, !.made = TRUE] \in Eds
      BY <3>2, <1>t, <1>l DEF Eds
    <3> QED BY <3>1, <3>2, <1>t, <1>n
  <2>4. reason' = reason \/ reason' = "reset" \/ reason' = "remade"
    BY <1>18 DEF ListArrives, Note
  <2>5. reason' \in Reasons
    BY <2>4, <1>t DEF Reasons
  <2> QED BY <2>1, <2>2, <2>3, <2>5, <1>t, <1>q
<1> QED BY <1>1, <1>2, <1>3, <1>4, <1>5, <1>6, <1>7, <1>8, <1>9, <1>10, <1>11, <1>12, <1>13, <1>14,
           <1>15, <1>16, <1>17, <1>18 DEF Next, OnTaskPage, OnFolderPages, Answer

LEMMA TypeStep == TInv /\ [Next]_vars => TInv'
<1>1. TInv /\ Next => TInv'
  BY ActsGrow, Requests, ReqsGrow, TablesStep, CachesStep, RowsStep DEF TInv
<1>2. TInv /\ UNCHANGED vars => TInv'
  <2> SUFFICES ASSUME TInv, UNCHANGED vars PROVE TInv'
    OBVIOUS
  <2>1. TablesOK' /\ ReqsOK'
    BY DEF TInv, TablesOK, ReqsOK, vars, server, Live
  <2>2. RowsOK' /\ CachesOK'
    BY DEF TInv, RowsOK, CachesOK, vars, server, cached, rows
  <2> QED BY <2>1, <2>2 DEF TInv
<1> QED BY <1>1, <1>2

LEMMA TypeInit == Init => TInv
<1> SUFFICES ASSUME Init PROVE TInv
  OBVIOUS
<1> USE TasksAssumption
<1>1. acts = 0 /\ ids = (Tasks \cup Folders) \ {First, Given}
  BY DEF Init
<1>2. tasks \in TablesAt(acts, ids) /\ Live = {First} /\ tasks[First].folder \in {None, Given}
  <2>1. PICK row \in {Fresh, [Fresh EXCEPT !.desc = 1, !.folder = Given]} : tasks = [t \in {First} |-> row]
    BY DEF Init
  <2>2. row \in RowsAt(acts, ids) /\ row.folder \in {None, Given}
    <3>1. Given \in (Folders \cup {None}) \ ids /\ None \in (Folders \cup {None}) \ ids
      BY <1>1
    <3>2. 0 \in 0 .. acts + 1 /\ 1 \in 0 .. acts + 1 /\ "TODO" \in Status
      BY <1>1 DEF Status, Order
    <3>3. Fresh \in RowsAt(acts, ids) /\ Fresh.folder = None
      BY <3>1, <3>2 DEF Fresh, RowsAt
    <3>4. /\ [Fresh EXCEPT !.desc = 1, !.folder = Given] \in RowsAt(acts, ids)
          /\ [Fresh EXCEPT !.desc = 1, !.folder = Given].folder = Given
      BY <3>1, <3>2 DEF Fresh, RowsAt
    <3> QED BY <2>1, <3>3, <3>4
  <2>3. tasks \in [{First} -> RowsAt(acts, ids)]
    BY <2>1, <2>2
  <2> QED BY <1>1, <2>1, <2>2, <2>3, IsTable DEF Live
<1>3. TablesOK
  BY <1>1, <1>2 DEF Init, TablesOK, Live
<1>4. ReqsOK
  BY <1>1, NoReqSound DEF Init, ReqsOK
<1>5. NoRows \in TablesAt(acts, ids)
  <2>1. NoRows \in [{} -> RowsAt(acts, ids)]
    BY DEF NoRows
  <2> QED BY <2>1, IsTable
<1>6. NoQuery(NoRows) \in ListsAt(acts, ids) /\ NoQuery({}) \in FlistsAt(ids)
  BY <1>5 DEF NoQuery, ListsAt, FlistsAt, Fetching
<1>7. CachesOK
  BY <1>1, <1>6, ListMoves DEF Init, CachesOK
<1>8. RowsOK
  BY <1>1 DEF Init, RowsOK, NoEdit, NoEd, Pages
<1> QED BY <1>3, <1>4, <1>7, <1>8 DEF TInv

-----------------------------------------------------------------------------
(* The last choices are kept *)

\* The changes in flight are ones that were, and none that counts is gone.
Older == \A i \in Slots : reqs'[i].op \in {"update", "describe"} =>
    /\ reqs'[i].op = reqs[i].op /\ reqs'[i].id = reqs[i].id /\ reqs'[i].field = reqs[i].field
    /\ reqs'[i].value = reqs[i].value /\ (reqs'[i].st = "sent" => reqs[i].st = "sent")
Kept == \A i \in Slots :
    reqs[i].op \in {"update", "describe"} /\ reqs[i].st \in {"sent", "error"} =>
        /\ reqs'[i].op = reqs[i].op /\ reqs'[i].id = reqs[i].id /\ reqs'[i].field = reqs[i].field
        /\ reqs'[i].st \in {"sent", "error"}

LEMMA SingleOlder == ASSUME Single, Older PROVE Single'
<1>1. \A i \in Slots, t \in Tasks, field \in Fields :
        Changing(reqs'[i], t, field) => Changing(reqs[i], t, field)
  BY DEF Changing, Older
<1> QED BY <1>1 DEF Single

LEMMA KeepSame ==
    ASSUME Single, Owed, Latest, Older, Kept, UNCHANGED server
    PROVE  Single' /\ Owed' /\ Latest'
<1>1. \A i \in Slots, t \in Tasks, field \in Fields :
        Changing(reqs'[i], t, field) => Changing(reqs[i], t, field)
  BY DEF Changing, Older
<1>2. \A i \in Slots : \A t, field :
        Changing(reqs[i], t, field) /\ reqs[i].st \in {"sent", "error"} =>
            Changing(reqs'[i], t, field) /\ reqs'[i].st \in {"sent", "error"}
  BY DEF Changing, Kept
<1>3. Owed'
  BY <1>2 DEF Owed, server, Live
<1>4. Latest'
  <2>1. \A i \in Slots : \A t, field :
            Changing(reqs'[i], t, field) /\ reqs'[i].st = "sent" =>
                /\ Changing(reqs[i], t, field) /\ reqs[i].st = "sent"
                /\ reqs'[i].value = reqs[i].value
    BY DEF Changing, Older
  <2> QED BY <2>1 DEF Latest, server, Live
<1> QED BY <1>3, <1>4, SingleOlder

\* Requests that are no changes begin, and requests that have succeeded end.
LEMMA OtherRequests ==
    ASSUME TInv,
           \/ UNCHANGED reqs
           \/ \E i \in Slots, r \in Req : Starts(i, r) /\ r.op \notin {"update", "describe"}
           \/ \E i \in Slots : reqs[i].st = "done" /\ Drops(i)
           \/ reqs' = Left(reqs)
           \/ \E i \in Slots : reqs[i].st = "done" /\ reqs' = Left([reqs EXCEPT ![i] = NoReq])
    PROVE  Older /\ Kept
<1>0. reqs \in [Slots -> Req]
  BY DEF TInv, ReqsOK
<1>1. CASE UNCHANGED reqs
  BY <1>1 DEF Older, Kept
<1>2. ASSUME NEW i \in Slots, NEW r \in Req, Starts(i, r), r.op \notin {"update", "describe"}
      PROVE  Older /\ Kept
  <2>1. \A j \in Slots : reqs'[j] = IF j = i THEN r ELSE reqs[j]
    BY <1>0, <1>2 DEF Starts
  <2> QED BY <1>2, <2>1 DEF Older, Kept, Starts
<1>3. ASSUME NEW i \in Slots, reqs[i].st = "done"
      PROVE  /\ [reqs EXCEPT ![i] = NoReq] \in [Slots -> Req]
             /\ \A j \in Slots : [reqs EXCEPT ![i] = NoReq][j] = IF j = i THEN NoReq ELSE reqs[j]
  BY <1>0, NoReqSound
<1>4. ASSUME NEW i \in Slots, reqs[i].st = "done", Drops(i) PROVE Older /\ Kept
  BY <1>3, <1>4 DEF Drops, Older, Kept, NoReq
<1>5. CASE reqs' = Left(reqs)
  BY <1>0, <1>5, LeftIs DEF Older, Kept
<1>6. ASSUME NEW i \in Slots, reqs[i].st = "done", reqs' = Left([reqs EXCEPT ![i] = NoReq])
      PROVE  Older /\ Kept
  <2> DEFINE rs == [reqs EXCEPT ![i] = NoReq]
  <2>1. rs \in [Slots -> Req] /\ \A j \in Slots : rs[j] = IF j = i THEN NoReq ELSE reqs[j]
    BY <1>3, <1>6
  <2> HIDE DEF rs
  <2>2. \A j \in Slots : /\ reqs'[j].op = rs[j].op /\ reqs'[j].id = rs[j].id
                         /\ reqs'[j].field = rs[j].field /\ reqs'[j].value = rs[j].value
                         /\ reqs'[j].st = rs[j].st
    BY <1>6, <2>1, LeftIs DEF rs
  <2>3. Older
    <3>1. ASSUME NEW j \in Slots, reqs'[j].op \in {"update", "describe"} PROVE j # i
      BY <2>1, <2>2, <3>1 DEF NoReq
    <3>2. ASSUME NEW j \in Slots, j # i
          PROVE  /\ reqs'[j].op = reqs[j].op /\ reqs'[j].id = reqs[j].id
                 /\ reqs'[j].field = reqs[j].field /\ reqs'[j].value = reqs[j].value
                 /\ reqs'[j].st = reqs[j].st
      BY <2>1, <2>2, <3>2
    <3> QED BY <3>1, <3>2 DEF Older
  <2>4. Kept
    <3>1. ASSUME NEW j \in Slots, reqs[j].st \in {"sent", "error"}
          PROVE  /\ reqs'[j].op = reqs[j].op /\ reqs'[j].id = reqs[j].id
                 /\ reqs'[j].field = reqs[j].field /\ reqs'[j].st = reqs[j].st
      BY <1>6, <2>1, <2>2, <3>1
    <3> QED BY <3>1 DEF Kept
  <2> QED BY <2>3, <2>4
<1> QED BY <1>1, <1>2, <1>4, <1>5, <1>6

\* The user gives a field a value and the change is sent.
LEMMA KeepChosen ==
    ASSUME TInv, Single, Owed, Latest,
           NEW t \in Tasks, NEW field \in Fields, NEW value, NEW i \in Slots, NEW r \in Req,
           Starts(i, r), r.op \in {"update", "describe"}, r.id = t, r.field = field,
           r.value = value, r.st = "sent", Chooses(t, field, value), ~Overlaps(t, field)
    PROVE  Single' /\ Owed' /\ Latest'
<1>0. reqs \in [Slots -> Req]
  BY DEF TInv, ReqsOK
<1>1. \A j \in Slots : reqs'[j] = IF j = i THEN r ELSE reqs[j]
  BY <1>0 DEF Starts
<1>2. Changing(r, t, field) /\ \A j \in Slots : ~Changing(reqs[j], t, field)
  BY DEF Changing, Overlaps
<1>3. \A u, other : Changing(r, u, other) => u = t /\ other = field
  BY DEF Changing
<1>4. Single'
  BY <1>1, <1>2, <1>3 DEF Single
<1>5. Live' = Live /\ UNCHANGED <<tasks, folders>>
  BY DEF Chooses, Live
<1>6. \A u \in Live, other \in Fields :
        chosen'[u][other] = IF u = t /\ other = field THEN value ELSE chosen[u][other]
  <2>1. chosen \in [Live -> RowsAt(acts, ids)]
    BY TableIs DEF TInv, TablesOK
  <2>2. ASSUME NEW row \in RowsAt(acts, ids), NEW other \in Fields
        PROVE  [row EXCEPT ![field] = value][other] = IF other = field THEN value ELSE row[other]
    BY DEF RowsAt, Fields
  <2>3. CASE t \in Live
    <3>1. chosen' = [chosen EXCEPT ![t] = [chosen[t] EXCEPT ![field] = value]]
      BY <2>3 DEF Chooses
    <3> QED BY <2>1, <2>2, <2>3, <3>1
  <2>4. CASE t \notin Live
    BY <2>4 DEF Chooses
  <2> QED BY <2>3, <2>4
<1>7. \A j \in Slots : \A u, other :
        Changing(reqs[j], u, other) => reqs'[j] = reqs[j]
  BY <1>1 DEF Changing, Starts, TInv, ReqsOK, Sound
<1>8. Owed'
  <2> SUFFICES ASSUME NEW u \in Live, NEW other \in Fields, tasks[u][other] # chosen'[u][other]
               PROVE  \E j \in Slots : Changing(reqs'[j], u, other) /\ reqs'[j].st \in {"sent", "error"}
    BY <1>5 DEF Owed
  <2>1. CASE u = t /\ other = field
    BY <1>1, <1>2, <2>1
  <2>2. CASE ~(u = t /\ other = field)
    <3>1. tasks[u][other] # chosen[u][other]
      BY <1>6, <2>2
    <3>2. PICK j \in Slots : Changing(reqs[j], u, other) /\ reqs[j].st \in {"sent", "error"}
      BY <3>1 DEF Owed
    <3> QED BY <1>7, <3>2
  <2> QED BY <2>1, <2>2
<1>9. Latest'
  <2> SUFFICES ASSUME NEW j \in Slots, NEW u \in Live, NEW other \in Fields,
                      Changing(reqs'[j], u, other), reqs'[j].st = "sent"
               PROVE  \/ reqs'[j].value = chosen'[u][other]
                      \/ other = "folder" /\ reqs'[j].value \notin folders \cup {None}
    BY <1>5 DEF Latest
  <2>1. CASE j = i
    BY <1>1, <1>3, <1>6, <2>1
  <2>2. CASE j # i
    <3>1. reqs'[j] = reqs[j] /\ ~(u = t /\ other = field)
      BY <1>1, <1>2, <2>2
    <3> QED BY <1>6, <3>1 DEF Latest
  <2> QED BY <2>1, <2>2
<1> QED BY <1>4, <1>8, <1>9

\* The server does what is asked, or refuses.
LEMMA KeepServed ==
    ASSUME TInv, TInv', Single, Owed, Latest, Described, NEW i \in Slots, Serve(i)
    PROVE  Single' /\ Owed' /\ Latest' /\ Described'
<1> DEFINE r == reqs[i]
<1>0. reqs \in [Slots -> Req] /\ r \in Req /\ Sound(r, acts, ids) /\ r.st = "sent"
  BY DEF TInv, ReqsOK, Serve
<1>e. UNCHANGED <<edit, ed, list>>
  BY DEF Serve, cached, rows
<1>m. PICK st \in {"done", "error"} : reqs' = [reqs EXCEPT ![i].st = st]
  BY DEF Serve
<1>1. \A j \in Slots :
        /\ reqs'[j].op = reqs[j].op /\ reqs'[j].id = reqs[j].id
        /\ reqs'[j].field = reqs[j].field /\ reqs'[j].value = reqs[j].value
        /\ reqs'[j].st = IF j = i THEN st ELSE reqs[j].st
  <2>1. ASSUME NEW q \in Req
        PROVE  /\ [q EXCEPT !.st = st].op = q.op /\ [q EXCEPT !.st = st].id = q.id
               /\ [q EXCEPT !.st = st].field = q.field /\ [q EXCEPT !.st = st].value = q.value
               /\ [q EXCEPT !.st = st].st = st
    BY DEF Req
  <2>2. reqs' = [reqs EXCEPT ![i] = [reqs[i] EXCEPT !.st = st]]
    BY <1>m
  <2> QED BY <1>0, <2>1, <2>2
<1>2. \A j \in Slots : \A t, field : Changing(reqs'[j], t, field) <=> Changing(reqs[j], t, field)
  BY <1>1 DEF Changing
<1>3. Single'
  BY <1>2 DEF Single
<1>4. \A j \in Slots : reqs'[j].st = "sent" => reqs[j].st = "sent" /\ j # i
  BY <1>0, <1>1, <1>m
<1>t. /\ \A t \in Live : tasks[t] \in RowsAt(acts, ids) /\ chosen[t] \in RowsAt(acts, ids)
      /\ acts \in Nat /\ ids \in SUBSET (Tasks \cup Folders) /\ Live \subseteq Tasks \ ids
      /\ DOMAIN chosen = Live /\ folders \subseteq Folders \ ids
  BY TableIs, TasksAssumption DEF TInv, TablesOK, RowsOK, Live
<1>5. CASE ~Allowed(r)
  <2>1. UNCHANGED server /\ reqs' = [reqs EXCEPT ![i].st = "error"]
    BY <1>5 DEF Serve
  <2>2. reqs'[i].st = "error"
    BY <1>0, <2>1 DEF Req
  <2>3. Older /\ Kept
    BY <1>0, <1>1, <2>2 DEF Older, Kept
  <2>4. Described'
    BY <1>e, <2>1 DEF Described, server, Live
  <2> QED BY <2>1, <2>3, <2>4, KeepSame
<1>6. CASE Allowed(r) /\ Write(r) /\ reqs' = [reqs EXCEPT ![i].st = "done"]
  <2>1. CASE r.op \in {"update", "describe"}
    <3>1. /\ tasks' = [tasks EXCEPT ![r.id] = Written(@, r.field, r.value)]
          /\ UNCHANGED <<folders, ids, chosen>>
      BY <1>6, <2>1 DEF Write
    <3>2. r.id \in Live /\ r.field \in Fields /\ r.value \in Chosen(r.field, acts, ids)
          /\ (r.field = "folder" => r.value \in folders \cup {None})
      BY <1>0, <1>6, <2>1, <3>1 DEF Allowed, Req, Sound
    <3>3. Changing(r, r.id, r.field)
      BY <2>1 DEF Changing
    <3>4. r.value = chosen[r.id][r.field]
      BY <1>0, <3>2, <3>3 DEF Latest
    <3>5. Live' = Live
      BY <3>1 DEF Live
    <3>6. \A u \in Live, other \in Fields :
            tasks'[u][other] = IF u = r.id /\ other = r.field THEN r.value ELSE tasks[u][other]
      <4> DEFINE row == Written(tasks[r.id], r.field, r.value)
      <4>1. /\ row \in RowsAt(acts, ids) /\ row[r.field] = r.value
            /\ \A other \in Fields \ {r.field} : row[other] = tasks[r.id][other]
        <5>1. tasks[r.id] \in RowsAt(acts, ids) /\ acts \in Nat
          BY <1>t, <3>2
        <5> QED BY <3>2, <5>1, RowWritten DEF Written
      <4>2. tasks' = [tasks EXCEPT ![r.id] = row]
        BY <3>1
      <4> HIDE DEF row
      <4>3. \A u \in Live : tasks'[u] = IF u = r.id THEN row ELSE tasks[u]
        BY <4>2 DEF Live
      <4> QED BY <3>2, <4>1, <4>3
    <3>7. Owed'
      <4> SUFFICES ASSUME NEW u \in Live, NEW other \in Fields, tasks'[u][other] # chosen[u][other]
                   PROVE  \E j \in Slots : Changing(reqs'[j], u, other) /\ reqs'[j].st \in {"sent", "error"}
        BY <3>1, <3>5 DEF Owed
      <4>1. ~(u = r.id /\ other = r.field)
        BY <3>4, <3>6
      <4>2. tasks[u][other] # chosen[u][other]
        BY <3>6, <4>1
      <4>3. PICK j \in Slots : Changing(reqs[j], u, other) /\ reqs[j].st \in {"sent", "error"}
        BY <4>2 DEF Owed
      <4>4. j # i
        BY <3>3, <4>1, <4>3 DEF Changing
      <4> QED BY <1>1, <1>2, <4>3, <4>4
    <3>8. Latest'
      BY <1>1, <1>2, <1>4, <3>1, <3>5 DEF Latest
    <3>9. Described'
      BY <1>e, <3>1, <3>5 DEF Described
    <3> QED BY <1>3, <3>7, <3>8, <3>9
  <2>2. r.op \notin {"update", "describe"} => Older /\ Kept
    BY <1>1, <1>4 DEF Older, Kept
  <2>3. CASE r.op = "createTask"
    <3>1. PICK t \in Tasks \cap ids :
            /\ tasks' = [u \in Live \cup {t} |-> IF u = t THEN [Fresh EXCEPT !.title = r.value]
                                                 ELSE tasks[u]]
            /\ chosen' = [u \in Live \cup {t} |-> IF u = t THEN [Fresh EXCEPT !.title = r.value]
                                                  ELSE chosen[u]]
      BY <1>6, <2>3 DEF Write
    <3>2. UNCHANGED folders
      BY <1>6, <2>3 DEF Write
    <3>3. Live' = Live \cup {t} /\ t \notin Live
      BY <1>t, <3>1 DEF Live
    <3>4. /\ tasks'[t] = chosen'[t]
          /\ \A u \in Live : tasks'[u] = tasks[u] /\ chosen'[u] = chosen[u]
      BY <3>1, <3>3
    <3>5. \A j \in Slots : \A field : ~Changing(reqs[j], t, field)
      BY <3>1 DEF TInv, ReqsOK, Sound, Changing
    <3>6. Owed'
      <4> SUFFICES ASSUME NEW u \in Live', NEW field \in Fields, tasks'[u][field] # chosen'[u][field]
                   PROVE  \E j \in Slots : Changing(reqs'[j], u, field) /\ reqs'[j].st \in {"sent", "error"}
        BY DEF Owed
      <4>1. u \in Live /\ tasks[u][field] # chosen[u][field]
        BY <3>3, <3>4
      <4>2. PICK j \in Slots : Changing(reqs[j], u, field) /\ reqs[j].st \in {"sent", "error"}
        BY <4>1 DEF Owed
      <4>3. j # i
        BY <2>3, <4>2 DEF Changing
      <4> QED BY <1>1, <1>2, <4>2, <4>3
    <3>7. Latest'
      <4> SUFFICES ASSUME NEW j \in Slots, NEW u \in Live', NEW field \in Fields,
                          Changing(reqs'[j], u, field), reqs'[j].st = "sent"
                   PROVE  \/ reqs'[j].value = chosen'[u][field]
                          \/ field = "folder" /\ reqs'[j].value \notin folders' \cup {None}
        BY DEF Latest
      <4>1. Changing(reqs[j], u, field) /\ reqs[j].st = "sent" /\ reqs'[j].value = reqs[j].value
        BY <1>1, <1>2, <1>4
      <4>2. u \in Live
        BY <3>3, <3>5, <4>1
      <4> QED BY <3>2, <3>4, <4>1, <4>2 DEF Latest
    <3>8. Described'
      <4>1. ed.task # t
        BY <3>1, TasksAssumption DEF TInv, RowsOK
      <4> QED BY <1>e, <3>3, <3>4, <4>1 DEF Described
    <3> QED BY <1>3, <3>6, <3>7, <3>8
  <2>4. CASE r.op = "deleteTask"
    <3>1. /\ tasks' = [u \in Live \ {r.id} |-> tasks[u]]
          /\ chosen' = [u \in Live \ {r.id} |-> chosen[u]]
          /\ UNCHANGED <<folders, ids>>
      BY <1>6, <2>4 DEF Write
    <3>2. Live' = Live \ {r.id}
      BY <3>1 DEF Live
    <3>3. \A u \in Live' : tasks'[u] = tasks[u] /\ chosen'[u] = chosen[u] /\ u \in Live
      BY <3>1, <3>2
    <3>4. \A j \in Slots : \A t, field :
            Changing(reqs[j], t, field) /\ reqs[j].st \in {"sent", "error"} =>
                Changing(reqs'[j], t, field) /\ reqs'[j].st \in {"sent", "error"}
      BY <2>2, <2>4 DEF Kept, Changing
    <3>5. Owed'
      BY <3>3, <3>4 DEF Owed
    <3>6. Latest'
      <4> SUFFICES ASSUME NEW j \in Slots, NEW u \in Live', NEW field \in Fields,
                          Changing(reqs'[j], u, field), reqs'[j].st = "sent"
                   PROVE  \/ reqs'[j].value = chosen'[u][field]
                          \/ field = "folder" /\ reqs'[j].value \notin folders' \cup {None}
        BY DEF Latest
      <4>1. Changing(reqs[j], u, field) /\ reqs[j].st = "sent" /\ reqs'[j].value = reqs[j].value
        BY <1>1, <1>2, <1>4
      <4> QED BY <3>1, <3>3, <4>1 DEF Latest
    <3>7. Described'
      BY <1>e, <3>3 DEF Described
    <3> QED BY <1>3, <3>5, <3>6, <3>7
  <2>5. CASE r.op = "createFolder"
    <3>1. PICK f \in Folders \cap ids : folders' = folders \cup {f} /\ ids' = ids \ {f}
      BY <1>6, <2>5 DEF Write
    <3>2. UNCHANGED <<tasks, chosen>>
      BY <1>6, <2>5 DEF Write
    <3>3. \A j \in Slots : \A t :
            Changing(reqs[j], t, "folder") => reqs[j].value # f
      BY <3>1 DEF TInv, ReqsOK, Sound, Changing, Chosen
    <3>4. \A j \in Slots : \A t, field :
            Changing(reqs[j], t, field) /\ reqs[j].st \in {"sent", "error"} =>
                Changing(reqs'[j], t, field) /\ reqs'[j].st \in {"sent", "error"}
      BY <2>2, <2>5 DEF Kept, Changing
    <3>5. Owed'
      BY <3>2, <3>4 DEF Owed, Live
    <3>6. Latest'
      <4> SUFFICES ASSUME NEW j \in Slots, NEW u \in Live, NEW field \in Fields,
                          Changing(reqs'[j], u, field), reqs'[j].st = "sent"
                   PROVE  \/ reqs'[j].value = chosen[u][field]
                          \/ field = "folder" /\ reqs'[j].value \notin folders' \cup {None}
        BY <3>2 DEF Latest, Live
      <4>1. Changing(reqs[j], u, field) /\ reqs[j].st = "sent" /\ reqs'[j].value = reqs[j].value
        BY <1>1, <1>2, <1>4
      <4>2. CASE reqs[j].value = chosen[u][field]
        BY <4>1, <4>2
      <4>3. CASE field = "folder" /\ reqs[j].value \notin folders \cup {None}
        BY <3>1, <3>3, <4>1, <4>3
      <4> QED BY <4>1, <4>2, <4>3 DEF Latest
    <3>7. Described'
      BY <1>e, <3>2 DEF Described, Live
    <3> QED BY <1>3, <3>5, <3>6, <3>7
  <2>6. CASE r.op = "updateFolder"
    <3>1. UNCHANGED server
      BY <1>6, <2>6 DEF Write
    <3>2. Described'
      BY <1>e, <3>1 DEF Described, server, Live
    <3> QED BY <2>2, <2>6, <3>1, <3>2, KeepSame
  <2>7. CASE r.op \in {"deleteFolder", "deleteHere"}
    <3>1. /\ folders' = folders \ {r.id}
          /\ tasks' = [t \in Live |-> Without(r.id, tasks[t])]
          /\ chosen' = [t \in Live |-> Without(r.id, chosen[t])]
          /\ UNCHANGED ids
      BY <1>6, <2>7 DEF Write
    <3>2. Live' = Live /\ r.id \in folders /\ r.id # None
      BY <1>6, <2>7, <3>1, TasksAssumption DEF Live, Allowed, TInv, TablesOK
    <3>3. \A u \in Live, field \in Fields \ {"folder"} :
            tasks'[u][field] = tasks[u][field] /\ chosen'[u][field] = chosen[u][field]
      BY <1>t, <3>1, WithoutAt
    <3>4. \A u \in Live :
            /\ tasks'[u].folder = IF tasks[u].folder = r.id THEN None ELSE tasks[u].folder
            /\ chosen'[u].folder = IF chosen[u].folder = r.id THEN None ELSE chosen[u].folder
      BY <1>t, <3>1, WithoutAt
    <3>5. \A j \in Slots : \A t, field :
            Changing(reqs[j], t, field) /\ reqs[j].st \in {"sent", "error"} =>
                Changing(reqs'[j], t, field) /\ reqs'[j].st \in {"sent", "error"}
      BY <2>2, <2>7 DEF Kept, Changing
    <3>6. \A u \in Live, field \in Fields :
            tasks'[u][field] # chosen'[u][field] => tasks[u][field] # chosen[u][field]
      BY <3>3, <3>4 DEF Fields
    <3>7. Owed'
      BY <3>2, <3>5, <3>6 DEF Owed
    <3>8. Latest'
      <4> SUFFICES ASSUME NEW j \in Slots, NEW u \in Live, NEW field \in Fields,
                          Changing(reqs'[j], u, field), reqs'[j].st = "sent"
                   PROVE  \/ reqs'[j].value = chosen'[u][field]
                          \/ field = "folder" /\ reqs'[j].value \notin folders' \cup {None}
        BY <3>2 DEF Latest
      <4>1. Changing(reqs[j], u, field) /\ reqs[j].st = "sent" /\ reqs'[j].value = reqs[j].value
        BY <1>1, <1>2, <1>4
      <4>2. CASE field # "folder"
        BY <3>3, <4>1, <4>2 DEF Latest
      <4>3. CASE field = "folder"
        <5>1. CASE reqs[j].value = chosen[u].folder
          BY <3>1, <3>2, <3>4, <4>1, <4>3, <5>1
        <5>2. CASE reqs[j].value \notin folders \cup {None}
          BY <3>1, <4>1, <4>3, <5>2
        <5> QED BY <4>1, <4>3, <5>1, <5>2 DEF Latest
      <4> QED BY <4>2, <4>3
    <3>9. Described'
      BY <1>e, <3>2, <3>3 DEF Described, Fields
    <3> QED BY <1>3, <3>7, <3>8, <3>9
  <2>8. r.op \in Ops
    BY <1>0 DEF Req, Sound
  <2> QED BY <2>1, <2>3, <2>4, <2>5, <2>6, <2>7, <2>8 DEF Ops
<1> QED BY <1>5, <1>6 DEF Serve

\* A query that is fetched, cancelled or invalidated shows what it showed.
LEMMA DataKept ==
    ASSUME TInv, NEW mounted \in BOOLEAN
    PROVE  /\ Fetch(list).data = list.data /\ Cancel(list).data = list.data
           /\ Invalidate(list, mounted).data = list.data
<1> DEFINE T == TablesAt(acts, ids)
<1>1. list \in [data : T, answer : T, has : BOOLEAN, stale : BOOLEAN, late : BOOLEAN, st : Fetching]
  BY DEF TInv, CachesOK, ListsAt
<1> HIDE DEF T
<1> QED BY <1>1 DEF Fetch, Cancel, Invalidate

LEMMA KeepStep == TInv /\ TInv' /\ KeepInv /\ Next => KeepInv'
<1> SUFFICES ASSUME TInv, TInv', KeepInv, Next, reason' = "none"
             PROVE  Single' /\ Owed' /\ Latest' /\ Drafted' /\ Described'
  BY DEF KeepInv
<1>k. reason = "none" => Single /\ Owed /\ Latest /\ Drafted /\ Described
  BY DEF KeepInv
<1>n. ASSUME NEW cond, NEW why \in {"overlap", "failed", "reset", "remade", "oldList"}, Note(cond, why)
      PROVE  reason = "none" /\ ~cond
  BY <1>n DEF Note
<1>r. reqs \in [Slots -> Req]
  BY DEF TInv, ReqsOK
<1>f. /\ acts' \in Nat /\ acts <= acts' /\ ids' \subseteq ids /\ acts \in Nat
      /\ None \notin Tasks /\ Live \subseteq Tasks /\ Live' \subseteq Tasks
  BY ActsGrow, TasksAssumption, TableIs DEF TInv, RowsOK, TablesOK, Live
<1>o. ASSUME reason = "none", UNCHANGED server, Older, Kept, Drafted', Described'
      PROVE  Single' /\ Owed' /\ Latest' /\ Drafted' /\ Described'
  BY <1>k, <1>o, KeepSame
\* What is shown and edited stays.
<1>d. ASSUME reason = "none", UNCHANGED edit, list'.data = list.data PROVE Drafted'
  BY <1>k, <1>d DEF Drafted
<1>e. ASSUME reason = "none", UNCHANGED ed, UNCHANGED server PROVE Described'
  BY <1>k, <1>e DEF Described, server, Live
<1>x. (edit' = NoEdit => Drafted') /\ (ed' = NoEd => Described')
  BY <1>f DEF Drafted, Described, NoEdit, NoEd
\* A choice that is sent.
<1>c. ASSUME NEW t \in Tasks, NEW field \in Fields, NEW value, NEW op \in {"update", "describe"},
             Call(op, t, field, value), Choose(t, field, value), UNCHANGED <<tasks, folders, ids>>
      PROVE  reason = "none" /\ Single' /\ Owed' /\ Latest'
  <2>1. reason = "none" /\ ~Overlaps(t, field)
    BY <1>c, <1>n DEF Choose
  <2>2. PICK i \in Slots, here \in BOOLEAN :
            Starts(i, [op |-> op, id |-> t, field |-> field, value |-> value,
                       st |-> "sent", here |-> here])
    BY <1>c, CallStarts DEF Ops
  <2> DEFINE r == [op |-> op, id |-> t, field |-> field, value |-> value, st |-> "sent", here |-> here]
  <2>3. Chooses(t, field, value)
    BY <1>c DEF Choose, Chooses
  <2>4. r = reqs'[i]
    BY <1>r, <2>2 DEF Starts
  <2>5. r \in Req
    BY <2>4 DEF TInv, ReqsOK
  <2>6. /\ r.op \in {"update", "describe"} /\ r.id = t /\ r.field = field
        /\ r.value = value /\ r.st = "sent"
    BY <1>c
  <2> HIDE DEF r
  <2>7. Starts(i, r)
    BY <2>2 DEF r
  <2> QED BY <1>k, <2>1, <2>3, <2>5, <2>6, <2>7, KeepChosen
\* The description of an expanded row is chosen by Describe only.
<1>h. ASSUME NEW t \in Tasks, NEW field \in Fields \ {"desc"}, NEW value, Chooses(t, field, value),
             UNCHANGED ed, reason = "none"
      PROVE  Described'
  <2>1. chosen \in [Live -> RowsAt(acts, ids)] /\ Live' = Live
    BY <1>h, TableIs DEF TInv, TablesOK, Chooses, Live
  <2>2. ASSUME ed.task \in Live PROVE chosen'[ed.task].desc = chosen[ed.task].desc
    <3>1. CASE t \in Live
      <4>1. chosen' = [chosen EXCEPT ![t] = [chosen[t] EXCEPT ![field] = value]]
        BY <1>h, <3>1 DEF Chooses
      <4>2. [chosen[t] EXCEPT ![field] = value].desc = chosen[t].desc
        BY <1>h, <2>1, <3>1 DEF RowsAt, Fields
      <4> QED BY <2>1, <2>2, <4>1, <4>2
    <3>2. CASE t \notin Live
      BY <1>h, <3>2 DEF Chooses
    <3> QED BY <3>1, <3>2
  <2> QED BY <1>h, <1>k, <2>1, <2>2 DEF Described
<1>s. ASSUME NEW op \in Ops \ {"update", "describe"}, NEW id, NEW field, NEW value, Call(op, id, field, value)
      PROVE  Older /\ Kept
  <2>1. PICK i \in Slots, here \in BOOLEAN :
            Starts(i, [op |-> op, id |-> id, field |-> field, value |-> value,
                       st |-> "sent", here |-> here])
    BY <1>s, CallStarts
  <2> DEFINE r == [op |-> op, id |-> id, field |-> field, value |-> value, st |-> "sent", here |-> here]
  <2>2. r = reqs'[i]
    BY <1>r, <2>1 DEF Starts
  <2>3. r \in Req /\ r.op \notin {"update", "describe"}
    BY <1>s, <2>2 DEF TInv, ReqsOK
  <2> HIDE DEF r
  <2> QED BY <2>1, <2>3, OtherRequests DEF r
<1>1. ASSUME NEW t \in Tasks, ClickStatus(t) \/ PickFolder(t)
      PROVE  Single' /\ Owed' /\ Latest' /\ Drafted' /\ Described'
  <2>0. PICK field \in {"status", "folder"} : \E value : Update(t, field, value)
    BY <1>1 DEF ClickStatus, PickFolder
  <2>1. PICK value : Update(t, field, value)
    BY <2>0
  <2>2. UNCHANGED <<tasks, folders, ids, cached, edit, ed>>
    BY <1>1 DEF ClickStatus, PickFolder, rows
  <2>3. Chooses(t, field, value)
    BY <2>1, <2>2 DEF Update, Choose, Chooses
  <2>4. reason = "none" /\ Single' /\ Owed' /\ Latest'
    BY <1>c, <2>1, <2>2 DEF Update, Fields
  <2>5. Drafted'
    BY <1>d, <2>2, <2>4 DEF cached
  <2>6. Described'
    BY <1>h, <2>2, <2>3, <2>4 DEF Fields
  <2> QED BY <2>4, <2>5, <2>6
<1>2. ASSUME NEW t \in Tasks, TypeTitle(t)
      PROVE  Single' /\ Owed' /\ Latest' /\ Drafted' /\ Described'
  <2>1. /\ edit' = [task |-> t, typed |-> New, draft |-> New] /\ Acts /\ t \in DOMAIN list.data
        /\ UNCHANGED <<server, list, reqs, ed, reason>>
    BY <1>2 DEF TypeTitle, OnTasks, cached
  <2>2. list.data[t].title \in 0 .. acts + 1
    BY <2>1, ListedRow
  <2>3. list.data[t].title # New
    BY <1>f, <2>2 DEF New
  <2>4. Drafted'
    BY <2>1, <2>3 DEF Drafted
  <2> QED BY <1>e, <1>o, <2>1, <2>4, OtherRequests
<1>3. ASSUME NEW t \in Tasks, Expand(t)
      PROVE  Single' /\ Owed' /\ Latest' /\ Drafted' /\ Described'
  <2>1. /\ ed' = [task |-> t, shown |-> list.data[t].desc, made |-> list.data[t].desc # 0]
        /\ UNCHANGED <<server, list, reqs, edit>>
    BY <1>3 DEF Expand, cached
  <2>2. reason = "none" /\ ~(t \in Live /\ list.data[t].desc # chosen[t].desc)
    BY <1>3, <1>n DEF Expand
  <2>3. Described'
    BY <2>1, <2>2 DEF Described, server, Live
  <2> QED BY <1>d, <1>o, <2>1, <2>2, <2>3, OtherRequests
<1>4. ASSUME NEW t \in Tasks, ClickDelete(t)
      PROVE  Single' /\ Owed' /\ Latest' /\ Drafted' /\ Described'
  BY <1>4, <1>d, <1>e, <1>o, <1>s DEF ClickDelete, Ops, cached, rows
<1>5. CASE CommitTitle
  <2>1. /\ edit.task # None /\ edit' = NoEdit /\ UNCHANGED <<tasks, folders, ids, ed>>
        /\ Choose(edit.task, "title", edit.typed) /\ edit.task \in Tasks
    BY <1>5 DEF CommitTitle, TInv, RowsOK
  <2>2. reason = "none"
    BY <1>n, <2>1 DEF Choose
  <2>3. edit.draft = edit.typed /\ list.data[edit.task].title # edit.typed
    BY <1>k, <2>1, <2>2 DEF Drafted
  <2>4. Call("update", edit.task, "title", edit.typed)
    BY <1>5, <2>3 DEF CommitTitle
  <2>5. Single' /\ Owed' /\ Latest'
    BY <1>c, <2>1, <2>4 DEF Fields
  <2>6. Described'
    <3>1. Chooses(edit.task, "title", edit.typed)
      BY <2>1 DEF Choose, Chooses
    <3> QED BY <1>h, <2>1, <2>2, <3>1 DEF Fields
  <2> QED BY <1>x, <2>1, <2>5, <2>6
<1>6. CASE Escape
  <2>1. Older /\ Kept
    BY <1>6, OtherRequests DEF Escape
  <2> QED BY <1>6, <1>e, <1>o, <1>x, <2>1 DEF Escape
<1>7. CASE Collapse
  <2>1. Older /\ Kept
    BY <1>7, OtherRequests DEF Collapse
  <2> QED BY <1>7, <1>d, <1>o, <1>x, <2>1 DEF Collapse, cached
<1>8. CASE Describe
  <2>1. /\ ed.task \in Tasks /\ ed' = [ed EXCEPT !.shown = New]
        /\ Call("describe", ed.task, "desc", New) /\ Choose(ed.task, "desc", New)
        /\ list' = Invalidate(list, ListMounted)
        /\ UNCHANGED <<tasks, folders, ids, edit>>
    BY <1>8 DEF Describe, TInv, RowsOK
  <2>2. reason = "none" /\ Single' /\ Owed' /\ Latest'
    BY <1>c, <2>1 DEF Fields
  <2>3. Drafted'
    <3>1. list'.data = list.data
      BY <2>1, DataKept DEF ListMounted
    <3> QED BY <1>d, <2>1, <2>2, <3>1
  <2>4. Described'
    <3>1. ed'.task = ed.task /\ ed'.shown = New
      BY <2>1 DEF TInv, RowsOK
    <3>2. ASSUME ed.task \in Live PROVE chosen'[ed.task].desc = New
      <4>1. chosen' = [chosen EXCEPT ![ed.task] = [chosen[ed.task] EXCEPT !["desc"] = New]]
        BY <2>1, <3>2 DEF Choose
      <4>2. chosen \in [Live -> RowsAt(acts, ids)]
        BY TableIs DEF TInv, TablesOK
      <4>3. [chosen[ed.task] EXCEPT !["desc"] = New].desc = New
        BY <3>2, <4>2 DEF RowsAt
      <4> QED BY <3>2, <4>1, <4>2, <4>3
    <3> QED BY <2>1, <3>1, <3>2 DEF Described, Live
  <2> QED BY <2>2, <2>3, <2>4
<1>9. CASE ClickCreate
  BY <1>9, <1>d, <1>e, <1>o, <1>s DEF ClickCreate, Ops, cached, rows
<1>10. CASE OpenDialog \/ CloseDialog
  <2>1. Older /\ Kept
    BY <1>10, OtherRequests DEF OpenDialog, CloseDialog
  <2> QED BY <1>10, <1>d, <1>e, <1>o, <2>1 DEF OpenDialog, CloseDialog, cached, rows
<1>11. CASE SubmitDialog
  <2>1. Older /\ Kept
    BY <1>11, <1>s DEF SubmitDialog, Ops
  <2> QED BY <1>11, <1>d, <1>e, <1>o, <2>1 DEF SubmitDialog, cached, rows
<1>12. CASE DeleteInDialog
  BY <1>12, <1>d, <1>e, <1>o, <1>s DEF DeleteInDialog, Ops, cached, rows
<1>13. ASSUME NEW f \in Folders, DeleteHere(f)
       PROVE  Single' /\ Owed' /\ Latest' /\ Drafted' /\ Described'
  BY <1>13, <1>d, <1>e, <1>o, <1>s DEF DeleteHere, Ops, cached, rows
<1>14. ASSUME NEW p \in Pages, NEW elapsed \in BOOLEAN, Go(p, elapsed)
       PROVE  Single' /\ Owed' /\ Latest' /\ Drafted' /\ Described'
  <2>1. Older /\ Kept
    BY <1>14, OtherRequests DEF Go
  <2> QED BY <1>14, <1>o, <1>x, <2>1 DEF Go, Goto
<1>15. ASSUME NEW i \in Slots, Serve(i)
       PROVE  Single' /\ Owed' /\ Latest' /\ Drafted' /\ Described'
  BY <1>15, <1>d, <1>k, KeepServed DEF Serve, cached, rows
<1>16. ASSUME NEW i \in Slots, Fails(i) PROVE FALSE
  BY <1>16, <1>n DEF Fails
<1>17. ASSUME NEW i \in Slots, Succeeds(i)
       PROVE  Single' /\ Owed' /\ Latest' /\ Drafted' /\ Described'
  <2>1. reqs[i].st = "done" /\ UNCHANGED <<server, reason>>
    BY <1>17 DEF Succeeds
  <2>2. CASE /\ Refreshed(reqs[i].op) /\ reqs' = [reqs EXCEPT ![i] = NoReq]
             /\ UNCHANGED rows
    <3>1. Older /\ Kept
      BY <2>1, <2>2, OtherRequests DEF Drops
    <3>2. list'.data = list.data
      BY <2>2, DataKept DEF Refreshed, ListMounted
    <3> QED BY <1>d, <1>e, <1>o, <2>1, <2>2, <3>1, <3>2 DEF rows
  <2>3. CASE reqs' = Left([reqs EXCEPT ![i] = NoReq]) /\ edit' = NoEdit /\ ed' = NoEd
    <3>1. Older /\ Kept
      BY <2>1, <2>3, OtherRequests
    <3> QED BY <1>o, <1>x, <2>1, <2>3, <3>1
  <2> QED BY <1>17, <2>2, <2>3 DEF Succeeds
<1>18. CASE ReadTasks \/ ReadFolders \/ FoldersArrive
  <2>1. Older /\ Kept
    BY <1>18, OtherRequests DEF ReadTasks, ReadFolders, FoldersArrive
  <2>2. list'.data = list.data
    BY <1>18 DEF ReadTasks, ReadFolders, FoldersArrive, TInv, CachesOK, ListsAt
  <2> QED BY <1>18, <1>d, <1>e, <1>o, <2>1, <2>2 DEF ReadTasks, ReadFolders, FoldersArrive, rows
<1>19. CASE ListArrives
  <2>1. UNCHANGED <<server, reqs>> /\ list' = Stored(list)
    BY <1>19 DEF ListArrives
  <2>2. list'.data = list.answer
    BY <2>1 DEF Stored, TInv, CachesOK, ListsAt
  <2>3. reason = "none"
    BY <1>19, <1>n DEF ListArrives
  <2>4. ~(edit.task \in DOMAIN list.answer
            /\ list.answer[edit.task].title # list.data[edit.task].title)
    BY <1>19 DEF ListArrives, Note
  <2>5. ~(/\ ed.task \in DOMAIN list.answer /\ ~ed.made /\ list.answer[ed.task].desc # 0
          /\ list.answer[ed.task].desc # ed.shown)
    BY <1>19 DEF ListArrives, Note
  <2>6. Drafted'
    <3>1. edit' = NoEdit \/ (edit' = edit /\ edit.task \in DOMAIN list.answer)
      BY <1>19, <2>4 DEF ListArrives
    <3>2. CASE edit' = edit /\ edit.task \in DOMAIN list.answer
      BY <1>k, <2>2, <2>3, <2>4, <3>2 DEF Drafted
    <3> QED BY <1>x, <3>1, <3>2
  <2>7. Described'
    <3>1. ed' = IF ed.task \notin DOMAIN list.answer THEN NoEd
                ELSE IF ~ed.made /\ list.answer[ed.task].desc # 0
                     THEN [ed EXCEPT !.shown = list.answer[ed.task].desc, !.made = TRUE] ELSE ed
      BY <1>19 DEF ListArrives
    <3>2. CASE ed' = NoEd
      BY <1>x, <3>2
    <3>3. CASE ed'.task = ed.task /\ ed'.shown = ed.shown
      BY <1>k, <2>1, <2>3, <3>3 DEF Described, server, Live
    <3>4. ASSUME ed' = [ed EXCEPT !.shown = list.answer[ed.task].desc, !.made = TRUE],
                 list.answer[ed.task].desc = ed.shown
          PROVE  ed'.task = ed.task /\ ed'.shown = ed.shown
      BY <3>4 DEF TInv, RowsOK
    <3> QED BY <2>5, <3>1, <3>2, <3>3, <3>4
  <2> QED BY <1>o, <2>1, <2>3, <2>6, <2>7, OtherRequests
<1> QED BY <1>1, <1>2, <1>3, <1>4, <1>5, <1>6, <1>7, <1>8, <1>9, <1>10, <1>11, <1>12, <1>13, <1>14,
           <1>15, <1>16, <1>17, <1>18, <1>19 DEF Next, OnTaskPage, OnFolderPages, Answer

-----------------------------------------------------------------------------
(* The lists follow the tables *)

\* What the moves of a query leave of it.
QueryIs(q) ==
    /\ q.stale \in BOOLEAN /\ q.has \in BOOLEAN /\ q.late \in BOOLEAN /\ q.st \in Fetching
    /\ Fetch(q).data = q.data /\ Fetch(q).stale = q.stale /\ Fetch(q).st = "sent"
    /\ Fetch(q).has = q.has /\ (q.late /\ q.has => Fetch(q).late)
    /\ Cancel(q).data = q.data /\ Cancel(q).stale = q.stale /\ Cancel(q).st = "idle"
    /\ Cancel(q).has = q.has /\ (q.late /\ q.has => Cancel(q).late)
    /\ Stored(q).data = q.answer /\ Stored(q).stale = FALSE /\ Stored(q).st = "idle"
    /\ Stored(q).has = TRUE /\ (q.late /\ ~q.has => Stored(q).late)
    /\ \A mounted \in BOOLEAN :
        /\ Invalidate(q, mounted).data = q.data /\ Invalidate(q, mounted).stale = TRUE
        /\ Invalidate(q, mounted).has = q.has
        /\ mounted => /\ Invalidate(q, mounted).st # "idle"
                      /\ Invalidate(q, mounted).st = "read" =>
                            Invalidate(q, mounted).late /\ ~Invalidate(q, mounted).has
        /\ ~mounted => Invalidate(q, mounted).st = q.st

LEMMA AnyQuery ==
    ASSUME NEW T, NEW q \in [data : T, answer : T, has : BOOLEAN, stale : BOOLEAN, late : BOOLEAN,
                            st : Fetching]
    PROVE  QueryIs(q)
<1>1. /\ Fetch(q).data = q.data /\ Fetch(q).stale = q.stale /\ Fetch(q).st = "sent"
      /\ Fetch(q).has = q.has /\ (q.late /\ q.has => Fetch(q).late)
  BY DEF Fetch
<1>2. /\ Cancel(q).data = q.data /\ Cancel(q).stale = q.stale /\ Cancel(q).st = "idle"
      /\ Cancel(q).has = q.has /\ (q.late /\ q.has => Cancel(q).late)
  BY DEF Cancel
<1>3. /\ Stored(q).data = q.answer /\ Stored(q).stale = FALSE /\ Stored(q).st = "idle"
      /\ Stored(q).has = TRUE /\ (q.late /\ ~q.has => Stored(q).late)
  BY DEF Stored
<1>4. ASSUME NEW mounted \in BOOLEAN
      PROVE  /\ Invalidate(q, mounted).data = q.data /\ Invalidate(q, mounted).stale = TRUE
             /\ Invalidate(q, mounted).has = q.has
             /\ mounted => /\ Invalidate(q, mounted).st # "idle"
                           /\ Invalidate(q, mounted).st = "read" =>
                                 Invalidate(q, mounted).late /\ ~Invalidate(q, mounted).has
             /\ ~mounted => Invalidate(q, mounted).st = q.st
  <2>1. CASE mounted /\ (q.has \/ q.st = "idle")
    BY <2>1 DEF Invalidate, Fetch
  <2>2. CASE ~(mounted /\ (q.has \/ q.st = "idle"))
    BY <2>2 DEF Invalidate
  <2> QED BY <2>1, <2>2
<1> QED BY <1>1, <1>2, <1>3, <1>4 DEF QueryIs

LEMMA Queries ==
    ASSUME TInv
    PROVE  /\ list \in [data : TablesAt(acts, ids), answer : TablesAt(acts, ids),
                        has : BOOLEAN, stale : BOOLEAN, late : BOOLEAN, st : Fetching]
           /\ flist \in [data : SUBSET (Folders \ ids), answer : SUBSET (Folders \ ids),
                         has : BOOLEAN, stale : BOOLEAN, late : BOOLEAN, st : Fetching]
           /\ QueryIs(list) /\ QueryIs(flist)
<1>1. list \in [data : TablesAt(acts, ids), answer : TablesAt(acts, ids),
                has : BOOLEAN, stale : BOOLEAN, late : BOOLEAN, st : Fetching]
  BY DEF TInv, CachesOK, ListsAt
<1>2. flist \in [data : SUBSET (Folders \ ids), answer : SUBSET (Folders \ ids),
                 has : BOOLEAN, stale : BOOLEAN, late : BOOLEAN, st : Fetching]
  BY DEF TInv, CachesOK, FlistsAt
<1>3. QueryIs(list)
  BY <1>1, AnyQuery
<1>4. QueryIs(flist)
  BY <1>2, AnyQuery
<1> QED BY <1>1, <1>2, <1>3, <1>4

\* What is fetched while it is shown.
Follows(q, mounted) == IF mounted THEN q.stale => q.st # "idle" ELSE q.st = "idle"

LEMMA MountsFollow ==
    ASSUME NEW q, QueryIs(q), NEW mounted \in BOOLEAN, NEW elapsed \in BOOLEAN
    PROVE  /\ Follows(Mounts(q, mounted, elapsed), mounted)
           /\ Mounts(q, mounted, elapsed).data = q.data
           /\ Mounts(q, mounted, elapsed).stale = q.stale
           /\ Mounts(q, mounted, elapsed).has = q.has
           /\ q.late /\ q.has => Mounts(q, mounted, elapsed).late
           /\ Mounts(q, mounted, elapsed).st = "read" => Mounts(q, mounted, elapsed) = q
<1>1. CASE ~mounted
  BY <1>1 DEF QueryIs, Mounts, Follows
<1>2. CASE mounted
  BY <1>2 DEF QueryIs, Mounts, Follows
<1> QED BY <1>1, <1>2

\* A query that is invalidated is fetched again, or its first answer is late.
Again(q) == q.stale /\ (q.st = "read" => q.late /\ ~q.has)

LEMMA InvalidateFollows ==
    ASSUME NEW q, QueryIs(q), NEW mounted \in BOOLEAN, Follows(q, mounted)
    PROVE  /\ Follows(Invalidate(q, mounted), mounted)
           /\ Invalidate(q, mounted).data = q.data
           /\ Again(Invalidate(q, mounted))
<1>1. CASE mounted = TRUE
  BY <1>1 DEF QueryIs, Follows, Again
<1>2. CASE mounted = FALSE
  BY <1>2 DEF QueryIs, Follows, Again
<1> QED BY <1>1, <1>2

\* The folders page is entered with its list invalidated.
LEMMA EnteredFollows ==
    ASSUME TInv, NEW mounted \in BOOLEAN, Follows(flist, mounted)
    PROVE  /\ Follows(Mounts(Invalidate(flist, mounted), TRUE, FALSE), TRUE)
           /\ Again(Mounts(Invalidate(flist, mounted), TRUE, FALSE))
<1> DEFINE q == Invalidate(flist, mounted)
<1>1. q \in FlistsAt(ids)
  BY FlistMoves DEF TInv, CachesOK
<1>2. Again(q)
  BY Queries, InvalidateFollows
<1> HIDE DEF q
<1>3. QueryIs(q)
  BY <1>1, AnyQuery DEF FlistsAt
<1>4. /\ Follows(Mounts(q, TRUE, FALSE), TRUE) /\ Mounts(q, TRUE, FALSE).stale = q.stale
      /\ Mounts(q, TRUE, FALSE).st = "read" => Mounts(q, TRUE, FALSE) = q
  BY <1>3, MountsFollow
<1>5. Again(Mounts(q, TRUE, FALSE))
  BY <1>2, <1>4 DEF Again
<1> QED BY <1>4, <1>5 DEF q

LEMMA MountFollows ==
    MountInv <=> Follows(list, ListMounted) /\ Follows(flist, FoldersMounted)
BY DEF MountInv, Follows

LEMMA MountStep == TInv /\ MountInv /\ Next => MountInv'
<1> SUFFICES ASSUME TInv, MountInv, Next PROVE MountInv'
  OBVIOUS
<1>m. Follows(list, ListMounted) /\ Follows(flist, FoldersMounted)
  BY MountFollows
<1>q. ASSUME Follows(list', ListMounted'), Follows(flist', FoldersMounted') PROVE MountInv'
  BY <1>q DEF MountInv, Follows
<1>b. ListMounted \in BOOLEAN /\ FoldersMounted \in BOOLEAN
  BY DEF ListMounted, FoldersMounted
<1>u. UNCHANGED <<page, cached>> => MountInv'
  BY DEF MountInv, ListMounted, FoldersMounted, cached
<1>1. ASSUME NEW t \in Tasks, ClickStatus(t) \/ PickFolder(t) \/ TypeTitle(t) \/ Expand(t) \/ ClickDelete(t)
      PROVE  UNCHANGED <<page, cached>>
  BY <1>1 DEF ClickStatus, PickFolder, TypeTitle, Expand, ClickDelete
<1>2. CommitTitle \/ Escape \/ Collapse \/ ClickCreate \/ OpenDialog \/ CloseDialog \/ SubmitDialog \/ DeleteInDialog
        => UNCHANGED <<page, cached>>
  BY DEF CommitTitle, Escape, Collapse, ClickCreate, OpenDialog, CloseDialog, SubmitDialog, DeleteInDialog
<1>3. ASSUME NEW f \in Folders, DeleteHere(f) PROVE UNCHANGED <<page, cached>>
  BY <1>3 DEF DeleteHere
<1>4. CASE Describe
  <2>1. list' = Invalidate(list, ListMounted) /\ UNCHANGED <<page, flist>>
    BY <1>4 DEF Describe
  <2>2. Follows(list', ListMounted) /\ list'.data = list.data
    BY <1>b, <1>m, <2>1, Queries, InvalidateFollows
  <2> QED BY <1>m, <1>q, <2>1, <2>2 DEF ListMounted, FoldersMounted
<1>5. ASSUME NEW p \in Pages, NEW elapsed \in BOOLEAN, Go(p, elapsed) PROVE MountInv'
  <2>1. /\ page' = p /\ list' = Mounts(list, p = "tasks", elapsed)
        /\ flist' = Mounts(flist, p = "folders" \/ (p = "tasks" /\ DOMAIN list.data # {}), elapsed)
    BY <1>5 DEF Go, Goto
  <2> DEFINE one == p = "tasks"
             two == p = "folders" \/ (p = "tasks" /\ DOMAIN list.data # {})
  <2>2. one \in BOOLEAN /\ two \in BOOLEAN
    OBVIOUS
  <2>3. list' = Mounts(list, one, elapsed) /\ flist' = Mounts(flist, two, elapsed)
    BY <2>1
  <2> HIDE DEF one, two
  <2>4. Follows(list', one) /\ Follows(flist', two) /\ list'.data = list.data
    BY <2>2, <2>3, Queries, MountsFollow
  <2> QED BY <1>q, <2>1, <2>4 DEF ListMounted, FoldersMounted, one, two
<1>6. ASSUME NEW i \in Slots, Serve(i) \/ Fails(i) PROVE UNCHANGED <<page, cached>>
  BY <1>6 DEF Serve, Fails
<1>7. ASSUME NEW i \in Slots, Succeeds(i) PROVE MountInv'
  <2>1. CASE Refreshed(reqs[i].op) /\ UNCHANGED page
    <3>1. Follows(list', ListMounted) /\ list'.data = list.data
      BY <1>b, <1>m, <2>1, Queries, InvalidateFollows DEF Refreshed
    <3>2. Follows(flist', FoldersMounted)
      BY <1>b, <1>m, <2>1, Queries, InvalidateFollows DEF Refreshed
    <3> QED BY <1>q, <2>1, <3>1, <3>2 DEF ListMounted, FoldersMounted
  <2>2. CASE /\ page' = "folders" /\ list' = Cancel(list)
             /\ flist' = Mounts(Invalidate(flist, FoldersMounted), TRUE, FALSE)
    <3>1. list'.st = "idle"
      BY <2>2, Queries DEF QueryIs
    <3>2. Follows(flist', TRUE)
      BY <1>b, <1>m, <2>2, EnteredFollows
    <3> QED BY <1>q, <2>2, <3>1, <3>2 DEF ListMounted, FoldersMounted, Follows
  <2> QED BY <1>7, <2>1, <2>2 DEF Succeeds
<1>8. CASE ReadTasks
  <2>1. /\ list.st = "sent" /\ list' = [list EXCEPT !.st = "read", !.answer = tasks]
        /\ UNCHANGED <<page, flist>>
    BY <1>8 DEF ReadTasks
  <2>2. list'.st = "read" /\ list'.data = list.data
    BY <2>1, Queries
  <2>3. ListMounted
    BY <1>m, <2>1 DEF Follows
  <2> QED BY <1>m, <1>q, <2>1, <2>2, <2>3 DEF Follows, ListMounted, FoldersMounted
<1>9. CASE ReadFolders
  <2>1. /\ flist.st = "sent" /\ flist' = [flist EXCEPT !.st = "read", !.answer = folders]
        /\ UNCHANGED <<page, list>>
    BY <1>9 DEF ReadFolders
  <2>2. flist'.st = "read"
    BY <2>1, Queries
  <2>3. FoldersMounted
    BY <1>m, <2>1 DEF Follows
  <2> QED BY <1>m, <1>q, <2>1, <2>2, <2>3 DEF Follows, ListMounted, FoldersMounted
<1>10. CASE ListArrives
  <2>1. list.st = "read" /\ list' = Stored(list) /\ UNCHANGED page
    BY <1>10 DEF ListArrives
  <2>2. list'.data = list.answer /\ list'.stale = FALSE
    BY <2>1, Queries DEF QueryIs
  <2>3. page = "tasks"
    BY <1>m, <2>1 DEF Follows, ListMounted
  <2>4. flist' = IF /\ DOMAIN list.answer \ DOMAIN list.data # {}
                    /\ flist.st = "idle" /\ flist.stale
                 THEN Fetch(flist)
                 ELSE IF DOMAIN list.answer = {} THEN Cancel(flist) ELSE flist
    BY <1>10 DEF ListArrives
  <2>5. FoldersMounted' <=> DOMAIN list.answer # {}
    BY <2>1, <2>2, <2>3 DEF FoldersMounted
  <2>6. FoldersMounted <=> DOMAIN list.data # {}
    BY <2>3 DEF FoldersMounted
  <2>7. Follows(flist', FoldersMounted')
    <3>1. CASE DOMAIN list.answer = {}
      BY <2>4, <2>5, <3>1, Queries DEF QueryIs, Follows
    <3>2. CASE DOMAIN list.answer # {} /\ flist' = Fetch(flist)
      BY <2>5, <3>2, Queries DEF QueryIs, Follows
    <3>3. CASE /\ DOMAIN list.answer # {} /\ flist' = flist
               /\ ~(/\ DOMAIN list.answer \ DOMAIN list.data # {}
                    /\ flist.st = "idle" /\ flist.stale)
      <4>1. CASE DOMAIN list.data = {}
        <5>1. flist.st = "idle"
          BY <1>m, <2>6, <4>1 DEF Follows
        <5>2. DOMAIN list.answer \ DOMAIN list.data # {}
          BY <3>3, <4>1
        <5> QED BY <2>5, <3>3, <5>1, <5>2 DEF Follows
      <4>2. CASE DOMAIN list.data # {}
        BY <1>m, <2>5, <2>6, <3>3, <4>2 DEF Follows
      <4> QED BY <4>1, <4>2
    <3> QED BY <2>4, <3>1, <3>2, <3>3
  <2> QED BY <1>q, <2>1, <2>2, <2>3, <2>7 DEF Follows, ListMounted
<1>11. CASE FoldersArrive
  <2>1. flist.st = "read" /\ flist' = Stored(flist) /\ UNCHANGED <<page, list>>
    BY <1>11 DEF FoldersArrive
  <2>2. flist'.stale = FALSE
    BY <2>1, Queries DEF QueryIs
  <2>3. FoldersMounted
    BY <1>m, <2>1 DEF Follows
  <2> QED BY <1>m, <1>q, <2>1, <2>2, <2>3 DEF Follows, ListMounted, FoldersMounted
<1> QED BY <1>u, <1>1, <1>2, <1>3, <1>4, <1>5, <1>6, <1>7, <1>8, <1>9, <1>10, <1>11
    DEF Next, OnTaskPage, OnFolderPages, Answer

\* Changes that are done stay until they are answered.
LEMMA DoneKept ==
    ASSUME TInv, NEW op,
           \/ UNCHANGED reqs
           \/ \E i \in Slots, r \in Req : Starts(i, r)
           \/ \E i \in Slots, st \in {"done", "error"} : reqs[i].st = "sent" /\ Moves(i, st)
           \/ \E i \in Slots : (reqs[i].op # op \/ reqs[i].st # "done") /\ Drops(i)
           \/ reqs' = Left(reqs)
           \/ \E i \in Slots : (reqs[i].op # op \/ reqs[i].st # "done")
                               /\ reqs' = Left([reqs EXCEPT ![i] = NoReq]),
           Changes(op)
    PROVE  Changes(op)'
<1>0. reqs \in [Slots -> Req]
  BY DEF TInv, ReqsOK
<1>1. PICK j \in Slots : reqs[j].st = "done" /\ reqs[j].op = op
  BY DEF Changes
<1>2. CASE UNCHANGED reqs
  BY <1>1, <1>2 DEF Changes
<1>3. ASSUME NEW i \in Slots, NEW r \in Req, Starts(i, r) PROVE Changes(op)'
  BY <1>0, <1>1, <1>3 DEF Starts, Changes
<1>4. ASSUME NEW i \in Slots, NEW st \in {"done", "error"}, reqs[i].st = "sent", Moves(i, st)
      PROVE  Changes(op)'
  BY <1>0, <1>1, <1>4 DEF Moves, Changes
<1>5. ASSUME NEW i \in Slots, reqs[i].op # op \/ reqs[i].st # "done"
      PROVE  /\ [reqs EXCEPT ![i] = NoReq] \in [Slots -> Req]
             /\ [reqs EXCEPT ![i] = NoReq][j] = reqs[j]
  BY <1>0, <1>1, <1>5, NoReqSound
<1>6. ASSUME NEW i \in Slots, reqs[i].op # op \/ reqs[i].st # "done", Drops(i) PROVE Changes(op)'
  BY <1>1, <1>5, <1>6 DEF Drops, Changes
<1>7. CASE reqs' = Left(reqs)
  BY <1>0, <1>1, <1>7, LeftIs DEF Changes
<1>8. ASSUME NEW i \in Slots, reqs[i].op # op \/ reqs[i].st # "done",
             reqs' = Left([reqs EXCEPT ![i] = NoReq])
      PROVE  Changes(op)'
  <2> DEFINE rs == [reqs EXCEPT ![i] = NoReq]
  <2>1. rs \in [Slots -> Req] /\ rs[j] = reqs[j]
    BY <1>5, <1>8
  <2> HIDE DEF rs
  <2>2. reqs'[j].op = rs[j].op /\ reqs'[j].st = rs[j].st
    BY <1>8, <2>1, LeftIs DEF rs
  <2> QED BY <1>1, <2>1, <2>2 DEF Changes
<1> QED BY <1>2, <1>3, <1>4, <1>6, <1>7, <1>8

\* A table that was current is, unless a change of the tasks is done meanwhile.
LEMMA CurrentServed ==
    ASSUME TInv, NEW i \in Slots, Serve(i), NEW table \in TablesAt(acts, ids), Current(table)
    PROVE  Current(table)' \/ TasksDue'
<1> DEFINE r == reqs[i]
<1>0. reqs \in [Slots -> Req] /\ r \in Req /\ Sound(r, acts, ids) /\ r.st = "sent"
  BY DEF TInv, ReqsOK, Serve
<1>t. /\ \A t \in Live : tasks[t] \in RowsAt(acts, ids)
      /\ \A t \in DOMAIN table : table[t] \in RowsAt(acts, ids)
      /\ acts \in Nat /\ ids \in SUBSET (Tasks \cup Folders)
  BY TableIs, TasksAssumption DEF TInv, TablesOK, RowsOK, Live
<1>c. DOMAIN table = Live
  BY DEF Current
<1>1. CASE ~Allowed(r)
  BY <1>1 DEF Serve, Current, server, Live
<1>2. CASE Allowed(r) /\ Write(r) /\ reqs' = [reqs EXCEPT ![i].st = "done"]
  <2>1. CASE r.op \in {"update", "createTask", "deleteTask"}
    <3>1. reqs'[i].st = "done" /\ reqs'[i].op = r.op
      BY <1>0, <1>2 DEF Req
    <3> QED BY <2>1, <3>1 DEF TasksDue, Changes
  <2>2. CASE r.op = "describe"
    <3>1. /\ tasks' = [tasks EXCEPT ![r.id] = Written(@, r.field, r.value)]
          /\ UNCHANGED folders /\ r.field = "desc" /\ r.id \in Live
      BY <1>0, <1>2, <2>2 DEF Write, Sound, Allowed
    <3>2. \A t \in Live : tasks'[t].folder = tasks[t].folder
      <4>1. Written(tasks[r.id], r.field, r.value).folder = tasks[r.id].folder
        BY <1>t, <3>1 DEF Written, RowsAt
      <4> QED BY <3>1, <4>1 DEF Live
    <3> QED BY <3>1, <3>2 DEF Current, Live
  <2>3. CASE r.op = "createFolder"
    <3>1. PICK f \in Folders \cap ids : folders' = folders \cup {f}
      BY <1>2, <2>3 DEF Write
    <3>2. UNCHANGED tasks
      BY <1>2, <2>3 DEF Write
    <3>3. \A t \in DOMAIN table : table[t].folder # f
      BY <1>t, <3>1 DEF RowsAt
    <3> QED BY <1>c, <3>1, <3>2, <3>3 DEF Current, Live
  <2>4. CASE r.op = "updateFolder"
    BY <1>2, <2>4 DEF Write, Current, server, Live
  <2>5. CASE r.op \in {"deleteFolder", "deleteHere"}
    <3>1. folders' = folders \ {r.id} /\ tasks' = [t \in Live |-> Without(r.id, tasks[t])]
      BY <1>2, <2>5 DEF Write
    <3>2. \A t \in Live : tasks'[t].folder = IF tasks[t].folder = r.id THEN None ELSE tasks[t].folder
      BY <1>t, <3>1, WithoutAt
    <3>3. Live' = Live
      BY <3>1 DEF Live
    <3> QED BY <3>1, <3>2, <3>3 DEF Current
  <2>6. r.op \in Ops
    BY <1>0 DEF Req, Sound
  <2> QED BY <2>1, <2>2, <2>3, <2>4, <2>5, <2>6 DEF Ops
<1> QED BY <1>1, <1>2 DEF Serve

LEMMA FoldersServed ==
    ASSUME TInv, NEW i \in Slots, Serve(i) PROVE folders' = folders \/ FoldersDue'
<1> DEFINE r == reqs[i]
<1>0. reqs \in [Slots -> Req] /\ r \in Req /\ r.st = "sent"
  BY DEF TInv, ReqsOK, Serve
<1>1. CASE ~Allowed(r)
  BY <1>1 DEF Serve, server
<1>2. CASE Allowed(r) /\ Write(r) /\ reqs' = [reqs EXCEPT ![i].st = "done"]
  <2>1. reqs'[i].st = "done" /\ reqs'[i].op = r.op
    BY <1>0, <1>2 DEF Req
  <2>2. CASE r.op \in {"createFolder", "deleteFolder", "deleteHere"}
    BY <2>1, <2>2 DEF FoldersDue, Changes
  <2>3. CASE r.op \notin {"createFolder", "deleteFolder", "deleteHere"}
    BY <1>2, <2>3 DEF Write, server
  <2> QED BY <2>2, <2>3
<1> QED BY <1>1, <1>2 DEF Serve

\* What is shown stays, with what is known of it, or will be fetched.
Moved(q, new) ==
    \/ /\ new.data = q.data /\ new.stale = q.stale /\ new.has = q.has
       /\ q.late /\ q.has => new.late
       /\ new.st = "read" => new = q
    \/ Again(new)

LEMMA FollowStep ==
    TInv /\ MountInv /\ ListInv /\ FlistInv /\ Next /\ reason' # "answerLost" => ListInv' /\ FlistInv'
<1> SUFFICES ASSUME TInv, MountInv, ListInv, FlistInv, Next, reason' # "answerLost"
             PROVE  ListInv' /\ FlistInv'
  OBVIOUS
<1>m. Follows(list, ListMounted) /\ Follows(flist, FoldersMounted)
  BY MountFollows
<1>b. ListMounted \in BOOLEAN /\ FoldersMounted \in BOOLEAN
  BY DEF ListMounted, FoldersMounted
\* No change that is done is answered, and the tables stay.
<1> DEFINE Same == \A op \in Ops : Changes(op) => Changes(op)'
<1>s. ASSUME Same PROVE (TasksDue => TasksDue') /\ (FoldersDue => FoldersDue')
  BY <1>s DEF TasksDue, FoldersDue, Ops
<1>t. ASSUME UNCHANGED <<tasks, folders>>, TasksDue => TasksDue',
             Moved(list, list')
      PROVE  ListInv'
  BY <1>t, Queries DEF ListInv, Moved, Again, QueryIs, Current, Live
<1>f. ASSUME UNCHANGED folders, FoldersDue => FoldersDue',
             Moved(flist, flist')
      PROVE  FlistInv'
  BY <1>f, Queries DEF FlistInv, Moved, Again, QueryIs
<1>w. (UNCHANGED list => Moved(list, list')) /\ (UNCHANGED flist => Moved(flist, flist'))
  BY DEF Moved
<1>u. ASSUME UNCHANGED <<server, cached>>, Same PROVE ListInv' /\ FlistInv'
  BY <1>u, <1>s, <1>t, <1>f, <1>w DEF server, cached
<1>c. ASSUME NEW op \in Ops, NEW id, NEW field, NEW value, Call(op, id, field, value), TInv' PROVE Same
  <2>1. PICK i \in Slots, here \in BOOLEAN :
            Starts(i, [op |-> op, id |-> id, field |-> field, value |-> value,
                       st |-> "sent", here |-> here])
    BY <1>c, CallStarts
  <2> DEFINE r == [op |-> op, id |-> id, field |-> field, value |-> value, st |-> "sent", here |-> here]
  <2>2. r = reqs'[i]
    BY <2>1 DEF Starts, TInv, ReqsOK
  <2>3. r \in Req
    BY <1>c, <2>2 DEF TInv, ReqsOK
  <2> HIDE DEF r
  <2> QED BY <2>1, <2>3, DoneKept DEF r
<1>i. TInv'
  BY TypeStep
<1>e. UNCHANGED reqs => Same
  BY DoneKept
<1>1. ASSUME NEW t \in Tasks, ClickStatus(t) \/ PickFolder(t) PROVE ListInv' /\ FlistInv'
  <2>1. UNCHANGED <<tasks, folders, cached>> /\ \E field, value : Update(t, field, value)
    BY <1>1 DEF ClickStatus, PickFolder
  <2>2. Same
    BY <1>c, <1>i, <2>1 DEF Update, Ops
  <2> QED BY <1>s, <1>t, <1>f, <1>w, <2>1, <2>2 DEF cached
<1>2. ASSUME NEW t \in Tasks, TypeTitle(t) \/ Expand(t) PROVE ListInv' /\ FlistInv'
  BY <1>2, <1>e, <1>u DEF TypeTitle, Expand
<1>3. ASSUME NEW t \in Tasks, ClickDelete(t) PROVE ListInv' /\ FlistInv'
  BY <1>3, <1>c, <1>i, <1>u DEF ClickDelete, Ops
<1>4. CASE CommitTitle
  <2>1. UNCHANGED <<tasks, folders, cached>>
    BY <1>4 DEF CommitTitle
  <2>2. Same
    BY <1>4, <1>c, <1>e, <1>i DEF CommitTitle, Ops
  <2> QED BY <1>s, <1>t, <1>f, <1>w, <2>1, <2>2 DEF cached
<1>5. CASE Escape \/ Collapse \/ OpenDialog \/ CloseDialog
  BY <1>5, <1>e, <1>u DEF Escape, Collapse, OpenDialog, CloseDialog
<1>6. CASE Describe
  <2>1. UNCHANGED <<tasks, folders, flist>> /\ list' = Invalidate(list, ListMounted)
    BY <1>6 DEF Describe
  <2>2. Same
    BY <1>6, <1>c, <1>i DEF Describe, Ops
  <2>3. Moved(list, list')
    BY <1>b, <1>m, <2>1, Queries, InvalidateFollows DEF Moved
  <2> QED BY <1>s, <1>t, <1>f, <1>w, <2>1, <2>2, <2>3
<1>7. CASE ClickCreate
  BY <1>7, <1>c, <1>i, <1>u DEF ClickCreate, Ops
<1>8. CASE SubmitDialog
  <2>1. Same
    BY <1>8, <1>c, <1>i DEF SubmitDialog, Ops
  <2> QED BY <1>8, <1>u, <2>1 DEF SubmitDialog
<1>9. CASE DeleteInDialog
  BY <1>9, <1>c, <1>i, <1>u DEF DeleteInDialog, Ops
<1>10. ASSUME NEW f \in Folders, DeleteHere(f) PROVE ListInv' /\ FlistInv'
  BY <1>10, <1>c, <1>i, <1>u DEF DeleteHere, Ops
<1>11. ASSUME NEW p \in Pages, NEW elapsed \in BOOLEAN, Go(p, elapsed) PROVE ListInv' /\ FlistInv'
  <2>1. /\ list' = Mounts(list, p = "tasks", elapsed)
        /\ flist' = Mounts(flist, p = "folders" \/ (p = "tasks" /\ DOMAIN list.data # {}), elapsed)
        /\ UNCHANGED server /\ reqs' = Left(reqs)
    BY <1>11 DEF Go, Goto
  <2> DEFINE one == p = "tasks"
             two == p = "folders" \/ (p = "tasks" /\ DOMAIN list.data # {})
  <2>2. one \in BOOLEAN /\ two \in BOOLEAN
    OBVIOUS
  <2>3. list' = Mounts(list, one, elapsed) /\ flist' = Mounts(flist, two, elapsed)
    BY <2>1
  <2> HIDE DEF one, two
  <2>4. Moved(list, list') /\ Moved(flist, flist')
    BY <2>2, <2>3, Queries, MountsFollow DEF Moved
  <2>5. Same
    BY <2>1, DoneKept
  <2> QED BY <1>s, <1>t, <1>f, <2>1, <2>4, <2>5 DEF server
<1>12. ASSUME NEW i \in Slots, Serve(i) PROVE ListInv' /\ FlistInv'
  <2>1. UNCHANGED <<list, flist>>
    BY <1>12 DEF Serve, cached
  <2>2. Same
    <3>1. PICK st \in {"done", "error"} : reqs[i].st = "sent" /\ Moves(i, st)
      BY <1>12 DEF Serve, Moves
    <3> QED BY <3>1, DoneKept
  <2>3. \A table \in TablesAt(acts, ids) : Current(table) => Current(table)' \/ TasksDue'
    BY <1>12, CurrentServed
  <2>4. list.data \in TablesAt(acts, ids) /\ list.answer \in TablesAt(acts, ids)
    BY Queries
  <2>5. ListInv'
    <3>1. Current(list.data) => Current(list.data)' \/ TasksDue'
      BY <2>3, <2>4, <2>1
    <3>2. Current(list.answer) => Current(list.answer)' \/ TasksDue'
      BY <2>3, <2>4, <2>1
    <3> QED BY <1>s, <2>1, <2>2, <3>1, <3>2 DEF ListInv
  <2>6. FlistInv'
    BY <1>12, <1>s, <2>1, <2>2, FoldersServed DEF FlistInv
  <2> QED BY <2>5, <2>6
<1>13. ASSUME NEW i \in Slots, Fails(i) PROVE ListInv' /\ FlistInv'
  <2>1. reqs[i].st # "done" /\ Drops(i) /\ UNCHANGED <<server, cached>>
    BY <1>13 DEF Fails, Drops
  <2>2. Same
    BY <2>1, DoneKept
  <2> QED BY <1>u, <2>1, <2>2
<1>14. ASSUME NEW i \in Slots, Succeeds(i) PROVE ListInv' /\ FlistInv'
  <2>1. UNCHANGED server /\ reqs[i].st = "done"
    BY <1>14 DEF Succeeds
  <2>2. \A op \in Ops \ {reqs[i].op} : Changes(op) => Changes(op)'
    <3>1. Drops(i) \/ reqs' = Left([reqs EXCEPT ![i] = NoReq])
      BY <1>14 DEF Succeeds, Drops
    <3> QED BY <3>1, DoneKept
  <2>3. reqs[i].op \notin {"update", "createTask", "deleteTask"} => (TasksDue => TasksDue')
    BY <2>2 DEF TasksDue, Ops
  <2>4. reqs[i].op \notin {"createFolder", "deleteFolder", "deleteHere"} => (FoldersDue => FoldersDue')
    BY <2>2 DEF FoldersDue, Ops
  <2>5. CASE Refreshed(reqs[i].op)
    <3>1. ListInv'
      <4>1. CASE reqs[i].op \in {"update", "createTask", "deleteTask"}
        <5>1. list' = Invalidate(list, ListMounted)
          BY <2>5, <4>1 DEF Refreshed
        <5>2. Again(list')
          BY <1>b, <1>m, <5>1, Queries, InvalidateFollows
        <5> QED BY <5>2 DEF ListInv, Again
      <4>2. CASE reqs[i].op \notin {"update", "createTask", "deleteTask"}
        BY <1>t, <1>w, <2>1, <2>3, <2>5, <4>2 DEF Refreshed, server
      <4> QED BY <4>1, <4>2
    <3>2. FlistInv'
      <4>1. CASE reqs[i].op \in {"describe", "createTask"}
        BY <1>f, <1>w, <2>1, <2>4, <2>5, <4>1 DEF Refreshed, server
      <4>2. CASE reqs[i].op \notin {"describe", "createTask"}
        <5>1. flist' = Invalidate(flist, FoldersMounted)
          BY <2>5, <4>2 DEF Refreshed
        <5>2. Again(flist')
          BY <1>b, <1>m, <5>1, Queries, InvalidateFollows
        <5> QED BY <5>2 DEF FlistInv, Again
      <4> QED BY <4>1, <4>2
    <3> QED BY <3>1, <3>2
  <2>6. CASE /\ reqs[i].op = "deleteHere" /\ list' = Cancel(list)
             /\ flist' = Mounts(Invalidate(flist, FoldersMounted), TRUE, FALSE)
    <3>1. Moved(list, list')
      BY <2>6, Queries DEF QueryIs, Moved
    <3>2. ListInv'
      BY <1>t, <2>1, <2>3, <2>6, <3>1 DEF server
    <3>3. Again(flist')
      BY <1>b, <1>m, <2>6, EnteredFollows
    <3> QED BY <3>2, <3>3 DEF FlistInv, Again
  <2> QED BY <1>14, <2>5, <2>6 DEF Succeeds
<1>15. CASE ReadTasks
  <2>1. /\ list' = [list EXCEPT !.st = "read", !.answer = tasks] /\ UNCHANGED <<server, flist, reqs>>
    BY <1>15 DEF ReadTasks
  <2>2. /\ list'.data = list.data /\ list'.stale = list.stale /\ list'.answer = tasks
        /\ list'.has = list.has /\ list'.late = list.late
    BY <2>1, Queries
  <2>3. Same
    BY <1>e, <2>1
  <2>4. Current(tasks)
    BY DEF Current, Live
  <2>5. ListInv'
    BY <1>s, <2>1, <2>2, <2>3, <2>4 DEF ListInv, Current, server, Live
  <2> QED BY <1>s, <1>f, <1>w, <2>1, <2>3, <2>5 DEF server
<1>16. CASE ReadFolders
  <2>1. /\ flist' = [flist EXCEPT !.st = "read", !.answer = folders] /\ UNCHANGED <<server, list, reqs>>
    BY <1>16 DEF ReadFolders
  <2>2. /\ flist'.data = flist.data /\ flist'.stale = flist.stale /\ flist'.answer = folders
        /\ flist'.has = flist.has /\ flist'.late = flist.late
    BY <2>1, Queries
  <2>3. Same
    BY <1>e, <2>1
  <2>4. FlistInv'
    BY <1>s, <2>1, <2>2, <2>3 DEF FlistInv, server
  <2> QED BY <1>s, <1>t, <1>w, <2>1, <2>3, <2>4 DEF server
<1>17. CASE ListArrives
  <2>1. /\ list.st = "read" /\ list' = Stored(list) /\ UNCHANGED <<server, reqs>>
        /\ flist' \in {flist, Fetch(flist), Cancel(flist)}
    BY <1>17 DEF ListArrives
  <2>2. /\ list'.data = list.answer /\ list'.st = "idle"
        /\ list'.has = TRUE /\ (list.late /\ ~list.has => list'.late)
    BY <2>1, Queries DEF QueryIs
  <2>3. Same
    BY <1>e, <2>1
  <2>4. ListInv'
    BY <1>s, <2>1, <2>2, <2>3 DEF ListInv, Current, server, Live
  <2>5. Moved(flist, flist')
    BY <2>1, Queries DEF QueryIs, Moved
  <2> QED BY <1>s, <1>f, <2>1, <2>3, <2>4, <2>5 DEF server
<1>18. CASE FoldersArrive
  <2>1. /\ flist.st = "read" /\ flist' = Stored(flist) /\ UNCHANGED <<server, list, reqs>>
    BY <1>18 DEF FoldersArrive
  <2>2. /\ flist'.data = flist.answer /\ flist'.st = "idle"
        /\ flist'.has = TRUE /\ (flist.late /\ ~flist.has => flist'.late)
    BY <2>1, Queries DEF QueryIs
  <2>3. Same
    BY <1>e, <2>1
  <2>4. FlistInv'
    BY <1>s, <2>1, <2>2, <2>3 DEF FlistInv, server
  <2> QED BY <1>s, <1>t, <1>w, <2>1, <2>3, <2>4 DEF server
<1> QED BY <1>1, <1>2, <1>3, <1>4, <1>5, <1>6, <1>7, <1>8, <1>9, <1>10, <1>11, <1>12, <1>13, <1>14,
           <1>15, <1>16, <1>17, <1>18 DEF Next, OnTaskPage, OnFolderPages, Answer

-----------------------------------------------------------------------------
(* The invariant and what follows from it *)

LEMMA InvInit == Init => IInv
<1> SUFFICES ASSUME Init PROVE IInv
  OBVIOUS
<1>1. TInv
  BY TypeInit
<1>2. \A i \in Slots : reqs[i].op = "idle"
  BY DEF Init, NoReq
<1>3. Single /\ Latest
  BY <1>2 DEF Single, Latest, Changing
<1>4. Owed
  BY DEF Init, Owed
<1>5. Drafted /\ Described
  BY TasksAssumption, <1>1, TableIs DEF Init, Drafted, Described, NoEdit, NoEd, TInv, TablesOK, Live
<1>6. list.stale = TRUE /\ list.st = "sent" /\ flist.stale = TRUE /\ flist.st = "idle" /\ list.data = NoRows
  BY DEF Init, NoQuery, Fetch
<1>7. page = "tasks" /\ DOMAIN list.data = {}
  BY <1>6 DEF Init, NoRows
<1>8. MountInv
  BY <1>6, <1>7 DEF MountInv, ListMounted, FoldersMounted
<1>9. ListInv /\ FlistInv
  BY <1>6 DEF ListInv, FlistInv
<1> QED BY <1>1, <1>3, <1>4, <1>5, <1>8, <1>9 DEF IInv, KeepInv, ShowInv

LEMMA InvStep == IInv /\ [Next]_vars => IInv'
<1>1. ASSUME IInv, Next PROVE IInv'
  <2>1. TInv /\ TInv' /\ KeepInv /\ MountInv
    BY <1>1, TypeStep DEF IInv, ShowInv
  <2>2. KeepInv' /\ MountInv'
    BY <1>1, <2>1, KeepStep, MountStep
  <2>3. ASSUME reason' # "answerLost" PROVE reason # "answerLost"
    <3>1. ASSUME NEW cond, NEW why, Note(cond, why) PROVE reason # "answerLost"
      BY <2>3, <3>1 DEF Note
    <3>2. UNCHANGED reason => reason # "answerLost"
      BY <2>3
    <3>3. ASSUME NEW t \in Tasks, ClickStatus(t) \/ PickFolder(t) \/ TypeTitle(t) \/ Expand(t) \/ ClickDelete(t)
          PROVE  reason # "answerLost"
      BY <3>1, <3>2, <3>3 DEF ClickStatus, PickFolder, TypeTitle, Expand, ClickDelete, Update, Choose
    <3>4. CommitTitle \/ Escape \/ Collapse \/ Describe \/ ClickCreate => reason # "answerLost"
      BY <3>1, <3>2 DEF CommitTitle, Escape, Collapse, Describe, ClickCreate, Choose
    <3>5. OpenDialog \/ CloseDialog \/ SubmitDialog \/ DeleteInDialog => reason # "answerLost"
      BY <3>2 DEF OpenDialog, CloseDialog, SubmitDialog, DeleteInDialog
    <3>6. ASSUME NEW f \in Folders, DeleteHere(f) PROVE reason # "answerLost"
      BY <3>2, <3>6 DEF DeleteHere
    <3>7. ASSUME NEW p \in Pages, NEW elapsed \in BOOLEAN, Go(p, elapsed) PROVE reason # "answerLost"
      BY <3>2, <3>7 DEF Go
    <3>8. ASSUME NEW i \in Slots, Serve(i) \/ Answer(i) PROVE reason # "answerLost"
      <4>1. CASE Fails(i)
        BY <2>3, <3>1, <4>1 DEF Fails
      <4> QED BY <3>2, <3>8, <4>1 DEF Serve, Answer, Succeeds
    <3>9. ReadTasks \/ ReadFolders \/ ListArrives \/ FoldersArrive => reason # "answerLost"
      BY <3>1, <3>2 DEF ReadTasks, ReadFolders, ListArrives, FoldersArrive
    <3> QED BY <1>1, <3>3, <3>4, <3>5, <3>6, <3>7, <3>8, <3>9 DEF Next, OnTaskPage, OnFolderPages
  <2>4. reason' # "answerLost" => ListInv' /\ FlistInv'
    BY <1>1, <2>1, <2>3, FollowStep DEF IInv, ShowInv
  <2> QED BY <2>1, <2>2, <2>4 DEF IInv, ShowInv
<1>2. ASSUME IInv, UNCHANGED vars PROVE IInv'
  <2>1. TInv'
    BY <1>2, TypeStep DEF IInv
  <2>2. KeepInv'
    BY <1>2 DEF IInv, KeepInv, Single, Owed, Latest, Drafted, Described, Live, vars, server, cached, rows
  <2>3. ShowInv'
    <3>1. MountInv'
      BY <1>2 DEF IInv, ShowInv, MountInv, ListMounted, FoldersMounted, vars, cached
    <3>2. (TasksDue => TasksDue') /\ (FoldersDue => FoldersDue')
      BY <1>2 DEF TasksDue, FoldersDue, Changes, vars
    <3>3. (Current(list.data) => Current(list.data)') /\ (Current(list.answer) => Current(list.answer)')
      BY <1>2 DEF Current, Live, vars, server, cached
    <3> QED BY <1>2, <3>1, <3>2, <3>3 DEF IInv, ShowInv, ListInv, FlistInv, vars, server, cached
  <2> QED BY <2>1, <2>2, <2>3 DEF IInv
<1> QED BY <1>1, <1>2

THEOREM InvHolds == Spec => []IInv
BY InvInit, InvStep, PTL DEF Spec

\* Every variable keeps its type: rows, cached lists and requests are made of the
\* ids and values that exist.
THEOREM TypeCorrect == Spec => []TypeOK
<1>1. ASSUME IInv PROVE TypeOK
  <2> USE TasksAssumption
  <2>0. TInv /\ acts \in 0 .. MaxActs /\ acts \in Nat
    BY <1>1 DEF IInv, TInv, RowsOK
  <2>1. RowsAt(acts, ids) \subseteq Row
    BY <2>0 DEF RowsAt, Row, Texts
  <2>2. Live \subseteq Tasks /\ \A t \in Live : tasks[t] \in Row /\ chosen[t] \in Row
    BY <2>0, <2>1, TableIs DEF TInv, TablesOK, Live
  <2>3. folders \subseteq Folders /\ ids \subseteq Tasks \cup Folders
    BY <2>0 DEF TInv, TablesOK
  <2>4. /\ DOMAIN list.data \subseteq Tasks /\ flist.data \subseteq Folders
        /\ list.st \in {"idle", "sent", "read"} /\ flist.st \in {"idle", "sent", "read"}
    BY <2>0, Queries, TableIs DEF Fetching
  <2>5. ASSUME NEW i \in Slots
        PROVE  /\ reqs[i].op \in Ops \cup {"idle"} /\ reqs[i].field \in Fields
               /\ reqs[i].value \in Values(reqs[i].field)
               /\ reqs[i].st \in {"idle", "sent", "done", "error"}
    <3>1. reqs[i] \in Req /\ Sound(reqs[i], acts, ids)
      BY <2>0 DEF TInv, ReqsOK
    <3>2. \A field \in Fields : Chosen(field, acts, ids) \subseteq Values(field)
      BY <2>0 DEF Chosen, Values, Fields, Texts
    <3>3. 0 .. acts + 1 \subseteq Values("title")
      BY <2>0 DEF Values, Texts
    <3> QED BY <3>1, <3>2, <3>3 DEF Req, Sound
  <2>6. /\ page \in Pages /\ edit.task \in Tasks \cup {None} /\ ed.task \in Tasks \cup {None}
        /\ dialog \in {None, "new"} \cup Folders /\ acts \in 0 .. MaxActs
        /\ reason \in {"none", "overlap", "failed", "reset", "remade", "oldList", "answerLost"}
    BY <2>0 DEF TInv, RowsOK
  <2> QED BY <2>2, <2>3, <2>4, <2>5, <2>6 DEF TypeOK
<1> QED BY <1>1, InvHolds, PTL

\* When nothing is on its way the page of the tasks shows the folder every task
\* is in, for any number of tasks, folders and requests, unless an answer was lost
\* or the first answer of a list was late.
THEOREM RightFolders == Spec => []FolderShown
<1>1. ASSUME IInv, Quiet, page = "tasks", reason # "answerLost", ~list.late, ~flist.late
      PROVE  DOMAIN list.data = Live /\ \A t \in Live : Shown(t) = tasks[t].folder
  <2>1. ~TasksDue /\ ~FoldersDue
    BY <1>1 DEF Quiet, Idle, TasksDue, FoldersDue, Changes
  <2>2. TInv /\ MountInv /\ ListInv /\ FlistInv
    BY <1>1 DEF IInv, ShowInv
  <2>3. Current(list.data)
    BY <1>1, <2>1, <2>2 DEF Quiet, ListInv, MountInv, ListMounted
  <2>4. Live # {} => flist.data = folders
    BY <1>1, <2>1, <2>2, <2>3 DEF Quiet, FlistInv, MountInv, FoldersMounted, Current
  <2>5. \A t \in Live : tasks[t].folder \in folders \cup {None} /\ None \notin folders
    BY <2>2, TasksAssumption DEF TInv, TablesOK
  <2> QED BY <2>3, <2>4, <2>5 DEF Current, Shown
<1>2. IInv => FolderShown
  BY <1>1 DEF FolderShown
<1> QED BY <1>2, InvHolds, PTL

\* When nothing is on its way and no choice can have been lost, every field of
\* every task is what the user last chose, and an expanded row shows it.
THEOREM ChoicesKept == Spec => []LastChoiceKept
<1>1. ASSUME IInv, Quiet, reason = "none", NEW t \in Live
      PROVE  tasks[t] = chosen[t] /\ (ed.task = t => ed.shown = tasks[t].desc)
  <2>1. Owed /\ Described /\ TInv
    BY <1>1 DEF IInv, KeepInv
  <2>2. \A field \in Fields : tasks[t][field] = chosen[t][field]
    BY <1>1, <2>1 DEF Owed, Quiet, Idle
  <2>3. tasks[t] \in RowsAt(acts, ids) /\ chosen[t] \in RowsAt(acts, ids)
    BY <1>1, <2>1, TableIs DEF TInv, TablesOK, Live
  <2>4. tasks[t] = chosen[t]
    BY <2>2, <2>3, SameRow
  <2> QED BY <2>1, <2>4 DEF Described
<1>2. IInv => LastChoiceKept
  BY <1>1 DEF LastChoiceKept
<1> QED BY <1>2, InvHolds, PTL
=============================================================================
