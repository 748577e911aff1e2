------------------------------- MODULE Tasks -------------------------------
(***************************************************************************)
(* Tasks and folders of the web application: the two tables, the queries   *)
(* tasks.list and folders.list a browser caches, and the pages that change *)
(* them (app/(main)/tasks, folders and folders/[id]).                      *)
(*                                                                         *)
(* A row of the task page sends one field at a time and then invalidates   *)
(* the lists; its description, an editor, sends every change and           *)
(* invalidates the list without waiting for the answer.  The folder pages  *)
(* invalidate folders.list only.  No mutation is retried, requests reach   *)
(* the server in any order, and a request or its answer may be lost.       *)
(*                                                                         *)
(* The status stands for the fields a click changes (status, priority, due *)
(* date).  A title or a description is the number of the change that made  *)
(* it.  The order of the tasks, which depends on nothing here, names,      *)
(* colors and the filters of the page are left out.                        *)
(***************************************************************************)
EXTENDS Naturals, FiniteSets

CONSTANTS
    Tasks,      \* the ids of tasks, the first exists already
    Folders,    \* the ids of folders
    First, Given,  \* the task and the folder that exist at first
    None,       \* no folder, no task
    MaxReqs,    \* bound: requests in flight together
    MaxActs     \* bound: how often the user changes anything

ASSUME TasksAssumption ==
    /\ First \in Tasks /\ Given \in Folders
    /\ None \notin Tasks /\ None \notin Folders
    /\ MaxReqs \in Nat /\ MaxActs \in Nat

Slots == 1 .. MaxReqs
Order == <<"TODO", "IN_PROGRESS", "DONE">>
Status == {Order[i] : i \in 1 .. 3}
Texts == 0 .. MaxActs + 1
Fields == {"title", "desc", "status", "folder"}
Fresh == [title |-> 0, desc |-> 0, status |-> "TODO", folder |-> None]
Values(field) == CASE field = "status" -> Status
                   [] field = "folder" -> Folders \cup {None}
                   [] OTHER -> Texts
Row == [title : Texts, desc : Texts, status : Status, folder : Folders \cup {None}]

Pages == {"tasks", "folders", "folder"}
Ops == {"update", "describe", "createTask", "deleteTask",
        "createFolder", "updateFolder", "deleteFolder", "deleteHere"}
NoReq == [op |-> "idle", id |-> None, field |-> "title", value |-> 0, st |-> "idle", here |-> FALSE]
NoEdit == [task |-> None, typed |-> 0, draft |-> 0]
NoEd == [task |-> None, shown |-> 0, made |-> FALSE]

VARIABLES
    tasks,    \* the table: the rows of the tasks that exist
    folders,  \* the table: the folders that exist
    ids,      \* ids not yet given away
    list,     \* tasks.list: the cached rows, the fetch and what it has read
    flist,    \* folders.list
    page,     \* the page shown
    reqs,     \* requests in flight
    edit,     \* the title being edited: what was typed, and what the input holds
    ed,       \* the expanded row: what its editor shows, whether it had content
    dialog,   \* the folder dialog: None, "new" or a folder
    acts,     \* changes so far
    chosen,   \* history: what the user last chose for every field
    reason    \* history: how a choice may have been lost

server == <<tasks, folders, ids, chosen>>
cached == <<list, flist>>
rows == <<edit, ed>>
vars == <<server, cached, page, reqs, rows, dialog, acts, reason>>

Live == DOMAIN tasks

-----------------------------------------------------------------------------
(* Queries: data is what is shown and has that there is any, stale that it *)
(* was invalidated, st how far a fetch has come and answer what it has     *)
(* read.  late is history: the query was invalidated when its first fetch  *)
(* had been read already.                                                  *)

NoQuery(empty) == [data |-> empty, answer |-> empty, has |-> FALSE, stale |-> TRUE,
                   late |-> FALSE, st |-> "idle"]
NoRows == [t \in {} |-> Fresh]

Fetch(q) == [q EXCEPT !.st = "sent", !.answer = q.data, !.late = @ /\ q.has]
Cancel(q) == [q EXCEPT !.st = "idle", !.answer = q.data, !.late = @ /\ q.has]
Stored(q) == [q EXCEPT !.data = q.answer, !.has = TRUE, !.stale = FALSE,
                       !.late = @ /\ ~q.has, !.st = "idle"]
\* A mounted query is fetched again.  A fetch in flight is cancelled for that
\* only if there is data already: a first fetch goes on, and its answer is
\* taken for fresh even if the server had read before the change.
Invalidate(q, mounted) ==
    IF mounted /\ (q.has \/ q.st = "idle") THEN Fetch([q EXCEPT !.stale = TRUE])
    ELSE [q EXCEPT !.stale = TRUE, !.late = @ \/ (mounted /\ q.st = "read")]

\* The list of tasks is mounted by its page, that of folders by the folders
\* page and by the folder picker of every row.
ListMounted == page = "tasks"
FoldersMounted == page = "folders" \/ (page = "tasks" /\ DOMAIN list.data # {})

\* folderPicker: a folder that is not in the list is shown as none.
Shown(t) == IF list.data[t].folder \in flist.data THEN list.data[t].folder ELSE None

TypeOK ==
    /\ Live \subseteq Tasks /\ \A t \in Live : tasks[t] \in Row /\ chosen[t] \in Row
    /\ folders \subseteq Folders
    /\ ids \subseteq Tasks \cup Folders
    /\ DOMAIN list.data \subseteq Tasks /\ flist.data \subseteq Folders
    /\ list.st \in {"idle", "sent", "read"} /\ flist.st \in {"idle", "sent", "read"}
    /\ page \in Pages
    /\ \A i \in Slots : /\ reqs[i].op \in Ops \cup {"idle"}
                        /\ reqs[i].field \in Fields /\ reqs[i].value \in Values(reqs[i].field)
                        /\ reqs[i].st \in {"idle", "sent", "done", "error"}
    /\ edit.task \in Tasks \cup {None} /\ ed.task \in Tasks \cup {None}
    /\ dialog \in {None, "new"} \cup Folders
    /\ acts \in 0 .. MaxActs
    /\ reason \in {"none", "overlap", "failed", "reset", "remade", "oldList", "answerLost"}

Init ==
    /\ \E row \in {Fresh, [Fresh EXCEPT !.desc = 1, !.folder = Given]} :
        tasks = [t \in {First} |-> row]
    /\ chosen = tasks
    /\ folders = {Given}
    /\ ids = (Tasks \cup Folders) \ {First, Given}
    /\ list = Fetch(NoQuery(NoRows)) /\ flist = NoQuery({})
    /\ page = "tasks"
    /\ reqs = [i \in Slots |-> NoReq]
    /\ edit = NoEdit /\ ed = NoEd /\ dialog = None
    /\ acts = 0 /\ reason = "none"

-----------------------------------------------------------------------------
(* The user.  Bound: nothing more is done once a choice may have been lost. *)

Note(cond, why) == reason' = IF reason = "none" /\ cond THEN why ELSE reason

Acts == acts < MaxActs /\ acts' = acts + 1
New == acts + 2

Idle == {i \in Slots : reqs[i].st = "idle"}
\* What the page that asked waits for (isPending), while it is mounted (here).
Waited == {"createTask", "createFolder", "updateFolder"}
Awaited(op) == \E i \in Slots : reqs[i].op = op /\ reqs[i].here
Call(op, id, field, value) ==
    LET i == CHOOSE j \in Idle : \A k \in Idle : j <= k
    IN  /\ Idle # {}
        /\ reqs' = [reqs EXCEPT ![i] = [op |-> op, id |-> id, field |-> field,
                                        value |-> value, st |-> "sent",
                                        here |-> op \in Waited]]

\* A field is given a value while a change of the same field is on its way.
Overlaps(t, field) ==
    \E i \in Slots : /\ reqs[i].op \in {"update", "describe"}
                     /\ reqs[i].id = t /\ reqs[i].field = field

OnTasks(t) == page = "tasks" /\ t \in DOMAIN list.data
Choose(t, field, value) ==
    /\ chosen' = IF t \in Live THEN [chosen EXCEPT ![t][field] = value] ELSE chosen
    /\ Note(Overlaps(t, field), "overlap")

\* updateTask({id, field}): one field of what the page shows.
Update(t, field, value) ==
    Call("update", t, field, value) /\ Choose(t, field, value)

\* The status badge goes to the next status, the checkbox to done or back; the
\* priority badge and the due date, left out, send a value in the same way.
Cycle(s) == Order[((CHOOSE i \in 1 .. 3 : Order[i] = s) % 3) + 1]
Check(s) == IF s = "DONE" THEN "TODO" ELSE "DONE"
ClickStatus(t) ==
    /\ OnTasks(t) /\ Acts
    /\ \E s \in {Cycle(list.data[t].status), Check(list.data[t].status)} :
        Update(t, "status", s)
    /\ UNCHANGED <<tasks, folders, ids, cached, page, rows, dialog>>

PickFolder(t) ==
    /\ OnTasks(t) /\ Acts
    /\ \E f \in flist.data \cup {None} : Update(t, "folder", f)
    /\ UNCHANGED <<tasks, folders, ids, cached, page, rows, dialog>>

\* A title is typed; it is sent by Enter or by leaving the input, and only if
\* the draft is not what the list shows.
TypeTitle(t) ==
    /\ OnTasks(t) /\ edit.task = None /\ Acts
    /\ edit' = [task |-> t, typed |-> New, draft |-> New]
    /\ UNCHANGED <<server, cached, page, reqs, ed, dialog, reason>>
CommitTitle ==
    /\ edit.task # None /\ edit' = NoEdit
    /\ \/ /\ edit.draft # list.data[edit.task].title
          /\ Call("update", edit.task, "title", edit.draft)
       \/ edit.draft = list.data[edit.task].title /\ UNCHANGED reqs
    /\ Choose(edit.task, "title", edit.typed)
    /\ UNCHANGED <<tasks, folders, ids, cached, page, ed, dialog, acts>>
Escape ==
    /\ edit.task # None /\ edit' = NoEdit
    /\ UNCHANGED <<server, cached, page, reqs, ed, dialog, acts, reason>>

\* The description: an editor made with what the list has.
Expand(t) ==
    /\ OnTasks(t) /\ ed.task = None
    /\ ed' = [task |-> t, shown |-> list.data[t].desc, made |-> list.data[t].desc # 0]
    /\ Note(t \in Live /\ list.data[t].desc # chosen[t].desc, "oldList")
    /\ UNCHANGED <<server, cached, page, reqs, edit, dialog, acts>>
Collapse ==
    /\ ed.task # None /\ ed' = NoEd
    /\ UNCHANGED <<server, cached, page, reqs, edit, dialog, acts, reason>>

\* handleUpdate: sent at once, and the list invalidated at once.
Describe ==
    /\ ed.task # None /\ Acts
    /\ ed' = [ed EXCEPT !.shown = New]
    /\ Call("describe", ed.task, "desc", New) /\ Choose(ed.task, "desc", New)
    /\ list' = Invalidate(list, ListMounted)
    /\ UNCHANGED <<tasks, folders, ids, flist, page, edit, dialog>>

\* NewTaskInput waits for the answer; the trash of a row does not.
ClickCreate ==
    /\ page = "tasks" /\ ~Awaited("createTask") /\ ids \cap Tasks # {} /\ Acts
    /\ Call("createTask", None, "title", New)
    /\ UNCHANGED <<server, cached, page, rows, dialog, reason>>
ClickDelete(t) ==
    /\ OnTasks(t) /\ Acts
    /\ Call("deleteTask", t, "title", 0)
    /\ UNCHANGED <<server, cached, page, rows, dialog, reason>>

\* The folders page: a dialog to create or to edit, and to delete.
OpenDialog ==
    /\ page = "folders" /\ dialog = None /\ dialog' \in {"new"} \cup flist.data
    /\ UNCHANGED <<server, cached, page, reqs, rows, acts, reason>>
CloseDialog ==
    /\ dialog # None /\ dialog' = None
    /\ UNCHANGED <<server, cached, page, reqs, rows, acts, reason>>
SubmitDialog ==
    /\ dialog # None /\ ~Awaited("createFolder") /\ ~Awaited("updateFolder") /\ Acts
    /\ \/ dialog = "new" /\ ids \cap Folders # {} /\ Call("createFolder", None, "title", 0)
       \/ dialog \in Folders /\ Call("updateFolder", dialog, "title", 0)
    /\ UNCHANGED <<server, cached, page, rows, dialog, reason>>
DeleteInDialog ==
    /\ dialog \in Folders /\ dialog' = None /\ Acts
    /\ Call("deleteFolder", dialog, "title", 0)
    /\ UNCHANGED <<server, cached, page, rows, reason>>

\* The page of one folder has a button to delete it.
DeleteHere(f) ==
    /\ page = "folder" /\ f \in flist.data /\ Acts
    /\ Call("deleteHere", f, "title", 0)
    /\ UNCHANGED <<server, cached, page, rows, dialog, reason>>

\* Another page is mounted, on which a list that is stale, or older than 30 s
\* (elapsed), is fetched; a fetch nobody waits for is cancelled.
Mounts(q, mounted, elapsed) ==
    IF ~mounted THEN Cancel(q)
    ELSE IF q.st # "idle" THEN q
    ELSE IF q.stale \/ elapsed THEN Fetch(q) ELSE q
Goto(p, elapsed) ==
    /\ page' = p
    /\ list' = Mounts(list, p = "tasks", elapsed)
    /\ flist' = Mounts(flist, p = "folders" \/ (p = "tasks" /\ DOMAIN list.data # {}), elapsed)
    /\ edit' = NoEdit /\ ed' = NoEd /\ dialog' = None
Left(rs) == [i \in Slots |-> [rs[i] EXCEPT !.here = FALSE]]
Go(p, elapsed) ==
    /\ page # p /\ Acts /\ Goto(p, elapsed) /\ reqs' = Left(reqs)
    /\ UNCHANGED <<server, reason>>

-----------------------------------------------------------------------------
(* The server.                                                             *)

\* Mutant of Written: a field that is not sent is written as none.
WrittenWhole(row, field, value) ==
    [row EXCEPT !.folder = IF field = "folder" THEN value ELSE None, ![field] = value]

\* tasks.update writes the field it is given and leaves the others.
Written(row, field, value) == [row EXCEPT ![field] = value]

\* What a request asks for can be done: its row exists, and so does the folder
\* it refers to.
Allowed(r) ==
    CASE r.op \in {"update", "describe"} ->
            /\ r.id \in Live
            /\ r.field = "folder" => r.value \in folders \cup {None}
      [] r.op = "deleteTask" -> r.id \in Live
      [] r.op \in {"updateFolder", "deleteFolder", "deleteHere"} -> r.id \in folders
      [] OTHER -> TRUE

Without(f, row) == IF row.folder = f THEN [row EXCEPT !.folder = None] ELSE row

\* The statement of a handler.  Deleting a folder sets its tasks' folder to none.
Write(r) ==
    \/ /\ r.op \in {"update", "describe"}
       /\ tasks' = [tasks EXCEPT ![r.id] = Written(@, r.field, r.value)]
       /\ UNCHANGED <<folders, ids, chosen>>
    \/ /\ r.op = "createTask"
       /\ \E t \in Tasks \cap ids :
            /\ tasks' = [u \in Live \cup {t} |-> IF u = t THEN [Fresh EXCEPT !.title = r.value]
                                                 ELSE tasks[u]]
            /\ chosen' = [u \in Live \cup {t} |-> IF u = t THEN [Fresh EXCEPT !.title = r.value]
                                                  ELSE chosen[u]]
            /\ ids' = ids \ {t}
       /\ UNCHANGED folders
    \/ /\ r.op = "deleteTask"
       /\ tasks' = [u \in Live \ {r.id} |-> tasks[u]]
       /\ chosen' = [u \in Live \ {r.id} |-> chosen[u]]
       /\ UNCHANGED <<folders, ids>>
    \/ /\ r.op = "createFolder"
       /\ \E f \in Folders \cap ids : folders' = folders \cup {f} /\ ids' = ids \ {f}
       /\ UNCHANGED <<tasks, chosen>>
    \/ r.op = "updateFolder" /\ UNCHANGED server
    \/ /\ r.op \in {"deleteFolder", "deleteHere"}
       /\ folders' = folders \ {r.id}
       /\ tasks' = [t \in Live |-> Without(r.id, tasks[t])]
       /\ chosen' = [t \in Live |-> Without(r.id, chosen[t])]
       /\ UNCHANGED ids

Serve(i) ==
    /\ reqs[i].st = "sent"
    /\ \/ Allowed(reqs[i]) /\ Write(reqs[i]) /\ reqs' = [reqs EXCEPT ![i].st = "done"]
       \/ ~Allowed(reqs[i]) /\ reqs' = [reqs EXCEPT ![i].st = "error"] /\ UNCHANGED server
    /\ UNCHANGED <<cached, page, rows, dialog, acts, reason>>

ReadTasks ==
    /\ list.st = "sent" /\ list' = [list EXCEPT !.st = "read", !.answer = tasks]
    /\ UNCHANGED <<server, flist, page, reqs, rows, dialog, acts, reason>>
ReadFolders ==
    /\ flist.st = "sent" /\ flist' = [flist EXCEPT !.st = "read", !.answer = folders]
    /\ UNCHANGED <<server, list, page, reqs, rows, dialog, acts, reason>>

-----------------------------------------------------------------------------
(* Answers.                                                                *)

\* Nothing is done about an error, or about a request or an answer that is lost.
Fails(i) ==
    /\ reqs[i].st \in {"sent", "done", "error"}
    /\ reqs' = [reqs EXCEPT ![i] = NoReq]
    /\ \/ reqs[i].st = "done" /\ reason' = "answerLost"
       \/ reqs[i].st # "done" /\ Note(TRUE, "failed")
    /\ UNCHANGED <<server, cached, page, rows, dialog, acts>>

\* Mutant of Refreshed: a folder that is deleted only leaves its page.
RefreshedTasks(op) ==
    /\ list' = IF op \in {"update", "createTask", "deleteTask"}
               THEN Invalidate(list, ListMounted) ELSE list
    /\ flist' = IF op \in {"update", "deleteTask", "createFolder", "updateFolder"}
                THEN Invalidate(flist, FoldersMounted) ELSE flist

\* The lists the caller's onSuccess invalidates.
Refreshed(op) ==
    /\ list' = IF op \in {"update", "createTask", "deleteTask"}
               THEN Invalidate(list, ListMounted) ELSE list
    /\ flist' = IF op \notin {"describe", "createTask"}
                THEN Invalidate(flist, FoldersMounted) ELSE flist

\* The folder dialog is closed, whichever it is by now, if its page is still
\* there; deleting a folder on its page leads to the folders page, wherever the
\* user has gone since.
Succeeds(i) ==
    LET rest == [reqs EXCEPT ![i] = NoReq] IN
    /\ reqs[i].st = "done"
    /\ \/ /\ reqs[i].op # "deleteHere" \/ page = "folders"
          /\ Refreshed(reqs[i].op)
          /\ dialog' = IF reqs[i].op \in {"createFolder", "updateFolder"} /\ reqs[i].here
                       THEN None ELSE dialog
          /\ reqs' = rest
          /\ UNCHANGED <<page, rows>>
       \/ /\ reqs[i].op = "deleteHere" /\ page # "folders"
          /\ page' = "folders" /\ reqs' = Left(rest)
          /\ list' = Cancel(list)
          /\ flist' = Mounts(Invalidate(flist, FoldersMounted), TRUE, FALSE)
          /\ edit' = NoEdit /\ ed' = NoEd /\ dialog' = None
    /\ UNCHANGED <<server, acts, reason>>

\* A row whose task is no longer listed is unmounted; a title that has changed
\* replaces the draft, and an editor made without content is made again.
ListArrives ==
    /\ list.st = "read" /\ list' = Stored(list)
    /\ LET has(t) == t \in DOMAIN list.answer
           retitled == /\ has(edit.task)
                       /\ list.answer[edit.task].title # list.data[edit.task].title
           remade == has(ed.task) /\ ~ed.made /\ list.answer[ed.task].desc # 0
       IN  /\ edit' = IF ~has(edit.task) THEN NoEdit
                      ELSE IF retitled THEN [edit EXCEPT !.draft = list.answer[edit.task].title]
                      ELSE edit
           /\ ed' = IF ~has(ed.task) THEN NoEd
                    ELSE IF remade THEN [ed EXCEPT !.shown = list.answer[ed.task].desc,
                                                   !.made = TRUE]
                    ELSE ed
           /\ \/ retitled /\ Note(TRUE, "reset")
              \/ ~retitled /\ Note(remade /\ list.answer[ed.task].desc # ed.shown, "remade")
    /\ flist' = IF /\ DOMAIN list.answer \ DOMAIN list.data # {}
                   /\ flist.st = "idle" /\ flist.stale
                THEN Fetch(flist)
                ELSE IF DOMAIN list.answer = {} THEN Cancel(flist) ELSE flist
    /\ UNCHANGED <<server, page, reqs, dialog, acts>>

FoldersArrive ==
    /\ flist.st = "read" /\ flist' = Stored(flist)
    /\ UNCHANGED <<server, list, page, reqs, rows, dialog, acts, reason>>

-----------------------------------------------------------------------------
OnTaskPage ==
    \/ \E t \in Tasks : ClickStatus(t) \/ PickFolder(t) \/ TypeTitle(t) \/ Expand(t) \/ ClickDelete(t)
    \/ CommitTitle \/ Escape \/ Collapse \/ Describe \/ ClickCreate
OnFolderPages ==
    \/ OpenDialog \/ CloseDialog \/ SubmitDialog \/ DeleteInDialog
    \/ \E f \in Folders : DeleteHere(f)
Answer(i) == Fails(i) \/ Succeeds(i)

Next ==
    \/ reason = "none" /\ (OnTaskPage \/ OnFolderPages)
    \/ \E p \in Pages, elapsed \in BOOLEAN : Go(p, elapsed)
    \/ \E i \in Slots : Serve(i) \/ Answer(i)
    \/ ReadTasks \/ ReadFolders \/ ListArrives \/ FoldersArrive

Spec == Init /\ [][Next]_vars

-----------------------------------------------------------------------------
(* Properties *)

Quiet == Idle = Slots /\ list.st = "idle" /\ flist.st = "idle"

\* On the task page, when nothing is on its way, every row shows the folder its
\* task is in, although deleting a folder changes tasks and invalidates only the
\* list of folders: the two lists agree with the tables taken together, unless
\* the answer to a change was lost, or the very first answer of a list was read by
\* the server before a change and came after the change was answered (late).  A
\* task created while the page still loads, which NewTaskInput allows
\* (tasks/page.tsx:777), can be missing in this way until the list is fetched again.
FolderShown ==
    Quiet /\ page = "tasks" /\ reason # "answerLost" /\ ~list.late /\ ~flist.late
        => DOMAIN list.data = Live /\ \A t \in Live : Shown(t) = tasks[t].folder

\* When nothing is on its way every field of every task is what the user last
\* chose for it, however the changes of different fields, and the deletion of
\* folders, were ordered; and an expanded row shows its description.  A choice
\* can only be lost to another change of the same field that was on its way, to
\* a request that failed, to a list that arrived while a title was edited, or to
\* an editor made from a list older than the description.
LastChoiceKept ==
    Quiet /\ reason = "none"
        => \A t \in Live : /\ tasks[t] = chosen[t]
                           /\ ed.task = t => ed.shown = tasks[t].desc

=============================================================================
