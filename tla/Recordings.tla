----------------------------- MODULE Recordings -----------------------------
(***************************************************************************)
(* The recordings of the web application: the directories the daemon       *)
(* writes, the rows the server keeps about them, and the two lists a       *)
(* browser caches.                                                         *)
(*                                                                         *)
(* A session is a directory RECORDINGS_DIR/date/time.  Whether it exists   *)
(* is read from the file system at every call; that it is in the trash and *)
(* its label are kept in a row of RecordingMeta, which need not exist.     *)
(* Nothing makes the two change together: recordings.ts calls the file     *)
(* system synchronously and awaits each statement of the database, so that *)
(* other requests run between any two of its steps.                        *)
(*                                                                         *)
(* A request is a record in req: the operation, its argument, how far the  *)
(* handler has come (pc) and what it has read.  The pages                  *)
(* (app/(main)/audio and settings) issue requests from what their cached   *)
(* lists show and, when a request has succeeded, invalidate lists.         *)
(*                                                                         *)
(* Sessions are numbered by their time, so that a newer one is greater.    *)
(* A date directory, which is removed with its last session, is left out,  *)
(* and so are failures of the disk.                                        *)
(***************************************************************************)
EXTENDS Naturals, FiniteSets

CONSTANTS
    N,          \* the number of sessions the daemon records
    Labels,     \* what a user types as a label
    Reqs,       \* the requests that may be in flight together
    Limit,      \* how many sessions one page of the list holds
    MaxCalls    \* bound: how many requests are ever issued

ASSUME RecordingsAssumption ==
    N \in Nat /\ Limit \in Nat /\ MaxCalls \in Nat

Sessions == 1 .. N
None == "none"
Hidden == "hidden"
ASSUME LabelsAssumption == None \notin Labels /\ Hidden \notin Labels

Texts == Labels \cup {None}
NoRow == [row |-> FALSE, trashed |-> FALSE, label |-> None, size |-> FALSE]
FreshRow == [NoRow EXCEPT !.row = TRUE]
Rows == [row : BOOLEAN, trashed : BOOLEAN, label : Texts, size : BOOLEAN]
Pages == {"audio", "settings", "note"}

\* The operations the pages call, and those no page calls, which are there for
\* other clients of the API.
ApiOps == {"favorite", "scan", "delete"}
Ops == {"label", "trash", "restore", "deletePermanent", "emptyTrash", "open"} \cup ApiOps
NoReq == [op |-> "idle", s |-> 0, text |-> None, pc |-> "idle", seen |-> {}, live |-> FALSE]

VARIABLES
    disk,        \* "absent", "empty" (a directory without a file), "wav" or "erased"
    meta,        \* the rows of RecordingMeta
    note,        \* the title of the note of a session, or Hidden when there is none
    req,         \* the requests in flight
    list, trash, \* the cached answers of recordings.list and listTrashed
    page,        \* the page the browser shows
    calls,       \* requests issued so far
    beenTrashed, \* history: sessions that have been in the trash
    deleted      \* history: sessions that "delete" has erased, trash or no trash

serverVars == <<disk, meta, note, beenTrashed, deleted>>
vars == <<disk, meta, note, req, list, trash, page, calls, beenTrashed, deleted>>

-----------------------------------------------------------------------------
(* Queries of the browser.  items is what is shown, data that there is     *)
(* something to show at all, stale that the query was invalidated, st how  *)
(* far a fetch has come, seen the sessions the server has found on disk    *)
(* and answer what it answered.  overtaken is history: the query was       *)
(* invalidated when its first fetch had been read already.                 *)

Query == [items : UNION {[S -> Texts \cup {Hidden}] : S \in SUBSET Sessions},
          answer : UNION {[S -> Texts \cup {Hidden}] : S \in SUBSET Sessions},
          data : BOOLEAN, stale : BOOLEAN, overtaken : BOOLEAN,
          st : {"idle", "sent", "scanned", "answered"}, seen : SUBSET Sessions]
Nothing == [s \in {} |-> None]
NoQuery == [items |-> Nothing, answer |-> Nothing, data |-> FALSE, stale |-> TRUE,
            overtaken |-> FALSE, st |-> "idle", seen |-> {}]

\* A fetch starts; one that was in flight is cancelled and its answer dropped.
Fetch(q) == [q EXCEPT !.st = "sent", !.seen = {}, !.answer = Nothing,
                      !.overtaken = @ /\ q.data]
\* A cancelled fetch leaves what was cached.
Cancel(q) == [q EXCEPT !.st = "idle", !.seen = {}, !.answer = Nothing,
                       !.overtaken = @ /\ q.data]
\* A mounted query is fetched again.  A fetch in flight is cancelled for that
\* only if there is data already: a first fetch goes on, and its answer is
\* taken for fresh even if the server had read before the change.
Invalidate(q, active) ==
    IF active /\ (q.data \/ q.st = "idle") THEN Fetch([q EXCEPT !.stale = TRUE])
    ELSE [q EXCEPT !.stale = TRUE, !.overtaken = @ \/ (active /\ q.st # "sent")]
Store(q) == [items |-> q.answer, answer |-> Nothing, data |-> TRUE, stale |-> FALSE,
             overtaken |-> q.overtaken /\ ~q.data, st |-> "idle", seen |-> {}]

Shown(q) == {s \in DOMAIN q.items : q.items[s] # Hidden}

-----------------------------------------------------------------------------
(* What the handlers read.                                                 *)

\* findWavFile: the sessions with a file to play.
WithWav == {s \in Sessions : disk[s] = "wav"}
\* The first page, newest first.
FirstPage(S) == {s \in S : Cardinality({t \in S : t > s}) < Limit}
Trashed == {s \in Sessions : meta[s].trashed}

TypeOK ==
    /\ disk \in [Sessions -> {"absent", "empty", "wav", "erased"}]
    /\ meta \in [Sessions -> Rows]
    /\ note \in [Sessions -> Texts \cup {Hidden}]
    /\ req \in [Reqs -> [op : Ops \cup {"idle"}, s : Sessions \cup {0},
                         text : Texts \cup {Hidden}, seen : SUBSET Sessions, live : BOOLEAN,
                         pc : {"idle", "sent", "found", "absent", "erased", "create", "update",
                               "rename", "ok", "failed"}]]
    /\ list \in Query /\ trash \in Query
    /\ page \in Pages /\ calls \in 0 .. MaxCalls
    /\ beenTrashed \subseteq Sessions /\ deleted \subseteq Sessions

Init ==
    /\ disk = [s \in Sessions |-> "absent"]
    /\ meta = [s \in Sessions |-> NoRow]
    /\ note = [s \in Sessions |-> Hidden]
    /\ req = [r \in Reqs |-> NoReq]
    /\ list = Fetch(NoQuery) /\ trash = NoQuery
    /\ page = "audio" /\ calls = 0
    /\ beenTrashed = {} /\ deleted = {}

-----------------------------------------------------------------------------
(* The daemon.                                                             *)

\* A session starts: its directory is created, in the order of time.
MakeSession(s) ==
    /\ disk[s] = "absent" /\ \A t \in Sessions : t < s => disk[t] # "absent"
    /\ disk' = [disk EXCEPT ![s] = "empty"]
    /\ UNCHANGED <<meta, note, req, list, trash, page, calls, beenTrashed, deleted>>

\* pw-cat creates the file.
WavAppears(s) ==
    /\ disk[s] = "empty"
    /\ disk' = [disk EXCEPT ![s] = "wav"]
    /\ UNCHANGED <<meta, note, req, list, trash, page, calls, beenTrashed, deleted>>

-----------------------------------------------------------------------------
(* Requests and what they go through.                                      *)

Free(r) == req[r].op = "idle"

\* A request leaves the browser or another client of the API; live when the page
\* that sends it looks whether it is pending.
Call(r, op, s, text, live) ==
    /\ Free(r) /\ calls < MaxCalls
    /\ calls' = calls + 1
    /\ req' = [req EXCEPT ![r] = [op |-> op, s |-> s, text |-> text, pc |-> "sent",
                                  seen |-> {}, live |-> live]]
    /\ UNCHANGED <<disk, meta, note, list, trash, page, beenTrashed, deleted>>

\* The page that sent the request is mounted and has not had its answer.
Pending(op) == \E r \in Reqs : req[r].op = op /\ req[r].live

At(r, op, pc) == req[r].op = op /\ req[r].pc = pc
Goto(r, pc) == req' = [req EXCEPT ![r].pc = pc]
\* The handler is done and forgets what it worked with.  A page waits for its
\* answer; what another client does with one is no part of this.
Done(r, pc) ==
    req' = [req EXCEPT ![r] = IF @.op \in ApiOps THEN NoReq
                              ELSE [NoReq EXCEPT !.op = req[r].op, !.pc = pc, !.live = req[r].live]]

\* The handler of an operation that is one upsert: Change applied to the row,
\* which is created when there is none, whether or not files exist.
Upsert(r, op, Change(_)) ==
    LET s == req[r].s
    IN  /\ At(r, op, "sent")
        /\ meta' = [meta EXCEPT ![s] = Change(IF @.row THEN @ ELSE FreshRow)]
        /\ Done(r, "ok")
        /\ UNCHANGED <<disk, note, list, trash, page, calls, deleted>>

Label(r) ==
    /\ Upsert(r, "label", LAMBDA row : [row EXCEPT !.label = req[r].text])
    /\ UNCHANGED beenTrashed
\* The star itself is left out: that the row comes to exist is what matters.
Favorite(r) ==
    /\ Upsert(r, "favorite", LAMBDA row : row)
    /\ UNCHANGED beenTrashed
Trash(r) ==
    /\ Upsert(r, "trash", LAMBDA row : [row EXCEPT !.trashed = TRUE])
    /\ beenTrashed' = beenTrashed \cup {req[r].s}

\* An update, which fails when the row has gone.
Restore(r) ==
    LET s == req[r].s
    IN  /\ At(r, "restore", "sent")
        /\ \/ meta[s].row /\ meta' = [meta EXCEPT ![s].trashed = FALSE] /\ Done(r, "ok")
           \/ ~meta[s].row /\ Done(r, "failed") /\ UNCHANGED meta
        /\ UNCHANGED <<disk, note, list, trash, page, calls, beenTrashed, deleted>>

\* deletePermanent and delete do the same, the one from the trash of the settings
\* page, the other for a client of the API, and never look at trashedAt.
Deleting(r, pc) == At(r, "deletePermanent", pc) \/ At(r, "delete", pc)

\* Mutant of RemoveDir: the row is deleted before the directory.
RemoveRowFirst(r) ==
    /\ Deleting(r, "sent") /\ Goto(r, "erased")
    /\ meta' = [meta EXCEPT ![req[r].s] = NoRow]
    /\ UNCHANGED <<disk, note, list, trash, page, calls, beenTrashed, deleted>>

\* The directory is removed when it exists, then the row.
RemoveDir(r) ==
    LET s == req[r].s
    IN  /\ Deleting(r, "sent") /\ Goto(r, "erased")
        /\ disk' = [disk EXCEPT ![s] = IF @ = "absent" THEN @ ELSE "erased"]
        /\ deleted' = IF req[r].op = "delete" THEN deleted \cup {s} ELSE deleted
        /\ UNCHANGED <<meta, note, list, trash, page, calls, beenTrashed>>

\* A row that has gone already is no error.
RemoveRow(r) ==
    /\ Deleting(r, "erased") /\ Done(r, "ok")
    /\ meta' = [meta EXCEPT ![req[r].s] = NoRow]
    /\ UNCHANGED <<disk, note, list, trash, page, calls, beenTrashed, deleted>>

\* Mutant of FindTrashed: every row is read.
FindEveryRow(r) ==
    /\ At(r, "emptyTrash", "sent")
    /\ req' = [req EXCEPT ![r].pc = "found", ![r].seen = {s \in Sessions : meta[s].row}]
    /\ UNCHANGED <<disk, meta, note, list, trash, page, calls, beenTrashed, deleted>>

\* emptyTrash: the rows are read,
FindTrashed(r) ==
    /\ At(r, "emptyTrash", "sent")
    /\ req' = [req EXCEPT ![r].pc = "found", ![r].seen = Trashed]
    /\ UNCHANGED <<disk, meta, note, list, trash, page, calls, beenTrashed, deleted>>

\* the directories of the rows read are removed in one synchronous loop,
RemoveFound(r) ==
    /\ At(r, "emptyTrash", "found") /\ Goto(r, "erased")
    /\ disk' = [s \in Sessions |-> IF s \in req[r].seen /\ disk[s] # "absent"
                                   THEN "erased" ELSE disk[s]]
    /\ UNCHANGED <<meta, note, list, trash, page, calls, beenTrashed, deleted>>

\* and the rows that are in the trash by then are deleted.
DeleteTrashed(r) ==
    /\ At(r, "emptyTrash", "erased") /\ Done(r, "ok")
    /\ meta' = [s \in Sessions |-> IF meta[s].trashed THEN NoRow ELSE meta[s]]
    /\ UNCHANGED <<disk, note, list, trash, page, calls, beenTrashed, deleted>>

\* scan: the directories are read once,
ScanDirs(r) ==
    /\ At(r, "scan", "sent")
    /\ req' = [req EXCEPT ![r].pc = "found", ![r].seen = WithWav]
    /\ UNCHANGED <<disk, meta, note, list, trash, page, calls, beenTrashed, deleted>>

\* then, for each of them, the newest first, its row is looked up,
ScanFind(r) ==
    /\ At(r, "scan", "found")
    /\ \/ req[r].seen = {} /\ Done(r, "ok")
       \/ \E s \in req[r].seen :
            /\ \A t \in req[r].seen : t <= s
            /\ req' = [req EXCEPT
                    ![r].s = s, ![r].seen = @ \ {s},
                    ![r].pc = IF ~meta[s].row THEN "create"
                              ELSE IF ~meta[s].size THEN "update" ELSE "found"]
    /\ UNCHANGED <<disk, meta, note, list, trash, page, calls, beenTrashed, deleted>>

\* and stored.  A row that another request has created by then, or deleted,
\* ends the whole scan.
ScanStore(r) ==
    LET s == req[r].s
    IN  /\ At(r, "scan", "create") \/ At(r, "scan", "update")
        /\ \/ /\ meta[s].row = (req[r].pc = "update")
              /\ meta' = [meta EXCEPT ![s] = [(IF @.row THEN @ ELSE FreshRow) EXCEPT !.size = TRUE]]
              /\ Goto(r, "found")
           \/ /\ meta[s].row # (req[r].pc = "update")
              /\ Done(r, "failed") /\ UNCHANGED meta
        /\ UNCHANGED <<disk, note, list, trash, page, calls, beenTrashed, deleted>>

\* getOrCreateForRecording: the note is looked up,
FindNote(r) ==
    LET s == req[r].s
    IN  /\ At(r, "open", "sent")
        /\ req' = [req EXCEPT ![r].pc = IF note[s] = Hidden THEN "absent" ELSE "found",
                              ![r].text = note[s]]
        /\ UNCHANGED <<disk, meta, note, list, trash, page, calls, beenTrashed, deleted>>

\* then the label, which is to be the title of the note;
FindLabel(r) ==
    LET label == meta[req[r].s].label
    IN  /\ req[r].op = "open"
        /\ \/ /\ req[r].pc = "found"
              /\ req' = [req EXCEPT ![r].text = label,
                             ![r].pc = IF label \in {None, req[r].text} THEN "ok" ELSE "rename"]
           \/ /\ req[r].pc = "absent"
              /\ req' = [req EXCEPT ![r].text = label, ![r].pc = "create"]
        /\ UNCHANGED <<disk, meta, note, list, trash, page, calls, beenTrashed, deleted>>

RenameNote(r) ==
    /\ At(r, "open", "rename") /\ Done(r, "ok")
    /\ note' = [note EXCEPT ![req[r].s] = req[r].text]
    /\ UNCHANGED <<disk, meta, list, trash, page, calls, beenTrashed, deleted>>

\* Only one note may have the session: the second creation fails.
CreateNote(r) ==
    LET s == req[r].s
    IN  /\ At(r, "open", "create")
        /\ \/ note[s] = Hidden /\ note' = [note EXCEPT ![s] = req[r].text] /\ Done(r, "ok")
           \/ note[s] # Hidden /\ Done(r, "failed") /\ UNCHANGED note
        /\ UNCHANGED <<disk, meta, list, trash, page, calls, beenTrashed, deleted>>

\* list: the directories are read, of which one page is kept; then the rows of
\* that page, and the sessions in the trash are left out.
ListScan ==
    /\ list.st = "sent"
    /\ list' = [list EXCEPT !.st = "scanned", !.seen = FirstPage(WithWav)]
    /\ UNCHANGED <<disk, meta, note, req, trash, page, calls, beenTrashed, deleted>>

ListRows ==
    /\ list.st = "scanned"
    /\ list' = [list EXCEPT !.st = "answered",
                    !.answer = [s \in list.seen |-> IF meta[s].trashed THEN Hidden
                                                    ELSE meta[s].label]]
    /\ UNCHANGED <<disk, meta, note, req, trash, page, calls, beenTrashed, deleted>>

\* listTrashed: the rows in the trash; their labels are not told apart.
ListTrashed ==
    /\ trash.st = "sent"
    /\ trash' = [trash EXCEPT !.st = "answered",
                    !.answer = [s \in Trashed |-> None]]
    /\ UNCHANGED <<disk, meta, note, req, list, page, calls, beenTrashed, deleted>>

-----------------------------------------------------------------------------
(* The browser.                                                            *)

\* A card of the audio page: commitLabel after the pencil, the trash button,
\* or the card itself, which does nothing while another is being opened.
CommitLabel(r, s, text) ==
    page = "audio" /\ s \in Shown(list) /\ Call(r, "label", s, text, FALSE)
ClickTrash(r, s) ==
    page = "audio" /\ s \in Shown(list) /\ Call(r, "trash", s, None, FALSE)
ClickOpen(r, s) ==
    /\ page = "audio" /\ s \in Shown(list) /\ ~Pending("open")
    /\ Call(r, "open", s, None, TRUE)

\* A row of the trash on the settings page, and the button above the rows.
ClickRestore(r, s) ==
    /\ page = "settings" /\ s \in Shown(trash) /\ ~Pending("restore")
    /\ Call(r, "restore", s, None, TRUE)
ClickDelete(r, s) ==
    /\ page = "settings" /\ s \in Shown(trash) /\ ~Pending("deletePermanent")
    /\ Call(r, "deletePermanent", s, None, TRUE)
ClickEmpty(r) ==
    /\ page = "settings" /\ Shown(trash) # {} /\ ~Pending("emptyTrash")
    /\ Call(r, "emptyTrash", 0, None, TRUE)

\* A client of the API asks for a scan, or stars or deletes a session it was told of.
ApiScan(r) == Call(r, "scan", 0, None, FALSE)
ApiFavorite(r, s) == disk[s] # "absent" /\ Call(r, "favorite", s, None, FALSE)
ApiDelete(r, s) == disk[s] # "absent" /\ Call(r, "delete", s, None, FALSE)

\* Mutant of Lists: leaving the trash invalidates the trash alone.
ListsOfPage(op) ==
    CASE op \in {"label", "trash"} -> {"list"}
      [] op \in {"restore", "deletePermanent", "emptyTrash"} -> {"trash"}

\* What is invalidated when a request of a page has succeeded.
Lists(op) ==
    CASE op \in {"label", "trash"} -> {"list"}
      [] op \in {"restore", "deletePermanent", "emptyTrash"} -> {"list", "trash"}

\* The answer arrives, whether or not the page that asked is still there: the
\* lists are invalidated, and the list of the page shown is fetched again.
Answer(r) ==
    /\ req[r].op # "open" /\ req[r].pc \in {"ok", "failed"}
    /\ req' = [req EXCEPT ![r] = NoReq]
    /\ LET lists == IF req[r].pc = "ok" THEN Lists(req[r].op) ELSE {}
       IN  /\ list' = IF "list" \in lists THEN Invalidate(list, page = "audio") ELSE list
           /\ trash' = IF "trash" \in lists THEN Invalidate(trash, page = "settings") ELSE trash
    /\ UNCHANGED <<disk, meta, note, page, calls, beenTrashed, deleted>>

\* The queries of page p are mounted: what is stale, or older than the stale
\* time (elapsed), is fetched.  Those of the page left cancel their fetches.
Show(p, elapsed) ==
    /\ page' = p
    /\ list' = IF p = "audio" /\ (list.stale \/ elapsed) THEN Fetch(list) ELSE Cancel(list)
    /\ trash' = IF p = "settings" /\ (trash.stale \/ elapsed) THEN Fetch(trash) ELSE Cancel(trash)

\* A recording has its note: the browser goes there, from wherever it is.
Opened(r) ==
    /\ At(r, "open", "ok")
    /\ Show("note", FALSE)
    /\ req' = [q \in Reqs |-> IF q = r THEN NoReq ELSE [req[q] EXCEPT !.live = FALSE]]
    /\ UNCHANGED <<calls, serverVars>>
OpenFailed(r) ==
    /\ At(r, "open", "failed")
    /\ req' = [req EXCEPT ![r] = NoReq]
    /\ UNCHANGED <<list, trash, page, calls, serverVars>>

Go(p, elapsed) ==
    /\ p # page
    /\ Show(p, elapsed)
    /\ req' = [q \in Reqs |-> [req[q] EXCEPT !.live = FALSE]]
    /\ UNCHANGED <<calls, serverVars>>

\* The list is dropped from the cache when no page has shown it for five minutes.
\* (So is the trash, which has no property of its own.)
Evict ==
    /\ page # "audio" /\ list.data
    /\ list' = NoQuery
    /\ UNCHANGED <<req, trash, page, calls, serverVars>>

\* The answer of a fetch is shown.
ListArrives ==
    /\ list.st = "answered" /\ list' = Store(list)
    /\ UNCHANGED <<req, trash, page, calls, serverVars>>
TrashArrives ==
    /\ trash.st = "answered" /\ trash' = Store(trash)
    /\ UNCHANGED <<req, list, page, calls, serverVars>>

-----------------------------------------------------------------------------
Serve(r) ==
    \/ Label(r) \/ Favorite(r) \/ Trash(r) \/ Restore(r) \/ RemoveDir(r) \/ RemoveRow(r)
    \/ FindTrashed(r) \/ RemoveFound(r) \/ DeleteTrashed(r)
    \/ ScanDirs(r) \/ ScanFind(r) \/ ScanStore(r)
    \/ FindNote(r) \/ FindLabel(r) \/ RenameNote(r) \/ CreateNote(r)

Client(r) ==
    \/ \E s \in Sessions :
        \/ \E text \in Texts : CommitLabel(r, s, text)
        \/ ClickTrash(r, s) \/ ClickOpen(r, s) \/ ClickRestore(r, s) \/ ClickDelete(r, s)
        \/ ApiFavorite(r, s) \/ ApiDelete(r, s)
    \/ ClickEmpty(r) \/ ApiScan(r)
    \/ Answer(r) \/ Opened(r) \/ OpenFailed(r)

Queries == ListScan \/ ListRows \/ ListTrashed \/ ListArrives \/ TrashArrives \/ Evict

Next ==
    \/ \E s \in Sessions : MakeSession(s) \/ WavAppears(s)
    \/ \E r \in Reqs : Serve(r) \/ Client(r)
    \/ Queries
    \/ \E p \in Pages, elapsed \in BOOLEAN : Go(p, elapsed)

Spec == Init /\ [][Next]_vars

-----------------------------------------------------------------------------
(* Properties *)

\* A recording whose files are erased has been put into the trash at some time
\* before, unless a client of the API has called delete for that very recording,
\* which asks for no trash (recordings.ts:363-392).  Emptying the trash erases what
\* it read earlier (recordings.ts:337-345) and the page may show an old list, yet
\* what was never trashed is safe from both.
ErasedWasTrashed ==
    \A s \in Sessions : disk[s] = "erased" => s \in beenTrashed \cup deleted

\* What emptying the trash can do to a trashed recording that is not erased: its
\* row is deleted, and the recording is back in the list, only if it was trashed
\* after the rows were read (recordings.ts:337 against :353).  Otherwise a trashed
\* recording with its files comes back by being restored alone.
LeavesTrash ==
    [][\A s \in Sessions :
        meta[s].trashed /\ ~meta'[s].trashed /\ disk[s] # "erased"
        => \E r \in Reqs :
            \/ req[r].op = "restore" /\ req[r].s = s
            \/ At(r, "emptyTrash", "erased") /\ s \notin req[r].seen]_vars

\* With nothing in flight, the audio page tells the truth about the sessions it
\* knows: it shows those that exist and are not in the trash, with their labels,
\* however the requests were overtaken by each other, by pages left and entered
\* and by fetches cancelled (audio/page.tsx:124-136, settings/page.tsx:17-35).
\* Two things escape it.  A session deleted over the API, of which no browser is
\* told; and a list whose very first answer was read by the server before a change
\* and comes after the change was told (overtaken), which is then taken for fresh
\* until the list is invalidated or too old: a recording restored at that moment
\* stays hidden.
ListSettles ==
    page = "audio" /\ list.st = "idle" /\ ~list.overtaken /\ (\A r \in Reqs : Free(r))
    => \A s \in DOMAIN list.items \ deleted :
        \/ s \in Shown(list) /\ disk[s] = "wav" /\ ~meta[s].trashed
           /\ list.items[s] = meta[s].label
        \/ s \notin Shown(list) /\ (disk[s] = "erased" \/ meta[s].trashed)

=============================================================================
