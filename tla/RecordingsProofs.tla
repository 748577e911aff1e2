--------------------------- MODULE RecordingsProofs ---------------------------
(***************************************************************************)
(* Proofs about Recordings, for any number of sessions, labels and         *)
(* requests in flight.                                                     *)
(***************************************************************************)
EXTENDS Recordings, TLAPS

Answers == UNION {[S -> Texts \cup {Hidden}] : S \in SUBSET Sessions}
Req == [op : Ops \cup {"idle"}, s : Sessions \cup {0},
        text : Texts \cup {Hidden}, seen : SUBSET Sessions, live : BOOLEAN,
        pc : {"idle", "sent", "found", "absent", "erased", "create", "update",
              "rename", "ok", "failed"}]

\* A request about one session has one, and a label is a text, while it is served.
AboutOne == {"label", "favorite", "trash", "restore", "deletePermanent", "delete", "open"}
Aimed == \A r \in Reqs : req[r].pc \notin {"ok", "failed"} =>
    /\ req[r].op \in AboutOne => req[r].s \in Sessions
    /\ req[r].op = "label" => req[r].text \in Texts

TInv == TypeOK /\ Aimed

-----------------------------------------------------------------------------
(* Queries *)

LEMMA AnswerType ==
    ASSUME NEW S \in SUBSET Sessions, NEW f \in [S -> Texts \cup {Hidden}]
    PROVE  f \in Answers
BY DEF Answers

LEMMA QueryFields ==
    Query = [items : Answers, answer : Answers, data : BOOLEAN, stale : BOOLEAN, overtaken : BOOLEAN,
             st : {"idle", "sent", "scanned", "answered"}, seen : SUBSET Sessions]
BY DEF Query, Answers

LEMMA NothingType == Nothing \in Answers
<1>1. Nothing \in [{} -> Texts \cup {Hidden}]
  BY DEF Nothing
<1> QED BY <1>1, AnswerType

LEMMA FetchType == ASSUME NEW q \in Query PROVE Fetch(q) \in Query
BY QueryFields, NothingType DEF Fetch

LEMMA CancelType == ASSUME NEW q \in Query PROVE Cancel(q) \in Query
BY QueryFields, NothingType DEF Cancel

LEMMA InvalidateType ==
    ASSUME NEW q \in Query, NEW b \in BOOLEAN PROVE Invalidate(q, b) \in Query
<1> DEFINE over == q.overtaken \/ (b /\ q.st # "sent")
<1>1. [q EXCEPT !.stale = TRUE] \in Query /\ [q EXCEPT !.stale = TRUE, !.overtaken = over] \in Query
  BY QueryFields
<1>2. Invalidate(q, b) \in {Fetch([q EXCEPT !.stale = TRUE]), [q EXCEPT !.stale = TRUE, !.overtaken = over]}
  BY QueryFields DEF Invalidate
<1> HIDE DEF over
<1> QED BY <1>1, <1>2, FetchType

LEMMA StoreType == ASSUME NEW q \in Query PROVE Store(q) \in Query
BY QueryFields, NothingType DEF Store

-----------------------------------------------------------------------------
(* Types *)

LEMMA TypeInit == Init => TInv
<1> SUFFICES ASSUME Init PROVE TInv
  OBVIOUS
<1>1. NoQuery \in Query
  BY QueryFields, NothingType DEF NoQuery
<1>2. list \in Query /\ trash \in Query
  BY <1>1, FetchType DEF Init
<1>3. req \in [Reqs -> Req]
  BY DEF Init, NoReq, Req, Texts
<1>4. meta \in [Sessions -> Rows]
  BY DEF Init, NoRow, Rows, Texts
<1>5. Aimed
  BY DEF Init, Aimed, AboutOne, NoReq
<1>6. /\ disk \in [Sessions -> {"absent", "empty", "wav", "erased"}]
      /\ note \in [Sessions -> Texts \cup {Hidden}]
      /\ page \in Pages /\ calls \in 0 .. MaxCalls
      /\ beenTrashed \subseteq Sessions /\ deleted \subseteq Sessions
  BY RecordingsAssumption DEF Init, Pages
<1> QED BY <1>2, <1>3, <1>4, <1>5, <1>6 DEF TInv, TypeOK, Req

\* A handler goes on: its request stays what it was.
LEMMA GotoType ==
    ASSUME TInv, NEW r \in Reqs,
           NEW to \in {"sent", "found", "absent", "erased", "create", "update", "rename", "ok", "failed"},
           Goto(r, to), req[r].pc \notin {"ok", "failed"}
    PROVE  req' \in [Reqs -> Req] /\ Aimed'
BY DEF Goto, Req, Aimed, TInv, TypeOK

\* A handler is done.
LEMMA DoneType ==
    ASSUME TInv, NEW r \in Reqs, NEW to \in {"ok", "failed"}, Done(r, to)
    PROVE  req' \in [Reqs -> Req] /\ Aimed'
<1>1. req \in [Reqs -> Req] /\ Aimed
  BY DEF TInv, TypeOK, Req
<1> DEFINE new == IF req[r].op \in ApiOps THEN NoReq
                  ELSE [NoReq EXCEPT !.op = req[r].op, !.pc = to, !.live = req[r].live]
<1>2. new \in Req /\ (new.pc \in {"ok", "failed"} \/ new.op = "idle")
  BY <1>1 DEF NoReq, Req, Texts
<1>3. req' = [req EXCEPT ![r] = new]
  BY <1>1 DEF Done
<1> HIDE DEF new
<1>4. req' \in [Reqs -> Req]
  BY <1>1, <1>2, <1>3
<1>5. Aimed'
  BY <1>1, <1>2, <1>3 DEF Aimed, AboutOne
<1> QED BY <1>4, <1>5

\* A handler goes on with what it has read.
LEMMA SeenType ==
    ASSUME TInv, NEW r \in Reqs,
           NEW to \in {"sent", "found", "absent", "erased", "create", "update", "rename", "ok", "failed"},
           NEW S \in SUBSET Sessions,
           req' = [req EXCEPT ![r].pc = to, ![r].seen = S]
    PROVE  req' \in [Reqs -> Req]
<1>1. req \in [Reqs -> Req]
  BY DEF TInv, TypeOK, Req
<1> DEFINE new == [req[r] EXCEPT !.pc = to, !.seen = S]
<1>2. new \in Req
  BY <1>1 DEF Req
<1>3. req' = [req EXCEPT ![r] = new]
  BY <1>1 DEF Req
<1> QED BY <1>1, <1>2, <1>3

LEMMA TextType ==
    ASSUME TInv, NEW r \in Reqs,
           NEW to \in {"sent", "found", "absent", "erased", "create", "update", "rename", "ok", "failed"},
           NEW text \in Texts \cup {Hidden},
           req' = [req EXCEPT ![r].pc = to, ![r].text = text]
    PROVE  req' \in [Reqs -> Req]
<1>1. req \in [Reqs -> Req]
  BY DEF TInv, TypeOK, Req
<1> DEFINE new == [req[r] EXCEPT !.pc = to, !.text = text]
<1>2. new \in Req
  BY <1>1 DEF Req
<1>3. req' = [req EXCEPT ![r] = new]
  BY <1>1 DEF Req
<1> QED BY <1>1, <1>2, <1>3

\* A row that is changed is a row.
LEMMA RowType ==
    ASSUME TInv, NEW s, NEW row \in Rows
    PROVE  [meta EXCEPT ![s] = row] \in [Sessions -> Rows]
BY DEF TInv, TypeOK

LEMMA FreshType == FreshRow \in Rows /\ NoRow \in Rows
BY DEF FreshRow, NoRow, Rows, Texts

LEMMA TypeStep == TInv /\ [Next]_vars => TInv'
<1> SUFFICES ASSUME TInv, [Next]_vars PROVE TInv'
  OBVIOUS
<1> USE RecordingsAssumption
<1>t. /\ disk \in [Sessions -> {"absent", "empty", "wav", "erased"}]
      /\ meta \in [Sessions -> Rows]
      /\ note \in [Sessions -> Texts \cup {Hidden}]
      /\ req \in [Reqs -> Req]
      /\ list \in Query /\ trash \in Query
      /\ page \in Pages /\ calls \in 0 .. MaxCalls
      /\ beenTrashed \subseteq Sessions /\ deleted \subseteq Sessions
  BY DEF TInv, TypeOK, Req
<1>a. Aimed
  BY DEF TInv
<1>q. ASSUME disk' \in [Sessions -> {"absent", "empty", "wav", "erased"}],
             meta' \in [Sessions -> Rows],
             note' \in [Sessions -> Texts \cup {Hidden}],
             req' \in [Reqs -> Req],
             list' \in Query, trash' \in Query,
             page' \in Pages, calls' \in 0 .. MaxCalls,
             beenTrashed' \subseteq Sessions, deleted' \subseteq Sessions,
             Aimed'
      PROVE  TInv'
  BY <1>q DEF TInv, TypeOK, Req
<1>1. CASE UNCHANGED vars
  BY <1>1, <1>t, <1>a, <1>q DEF vars, Aimed
<1>2. CASE \E s \in Sessions : MakeSession(s) \/ WavAppears(s)
  BY <1>2, <1>t, <1>a, <1>q DEF MakeSession, WavAppears, Aimed
<1>3. ASSUME NEW r \in Reqs, Serve(r) PROVE TInv'
  <2>r. req[r] \in Req
    BY <1>t
  <2>1. CASE Label(r)
    <3>1. Done(r, "ok") /\ At(r, "label", "sent")
      BY <2>1 DEF Label, Upsert
    <3>2. req[r].text \in Texts
      BY <3>1, <1>a DEF At, Aimed, AboutOne
    <3> DEFINE was == meta[req[r].s]
               row == IF was.row THEN was ELSE FreshRow
    <3>3. meta' = [meta EXCEPT ![req[r].s] = [row EXCEPT !.label = req[r].text]]
      BY <2>1 DEF Label, Upsert
    <3>4. req[r].s \in Sessions
      BY <3>1, <1>a DEF At, Aimed, AboutOne
    <3>5. row \in Rows
      BY <3>4, <1>t, FreshType
    <3> HIDE DEF row
    <3>6. meta' \in [Sessions -> Rows]
      BY <3>2, <3>3, <3>5, <1>t DEF Rows
    <3>7. UNCHANGED <<disk, note, list, trash, page, calls, beenTrashed, deleted>>
      BY <2>1 DEF Label, Upsert
    <3> QED BY <3>1, <3>6, <3>7, <1>t, <1>q, DoneType
  <2>16. CASE Favorite(r)
    <3>1. Done(r, "ok") /\ At(r, "favorite", "sent")
      BY <2>16 DEF Favorite, Upsert
    <3> DEFINE was == meta[req[r].s]
               row == IF was.row THEN was ELSE FreshRow
    <3>3. meta' = [meta EXCEPT ![req[r].s] = row]
      BY <2>16 DEF Favorite, Upsert
    <3>4. req[r].s \in Sessions
      BY <3>1, <1>a DEF At, Aimed, AboutOne
    <3>5. row \in Rows
      BY <3>4, <1>t, FreshType
    <3> HIDE DEF row
    <3>6. meta' \in [Sessions -> Rows]
      BY <3>3, <3>5, <1>t
    <3>7. UNCHANGED <<disk, note, list, trash, page, calls, beenTrashed, deleted>>
      BY <2>16 DEF Favorite, Upsert
    <3> QED BY <3>1, <3>6, <3>7, <1>t, <1>q, DoneType
  <2>2. CASE Trash(r)
    <3>1. Done(r, "ok") /\ At(r, "trash", "sent")
      BY <2>2 DEF Trash, Upsert
    <3> DEFINE was == meta[req[r].s]
               row == IF was.row THEN was ELSE FreshRow
    <3>3. meta' = [meta EXCEPT ![req[r].s] = [row EXCEPT !.trashed = TRUE]]
      BY <2>2 DEF Trash, Upsert
    <3>4. req[r].s \in Sessions
      BY <3>1, <1>a DEF At, Aimed, AboutOne
    <3>5. row \in Rows
      BY <3>4, <1>t, FreshType
    <3> HIDE DEF row
    <3>6. meta' \in [Sessions -> Rows]
      BY <3>3, <3>5, <1>t DEF Rows
    <3>7. UNCHANGED <<disk, note, list, trash, page, calls, deleted>>
      BY <2>2 DEF Trash, Upsert
    <3>8. beenTrashed' \subseteq Sessions
      BY <2>2, <3>4, <1>t DEF Trash
    <3> QED BY <3>1, <3>6, <3>7, <3>8, <1>t, <1>q, DoneType
  <2>3. CASE Restore(r)
    <3>1. req' \in [Reqs -> Req] /\ Aimed'
      BY <2>3, DoneType DEF Restore
    <3>2. meta' \in [Sessions -> Rows]
      <4>1. req[r].s \in Sessions
        BY <2>3, <1>a DEF Restore, At, Aimed, AboutOne
      <4>2. CASE meta' = [meta EXCEPT ![req[r].s].trashed = FALSE]
        <5>1. [meta[req[r].s] EXCEPT !.trashed = FALSE] \in Rows
          BY <4>1, <1>t DEF Rows
        <5> QED BY <4>2, <5>1, <1>t
      <4> QED BY <2>3, <4>2, <1>t DEF Restore
    <3> QED BY <2>3, <3>1, <3>2, <1>t, <1>q DEF Restore
  <2>4. CASE RemoveDir(r)
    <3>1. req' \in [Reqs -> Req] /\ Aimed'
      BY <2>4, GotoType DEF RemoveDir, Deleting, At
    <3>2. deleted' \subseteq Sessions
      <4>1. req[r].s \in Sessions
        BY <2>4, <1>a DEF RemoveDir, Deleting, At, Aimed, AboutOne
      <4> QED BY <2>4, <4>1, <1>t DEF RemoveDir
    <3>3. disk' \in [Sessions -> {"absent", "empty", "wav", "erased"}]
      BY <2>4, <1>t DEF RemoveDir
    <3> QED BY <2>4, <3>1, <3>2, <3>3, <1>t, <1>q DEF RemoveDir
  <2>5. CASE RemoveRow(r)
    <3>1. req' \in [Reqs -> Req] /\ Aimed'
      BY <2>5, DoneType DEF RemoveRow
    <3>2. meta' \in [Sessions -> Rows]
      BY <2>5, RowType, FreshType DEF RemoveRow
    <3> QED BY <2>5, <3>1, <3>2, <1>t, <1>q DEF RemoveRow
  <2>6. CASE FindTrashed(r)
    <3>1. req' \in [Reqs -> Req]
      <4>1. Trashed \subseteq Sessions
        BY DEF Trashed
      <4> QED BY <2>6, <4>1, SeenType DEF FindTrashed
    <3>2. Aimed'
      BY <2>6, <1>t, <1>a DEF FindTrashed, At, Aimed, AboutOne, Req
    <3> QED BY <2>6, <3>1, <3>2, <1>t, <1>q DEF FindTrashed
  <2>7. CASE RemoveFound(r)
    <3>1. req' \in [Reqs -> Req] /\ Aimed'
      BY <2>7, GotoType DEF RemoveFound, At
    <3> QED BY <2>7, <3>1, <1>t, <1>q DEF RemoveFound
  <2>8. CASE DeleteTrashed(r)
    <3>1. req' \in [Reqs -> Req] /\ Aimed'
      BY <2>8, DoneType DEF DeleteTrashed
    <3>2. meta' \in [Sessions -> Rows]
      BY <2>8, FreshType, <1>t DEF DeleteTrashed
    <3> QED BY <2>8, <3>1, <3>2, <1>t, <1>q DEF DeleteTrashed
  <2>9. CASE ScanDirs(r)
    <3>1. req' \in [Reqs -> Req]
      <4>1. WithWav \subseteq Sessions
        BY DEF WithWav
      <4> QED BY <2>9, <4>1, SeenType DEF ScanDirs
    <3>2. Aimed'
      BY <2>9, <1>t, <1>a DEF ScanDirs, At, Aimed, AboutOne, Req
    <3> QED BY <2>9, <3>1, <3>2, <1>t, <1>q DEF ScanDirs
  <2>10. CASE ScanFind(r)
    <3>1. CASE Done(r, "ok")
      <4>1. req' \in [Reqs -> Req] /\ Aimed'
        BY <3>1, DoneType
      <4> QED BY <2>10, <4>1, <1>t, <1>q DEF ScanFind
    <3>2. ASSUME NEW s \in Sessions, NEW to \in {"create", "update", "found"},
                 req' = [req EXCEPT ![r].s = s, ![r].seen = @ \ {s}, ![r].pc = to]
          PROVE  TInv'
      <4>1. req' \in [Reqs -> Req]
        <5> DEFINE new == [req[r] EXCEPT !.s = s, !.seen = @ \ {s}, !.pc = to]
        <5>1. new \in Req
          BY <1>t DEF Req
        <5>2. req' = [req EXCEPT ![r] = new]
          BY <3>2, <1>t DEF Req
        <5> QED BY <5>1, <5>2, <1>t
      <4>2. Aimed'
        <5>1. req[r].op = "scan"
          BY <2>10 DEF ScanFind, At
        <5>2. req'[r].op = "scan" /\ \A q \in Reqs \ {r} : req'[q] = req[q]
          BY <3>2, <5>1, <1>t DEF Req
        <5> QED BY <5>2, <1>a DEF Aimed, AboutOne
      <4> QED BY <2>10, <4>1, <4>2, <1>t, <1>q DEF ScanFind
    <3>3. req[r].seen \subseteq Sessions
      BY <2>r DEF Req
    <3> QED BY <2>10, <3>1, <3>2, <3>3 DEF ScanFind
  <2>11. CASE ScanStore(r)
    <3>1. req' \in [Reqs -> Req] /\ Aimed'
      BY <2>11, GotoType, DoneType DEF ScanStore, At
    <3>2. meta' \in [Sessions -> Rows]
      <4> DEFINE was == meta[req[r].s]
                 row == IF was.row THEN was ELSE FreshRow
      <4>1. CASE UNCHANGED meta
        BY <4>1, <1>t
      <4>2. CASE meta' = [meta EXCEPT ![req[r].s] = [row EXCEPT !.size = TRUE]]
        <5>1. CASE req[r].s \in Sessions
          <6>1. row \in Rows
            BY <5>1, <1>t, FreshType
          <6> HIDE DEF row
          <6> QED BY <4>2, <5>1, <6>1, <1>t DEF Rows
        <5>2. CASE req[r].s \notin Sessions
          BY <4>2, <5>2, <1>t
        <5> QED BY <5>1, <5>2
      <4> QED BY <2>11, <4>1, <4>2 DEF ScanStore
    <3> QED BY <2>11, <3>1, <3>2, <1>t, <1>q DEF ScanStore
  <2>12. CASE FindNote(r)
    <3>1. req[r].op = "open" /\ req[r].s \in Sessions
      BY <2>12, <1>a DEF FindNote, At, Aimed, AboutOne
    <3>2. note[req[r].s] \in Texts \cup {Hidden}
      BY <3>1, <1>t
    <3>3. req' \in [Reqs -> Req]
      <4> DEFINE to == IF note[req[r].s] = Hidden THEN "absent" ELSE "found"
      <4>1. req' = [req EXCEPT ![r].pc = to, ![r].text = note[req[r].s]]
        BY <2>12 DEF FindNote
      <4>2. to \in {"absent", "found"}
        OBVIOUS
      <4> HIDE DEF to
      <4> QED BY <3>2, <4>1, <4>2, TextType
    <3>4. Aimed'
      BY <2>12, <3>1, <1>t, <1>a DEF FindNote, At, Aimed, AboutOne, Req
    <3> QED BY <2>12, <3>3, <3>4, <1>t, <1>q DEF FindNote
  <2>13. CASE FindLabel(r)
    <3>1. req[r].op = "open" /\ req[r].s \in Sessions
      BY <2>13, <1>a DEF FindLabel, Aimed, AboutOne
    <3>2. meta[req[r].s].label \in Texts
      BY <3>1, <1>t DEF Rows
    <3>3. req' \in [Reqs -> Req]
      BY <2>13, <3>1, <3>2, <1>t DEF FindLabel, Req
    <3>4. Aimed'
      BY <2>13, <3>1, <1>t, <1>a DEF FindLabel, Aimed, AboutOne, Req
    <3> QED BY <2>13, <3>3, <3>4, <1>t, <1>q DEF FindLabel
  <2>14. CASE RenameNote(r)
    <3>1. req' \in [Reqs -> Req] /\ Aimed'
      BY <2>14, DoneType DEF RenameNote
    <3>2. req[r].text \in Texts \cup {Hidden}
      BY <2>r DEF Req
    <3> QED BY <2>14, <3>1, <3>2, <1>t, <1>q DEF RenameNote
  <2>15. CASE CreateNote(r)
    <3>1. req' \in [Reqs -> Req] /\ Aimed'
      BY <2>15, DoneType DEF CreateNote
    <3>2. req[r].text \in Texts \cup {Hidden}
      BY <2>r DEF Req
    <3> QED BY <2>15, <3>1, <3>2, <1>t, <1>q DEF CreateNote
  <2> QED BY <1>3, <2>1, <2>2, <2>3, <2>4, <2>5, <2>6, <2>7, <2>8, <2>9, <2>10, <2>11,
             <2>12, <2>13, <2>14, <2>15, <2>16 DEF Serve
<1>4. ASSUME NEW r \in Reqs, NEW op \in Ops, NEW s \in Sessions \cup {0}, NEW text \in Texts,
             NEW live \in BOOLEAN, Call(r, op, s, text, live),
             op \in AboutOne => s \in Sessions
      PROVE  TInv'
  <2>1. req' \in [Reqs -> Req]
    BY <1>4, <1>t DEF Call, Req
  <2>2. Aimed'
    BY <1>4, <1>t, <1>a DEF Call, Aimed, Req
  <2>3. calls' \in 0 .. MaxCalls
    BY <1>4, <1>t DEF Call
  <2> QED BY <1>4, <2>1, <2>2, <2>3, <1>t, <1>q DEF Call
<1>5. None \in Texts /\ Texts \subseteq Texts
  BY DEF Texts
<1>6. ASSUME NEW r \in Reqs, Client(r) PROVE TInv'
  <2>1. ASSUME NEW s \in Sessions, NEW text \in Texts, CommitLabel(r, s, text) PROVE TInv'
    BY <2>1, <1>4 DEF CommitLabel, Ops
  <2>2. ASSUME NEW s \in Sessions,
               ClickTrash(r, s) \/ ClickOpen(r, s) \/ ClickRestore(r, s) \/ ClickDelete(r, s)
        PROVE  TInv'
    BY <2>2, <1>4, <1>5 DEF ClickTrash, ClickOpen, ClickRestore, ClickDelete, Ops
  <2>9. ASSUME NEW s \in Sessions, ApiFavorite(r, s) \/ ApiDelete(r, s) PROVE TInv'
    BY <2>9, <1>4, <1>5 DEF ApiFavorite, ApiDelete, Ops, ApiOps
  <2>3. CASE ClickEmpty(r) \/ ApiScan(r)
    BY <2>3, <1>4, <1>5 DEF ClickEmpty, ApiScan, Ops, ApiOps, AboutOne
  <2>4. ASSUME req' = [req EXCEPT ![r] = NoReq] PROVE req' \in [Reqs -> Req] /\ Aimed'
    BY <2>4, <1>t, <1>a DEF NoReq, Req, Aimed, AboutOne, Texts
  <2>5. CASE Answer(r)
    <3>1. req' \in [Reqs -> Req] /\ Aimed'
      BY <2>5, <2>4 DEF Answer
    <3>2. list' \in Query /\ trash' \in Query
      BY <2>5, <1>t, InvalidateType DEF Answer
    <3> QED BY <2>5, <3>1, <3>2, <1>t, <1>q DEF Answer
  <2>6. CASE Opened(r)
    <3>1. list' \in Query /\ trash' \in Query /\ page' \in Pages
      BY <2>6, <1>t, FetchType, CancelType DEF Opened, Show, Pages
    <3>2. req' \in [Reqs -> Req]
      <4>1. NoReq \in Req
        BY DEF NoReq, Req, Texts
      <4>2. \A q \in Reqs : [req[q] EXCEPT !.live = FALSE] \in Req
        BY <1>t DEF Req
      <4> QED BY <2>6, <4>1, <4>2 DEF Opened
    <3>3. Aimed'
      BY <2>6, <1>t, <1>a DEF Opened, NoReq, Aimed, AboutOne, Req
    <3> QED BY <2>6, <3>1, <3>2, <3>3, <1>t, <1>q DEF Opened, serverVars
  <2>7. CASE OpenFailed(r)
    <3>1. req' \in [Reqs -> Req] /\ Aimed'
      BY <2>7, <2>4 DEF OpenFailed
    <3> QED BY <2>7, <3>1, <1>t, <1>q DEF OpenFailed, serverVars
  <2> QED BY <1>6, <2>1, <2>2, <2>3, <2>5, <2>6, <2>7, <2>9 DEF Client
<1>7. CASE Queries
  <2>1. CASE ListScan
    <3>1. FirstPage(WithWav) \subseteq Sessions
      BY DEF FirstPage, WithWav
    <3>2. list' \in Query
      BY <2>1, <3>1, <1>t, QueryFields DEF ListScan
    <3> QED BY <2>1, <3>2, <1>t, <1>a, <1>q DEF ListScan, Aimed
  <2>2. CASE ListRows
    <3> DEFINE answer == [s \in list.seen |-> IF meta[s].trashed THEN Hidden ELSE meta[s].label]
    <3>1. list.seen \subseteq Sessions
      BY <1>t, QueryFields
    <3>2. answer \in [list.seen -> Texts \cup {Hidden}]
      BY <3>1, <1>t DEF Rows
    <3>3. answer \in Answers
      BY <3>1, <3>2, AnswerType
    <3>4. list' = [list EXCEPT !.st = "answered", !.answer = answer]
      BY <2>2 DEF ListRows
    <3> HIDE DEF answer
    <3>5. list' \in Query
      BY <3>3, <3>4, <1>t, QueryFields
    <3> QED BY <2>2, <3>5, <1>t, <1>a, <1>q DEF ListRows, Aimed
  <2>3. CASE ListTrashed
    <3> DEFINE answer == [s \in Trashed |-> None]
    <3>1. Trashed \subseteq Sessions
      BY DEF Trashed
    <3>2. answer \in [Trashed -> Texts \cup {Hidden}]
      BY DEF Texts
    <3>3. answer \in Answers
      BY <3>1, <3>2, AnswerType
    <3>4. trash' = [trash EXCEPT !.st = "answered", !.answer = answer]
      BY <2>3 DEF ListTrashed
    <3> HIDE DEF answer
    <3>5. trash' \in Query
      BY <3>3, <3>4, <1>t, QueryFields
    <3> QED BY <2>3, <3>5, <1>t, <1>a, <1>q DEF ListTrashed, Aimed
  <2>4. CASE ListArrives \/ TrashArrives
    <3>1. list' \in Query /\ trash' \in Query
      BY <2>4, <1>t, StoreType DEF ListArrives, TrashArrives
    <3> QED BY <2>4, <3>1, <1>t, <1>a, <1>q DEF ListArrives, TrashArrives, serverVars, Aimed
  <2>5. CASE Evict
    <3>1. NoQuery \in Query
      BY QueryFields, NothingType DEF NoQuery
    <3> QED BY <2>5, <3>1, <1>t, <1>a, <1>q DEF Evict, serverVars, Aimed
  <2> QED BY <1>7, <2>1, <2>2, <2>3, <2>4, <2>5 DEF Queries
<1>8. ASSUME NEW p \in Pages, NEW elapsed \in BOOLEAN, Go(p, elapsed) PROVE TInv'
  <2>1. list' \in Query /\ trash' \in Query /\ page' \in Pages
    BY <1>8, <1>t, FetchType, CancelType DEF Go, Show
  <2>2. req' \in [Reqs -> Req]
    <3>1. \A q \in Reqs : [req[q] EXCEPT !.live = FALSE] \in Req
      BY <1>t DEF Req
    <3> QED BY <1>8, <3>1 DEF Go
  <2>3. Aimed'
    BY <1>8, <1>t, <1>a DEF Go, Aimed, Req
  <2> QED BY <1>8, <2>1, <2>2, <2>3, <1>t, <1>q DEF Go, serverVars
<1> QED BY <1>1, <1>2, <1>3, <1>6, <1>7, <1>8 DEF Next

\* Every variable keeps its type.
THEOREM TypeCorrect == Spec => []TypeOK
<1>1. TInv => TypeOK
  BY DEF TInv
<1> QED BY TypeInit, TypeStep, <1>1, PTL DEF Spec

-----------------------------------------------------------------------------
(* The trash *)

\* What is in the trash has a row, and a row that is gone has no label.
Rowed == \A s \in Sessions :
    /\ meta[s].trashed => meta[s].row /\ s \in beenTrashed
    /\ ~meta[s].row => meta[s].label = None

\* The daemon has finished making s: it will not become a file again.
Exists(s) == disk[s] \in {"wav", "erased"}

\* What was trashed and what the lists hold exists; what the trash shows was
\* trashed.
Known ==
    /\ \A s \in beenTrashed : Exists(s)
    /\ \A s \in list.seen \cup DOMAIN list.answer \cup DOMAIN list.items : Exists(s)
    /\ \A s \in DOMAIN trash.answer \cup DOMAIN trash.items : s \in beenTrashed

\* What a request is about while it is served, and what it has removed by then.
Target(r) == req[r].pc \notin {"ok", "failed"} =>
    /\ req[r].op \in {"label", "trash", "open"} => Exists(req[r].s)
    /\ req[r].op \in {"restore", "deletePermanent"} => req[r].s \in beenTrashed
    /\ req[r].op = "delete" => disk[req[r].s] # "absent"
    /\ req[r].op = "emptyTrash" => req[r].seen \subseteq beenTrashed
    /\ req[r].pc = "erased" =>
        /\ req[r].op \in {"deletePermanent", "delete"} => disk[req[r].s] = "erased"
        /\ req[r].op = "delete" => req[r].s \in deleted
        /\ req[r].op = "emptyTrash" => \A s \in req[r].seen : disk[s] = "erased"
Targets == \A r \in Reqs : Target(r)

TrashInv == Rowed /\ Known /\ Targets /\ ErasedWasTrashed

LEMMA TrashInit == Init => TrashInv
<1> SUFFICES ASSUME Init PROVE TrashInv
  OBVIOUS
<1>1. Rowed
  BY DEF Init, NoRow, Rowed
<1>2. Known
  BY DEF Init, Known, NoQuery, Fetch, Nothing
<1>3. Targets
  BY DEF Init, NoReq, Targets, Target
<1>4. ErasedWasTrashed
  BY DEF Init, ErasedWasTrashed
<1> QED BY <1>1, <1>2, <1>3, <1>4 DEF TrashInv

\* What happens to the rows.
LEMMA LabelEffect ==
    ASSUME TInv, NEW r \in Reqs, Label(r)
    PROVE  /\ req[r].s \in Sessions
           /\ \A s \in Sessions \ {req[r].s} : meta'[s] = meta[s]
           /\ meta'[req[r].s].row
           /\ meta'[req[r].s].trashed => meta[req[r].s].row /\ meta[req[r].s].trashed
           /\ meta[req[r].s].row => meta'[req[r].s].trashed = meta[req[r].s].trashed
<1>1. req[r].s \in Sessions
  BY DEF Label, Upsert, At, TInv, Aimed, AboutOne
<1> DEFINE was == meta[req[r].s]
           row == IF was.row THEN was ELSE FreshRow
<1>2. meta' = [meta EXCEPT ![req[r].s] = [row EXCEPT !.label = req[r].text]]
  BY DEF Label, Upsert
<1>3. meta \in [Sessions -> Rows] /\ FreshRow \in Rows
  BY FreshType DEF TInv, TypeOK
<1>4. row \in Rows
  BY <1>1, <1>3
<1>5. row.row /\ (was.row => row = was) /\ (~was.row => ~row.trashed)
  BY DEF FreshRow, NoRow
<1> HIDE DEF row
<1>6. meta'[req[r].s] = [row EXCEPT !.label = req[r].text]
  BY <1>1, <1>2, <1>3
<1> QED BY <1>1, <1>2, <1>3, <1>4, <1>5, <1>6 DEF Rows

\* Starring a recording changes neither its label nor whether it is in the trash.
LEMMA FavoriteEffect ==
    ASSUME TInv, Rowed, NEW r \in Reqs, Favorite(r), NEW s \in Sessions
    PROVE  /\ meta'[s].trashed = meta[s].trashed /\ meta'[s].label = meta[s].label
           /\ meta[s].row => meta'[s].row
<1> DEFINE was == meta[req[r].s]
           row == IF was.row THEN was ELSE FreshRow
<1>1. meta' = [meta EXCEPT ![req[r].s] = row]
  BY DEF Favorite, Upsert
<1>2. meta \in [Sessions -> Rows]
  BY DEF TInv, TypeOK
<1>3. FreshRow.row = TRUE /\ FreshRow.trashed = FALSE /\ FreshRow.label = None
  BY DEF FreshRow, NoRow
<1>4. meta[s].trashed \in BOOLEAN
  BY <1>2 DEF Rows
<1>5. CASE s # req[r].s
  BY <1>1, <1>2, <1>5
<1>6. CASE s = req[r].s /\ was.row
  BY <1>1, <1>2, <1>6
<1>7. CASE s = req[r].s /\ ~was.row
  <2>1. meta'[s] = FreshRow
    BY <1>1, <1>2, <1>7
  <2>2. ~meta[s].trashed /\ meta[s].label = None /\ ~meta[s].row
    BY <1>7 DEF Rowed
  <2> HIDE DEF was, row
  <2> QED BY <2>1, <2>2, <1>3, <1>4
<1> QED BY <1>5, <1>6, <1>7

LEMMA TrashEffect ==
    ASSUME TInv, NEW r \in Reqs, Trash(r)
    PROVE  /\ req[r].s \in Sessions
           /\ \A s \in Sessions \ {req[r].s} : meta'[s] = meta[s]
           /\ meta'[req[r].s].row /\ meta'[req[r].s].trashed
<1>1. req[r].s \in Sessions
  BY DEF Trash, Upsert, At, TInv, Aimed, AboutOne
<1> DEFINE was == meta[req[r].s]
           row == IF was.row THEN was ELSE FreshRow
<1>2. meta' = [meta EXCEPT ![req[r].s] = [row EXCEPT !.trashed = TRUE]]
  BY DEF Trash, Upsert
<1>3. meta \in [Sessions -> Rows] /\ FreshRow \in Rows
  BY FreshType DEF TInv, TypeOK
<1>4. row \in Rows
  BY <1>1, <1>3
<1>5. row.row
  BY DEF FreshRow, NoRow
<1> HIDE DEF row
<1>6. meta'[req[r].s] = [row EXCEPT !.trashed = TRUE]
  BY <1>1, <1>2, <1>3
<1> QED BY <1>1, <1>2, <1>3, <1>4, <1>5, <1>6 DEF Rows

\* A scan changes neither a label nor what is in the trash.
LEMMA ScanEffect ==
    ASSUME TInv, Rowed, NEW r \in Reqs, ScanStore(r), NEW s \in Sessions
    PROVE  /\ meta'[s].trashed = meta[s].trashed /\ meta'[s].label = meta[s].label
           /\ meta[s].row => meta'[s].row
<1> DEFINE was == meta[req[r].s]
           row == IF was.row THEN was ELSE FreshRow
<1>1. meta' = meta \/ meta' = [meta EXCEPT ![req[r].s] = [row EXCEPT !.size = TRUE]]
  BY DEF ScanStore
<1>2. meta \in [Sessions -> Rows] /\ FreshRow \in Rows
  BY FreshType DEF TInv, TypeOK
<1>3. ASSUME s = req[r].s
      PROVE row \in Rows /\ row.row /\ row.trashed = was.trashed /\ row.label = was.label
  <2>1. CASE was.row
    BY <1>2, <1>3, <2>1
  <2>2. CASE ~was.row
    <3>1. ~was.trashed /\ was.label = None
      BY <1>3, <2>2 DEF Rowed
    <3>2. was.trashed \in BOOLEAN
      BY <1>2, <1>3 DEF Rows
    <3>3. row = FreshRow
      BY <2>2
    <3>4. FreshRow.row = TRUE /\ FreshRow.trashed = FALSE /\ FreshRow.label = None
      BY DEF FreshRow, NoRow
    <3>5. was.trashed = FALSE
      BY <3>1, <3>2
    <3> HIDE DEF was, row
    <3> QED BY <1>2, <3>1, <3>3, <3>4, <3>5
  <2> QED BY <2>1, <2>2
<1>4. CASE s # req[r].s
  BY <1>1, <1>2, <1>4
<1>5. CASE s = req[r].s
  <2>0. row \in Rows /\ row.row /\ row.trashed = was.trashed /\ row.label = was.label
    BY <1>3, <1>5
  <2> HIDE DEF row
  <2>1. CASE meta' = meta
    BY <2>1
  <2>2. CASE meta' = [meta EXCEPT ![req[r].s] = [row EXCEPT !.size = TRUE]]
    <3>1. meta'[s] = [row EXCEPT !.size = TRUE]
      BY <2>2, <1>2, <1>5
    <3>2. meta'[s].row = row.row /\ meta'[s].trashed = row.trashed /\ meta'[s].label = row.label
      BY <3>1, <2>0 DEF Rows
    <3> QED BY <3>2, <2>0, <1>5
  <2> QED BY <1>1, <2>1, <2>2 DEF row
<1> QED BY <1>4, <1>5

\* Nothing that exists stops existing, and what is erased stays erased.
Grows ==
    /\ \A s \in Sessions : /\ Exists(s) => Exists(s)'
                           /\ disk[s] # "absent" => disk'[s] # "absent"
                           /\ disk[s] = "erased" => disk'[s] = "erased"
    /\ beenTrashed \subseteq beenTrashed' /\ deleted \subseteq deleted'

\* The other requests keep their targets.
LEMMA TargetsKept ==
    ASSUME TInv, Targets, Grows, NEW r \in Reqs,
           \A q \in Reqs \ {r} : req'[q] = req[q], Target(r)'
    PROVE  Targets'
<1> SUFFICES ASSUME NEW q \in Reqs, q # r PROVE Target(q)'
  BY DEF Targets
<1>1. req'[q] = req[q] /\ Target(q)
  BY DEF Targets
<1>0. CASE req[q].pc \in {"ok", "failed"}
  BY <1>0, <1>1 DEF Target
<1>2. CASE req[q].pc \notin {"ok", "failed"}
  <2>2. req[q] \in Req
    BY DEF TInv, TypeOK, Req
  <2>3. req[q].op \in {"label", "trash", "open", "restore", "deletePermanent", "delete"}
        => req[q].s \in Sessions
    BY <1>2 DEF TInv, Aimed, AboutOne
  <2>4. req[q].seen \subseteq Sessions
    BY <2>2 DEF Req
  <2>5. req[q].op \in {"label", "trash", "open"} => Exists(req[q].s)'
    BY <1>1, <1>2, <2>3 DEF Target, Grows
  <2>6. req[q].op \in {"restore", "deletePermanent"} => req[q].s \in beenTrashed'
    BY <1>1, <1>2 DEF Target, Grows
  <2>7. req[q].op = "emptyTrash" => req[q].seen \subseteq beenTrashed'
    BY <1>1, <1>2 DEF Target, Grows
  <2>8. req[q].pc = "erased" /\ req[q].op \in {"deletePermanent", "delete"}
        => disk'[req[q].s] = "erased"
    BY <1>1, <1>2, <2>3 DEF Target, Grows
  <2>9. req[q].pc = "erased" /\ req[q].op = "emptyTrash"
        => \A s \in req[q].seen : disk'[s] = "erased"
    BY <1>1, <1>2, <2>4 DEF Target, Grows
  <2>10. req[q].op = "delete" => disk'[req[q].s] # "absent"
    BY <1>1, <1>2, <2>3 DEF Target, Grows
  <2>11. req[q].pc = "erased" /\ req[q].op = "delete" => req[q].s \in deleted'
    BY <1>1, <1>2 DEF Target, Grows
  <2> QED BY <1>1, <2>5, <2>6, <2>7, <2>8, <2>9, <2>10, <2>11 DEF Target, Exists
<1> QED BY <1>0, <1>2

\* The lists keep holding what exists.
LEMMA KnownKept ==
    ASSUME TInv, Known, Grows, UNCHANGED <<list, trash>>,
           \A s \in beenTrashed' \ beenTrashed : s \in Sessions /\ Exists(s)
    PROVE  Known'
<1>1. list.seen \subseteq Sessions
  BY QueryFields DEF TInv, TypeOK
<1>2. DOMAIN list.answer \subseteq Sessions /\ DOMAIN list.items \subseteq Sessions
  <2>1. ASSUME NEW f \in Answers PROVE DOMAIN f \subseteq Sessions
    BY DEF Answers
  <2> QED BY <2>1, QueryFields DEF TInv, TypeOK
<1>3. beenTrashed \subseteq Sessions
  BY DEF TInv, TypeOK
<1>4. \A s \in beenTrashed' : Exists(s)'
  BY <1>3 DEF Known, Grows
<1>5. \A s \in list.seen \cup DOMAIN list.answer \cup DOMAIN list.items : Exists(s)'
  BY <1>1, <1>2 DEF Known, Grows
<1>6. \A s \in DOMAIN trash.answer \cup DOMAIN trash.items : s \in beenTrashed'
  BY DEF Known, Grows
<1> QED BY <1>4, <1>5, <1>6 DEF Known, Exists

\* Only the request moves.
LEMMA TrashFrame ==
    ASSUME TInv, TrashInv, UNCHANGED <<disk, meta, beenTrashed, deleted, list, trash>>,
           NEW r \in Reqs, \A q \in Reqs \ {r} : req'[q] = req[q], Target(r)'
    PROVE  TrashInv'
<1>1. Grows
  BY DEF Grows, Exists
<1>2. Targets'
  BY <1>1, TargetsKept DEF TrashInv
<1>3. Known'
  BY <1>1, KnownKept DEF TrashInv
<1>4. Rowed' /\ ErasedWasTrashed'
  BY DEF TrashInv, Rowed, ErasedWasTrashed
<1> QED BY <1>2, <1>3, <1>4 DEF TrashInv

LEMMA TrashServed ==
    ASSUME TInv, TInv', TrashInv, NEW r \in Reqs, Serve(r)
    PROVE  TrashInv'
<1>t. /\ disk \in [Sessions -> {"absent", "empty", "wav", "erased"}]
      /\ meta \in [Sessions -> Rows]
      /\ req \in [Reqs -> Req]
      /\ beenTrashed \subseteq Sessions /\ deleted \subseteq Sessions
  BY DEF TInv, TypeOK, Req
<1>r. req[r] \in Req
  BY <1>t
<1>i. Rowed /\ Known /\ Targets /\ ErasedWasTrashed /\ Target(r)
  BY DEF TrashInv, Targets
\* Where a request goes, the others stay.
<1>g. ASSUME NEW to \in {"found", "erased"}, Goto(r, to)
      PROVE  /\ \A q \in Reqs \ {r} : req'[q] = req[q]
             /\ req'[r].op = req[r].op /\ req'[r].s = req[r].s
             /\ req'[r].seen = req[r].seen /\ req'[r].pc = to
  BY <1>g, <1>t DEF Goto, Req
\* A request that is done is about nothing any more.
<1>d. ASSUME NEW to \in {"ok", "failed"}, Done(r, to)
      PROVE  (\A q \in Reqs \ {r} : req'[q] = req[q]) /\ Target(r)'
  <2> DEFINE new == IF req[r].op \in ApiOps THEN NoReq
                    ELSE [NoReq EXCEPT !.op = req[r].op, !.pc = to, !.live = req[r].live]
  <2>1. req' = [req EXCEPT ![r] = new]
    BY <1>d DEF Done
  <2>2. new.pc \in {"ok", "failed"} \/ new = NoReq
    BY DEF NoReq
  <2> HIDE DEF new
  <2>3. req'[r] = new /\ \A q \in Reqs \ {r} : req'[q] = req[q]
    BY <2>1, <1>t
  <2>4. CASE new.pc \in {"ok", "failed"}
    BY <2>3, <2>4 DEF Target
  <2>5. CASE new = NoReq
    BY <2>3, <2>5 DEF Target, NoReq
  <2> QED BY <2>2, <2>3, <2>4, <2>5
<1>1. CASE Label(r)
  <2>1. Done(r, "ok") /\ UNCHANGED <<disk, list, trash, beenTrashed, deleted>>
    BY <1>1 DEF Label, Upsert
  <2>2. Grows
    BY <2>1 DEF Grows, Exists
  <2>4. Targets'
    BY <2>1, <2>2, <1>d, <1>i, TargetsKept
  <2>5. Known'
    BY <2>1, <2>2, <1>i, KnownKept
  <2>6. Rowed'
    BY <1>1, <2>1, <1>i, LabelEffect DEF Rowed
  <2> QED BY <2>1, <2>4, <2>5, <2>6, <1>i DEF TrashInv, ErasedWasTrashed
<1>12. CASE Favorite(r)
  <2>1. Done(r, "ok") /\ UNCHANGED <<disk, list, trash, beenTrashed, deleted>>
    BY <1>12 DEF Favorite, Upsert
  <2>2. Grows
    BY <2>1 DEF Grows, Exists
  <2>4. Targets'
    BY <2>1, <2>2, <1>d, <1>i, TargetsKept
  <2>5. Known'
    BY <2>1, <2>2, <1>i, KnownKept
  <2>6. Rowed'
    BY <1>12, <2>1, <1>i, FavoriteEffect DEF Rowed
  <2> QED BY <2>1, <2>4, <2>5, <2>6, <1>i DEF TrashInv, ErasedWasTrashed
<1>2. CASE Trash(r)
  <2>1. /\ Done(r, "ok") /\ At(r, "trash", "sent") /\ UNCHANGED <<disk, list, trash, deleted>>
        /\ beenTrashed' = beenTrashed \cup {req[r].s}
    BY <1>2 DEF Trash, Upsert
  <2>2. Grows
    BY <2>1 DEF Grows, Exists
  <2>4. Targets'
    BY <2>1, <2>2, <1>d, <1>i, TargetsKept
  <2>5. req[r].s \in Sessions /\ Exists(req[r].s)
    BY <2>1, <1>i DEF At, Target, TInv, Aimed, AboutOne
  <2>6. Known'
    BY <2>1, <2>2, <2>5, <1>i, KnownKept
  <2>7. Rowed'
    BY <1>2, <2>1, <1>i, TrashEffect DEF Rowed
  <2> QED BY <2>1, <2>4, <2>6, <2>7, <1>i DEF TrashInv, ErasedWasTrashed
<1>3. CASE Restore(r)
  <2>1. /\ Done(r, "ok") \/ Done(r, "failed")
        /\ UNCHANGED <<disk, list, trash, beenTrashed, deleted>>
    BY <1>3 DEF Restore
  <2>2. Grows
    BY <2>1 DEF Grows, Exists
  <2>3. Target(r)' /\ \A q \in Reqs \ {r} : req'[q] = req[q]
    BY <2>1, <1>d
  <2>4. Targets'
    BY <2>2, <2>3, <1>i, TargetsKept
  <2>5. Known'
    BY <2>1, <2>2, <1>i, KnownKept
  <2>6. Rowed'
    <3>1. meta' = meta \/ meta' = [meta EXCEPT ![req[r].s].trashed = FALSE]
      BY <1>3 DEF Restore
    <3>2. \A s \in Sessions : /\ meta'[s].row = meta[s].row /\ meta'[s].label = meta[s].label
                              /\ meta'[s].trashed => meta[s].trashed
      BY <3>1, <1>t DEF Rows
    <3> QED BY <3>2, <2>1, <1>i DEF Rowed
  <2> QED BY <2>1, <2>4, <2>5, <2>6, <1>i DEF TrashInv, ErasedWasTrashed
<1>4. CASE RemoveDir(r)
  <2>1. /\ Goto(r, "erased") /\ req[r].op \in {"deletePermanent", "delete"} /\ req[r].pc = "sent"
        /\ UNCHANGED <<meta, list, trash, beenTrashed>>
        /\ disk' = [disk EXCEPT ![req[r].s] = IF @ = "absent" THEN @ ELSE "erased"]
        /\ deleted' = IF req[r].op = "delete" THEN deleted \cup {req[r].s} ELSE deleted
    BY <1>4 DEF RemoveDir, Deleting, At
  <2>2. req[r].s \in Sessions /\ disk[req[r].s] # "absent"
    <3>1. req[r].s \in Sessions
      BY <2>1 DEF TInv, Aimed, AboutOne
    <3>2. /\ req[r].op = "deletePermanent" => req[r].s \in beenTrashed
          /\ req[r].op = "delete" => disk[req[r].s] # "absent"
      BY <2>1, <1>i DEF Target
    <3>3. req[r].s \in beenTrashed => disk[req[r].s] # "absent"
      BY <1>i DEF Known, Exists
    <3> QED BY <2>1, <3>1, <3>2, <3>3
  <2>3. disk'[req[r].s] = "erased" /\ \A s \in Sessions \ {req[r].s} : disk'[s] = disk[s]
    BY <2>1, <2>2, <1>t
  <2>4. Grows
    BY <2>1, <2>3 DEF Grows, Exists
  <2>9. req[r].s \in beenTrashed \/ (req[r].op = "delete" /\ req[r].s \in deleted')
    BY <2>1, <1>i DEF Target
  <2>5. Target(r)'
    <3>1. req'[r].op = req[r].op /\ req'[r].s = req[r].s /\ req'[r].pc = "erased"
      BY <2>1, <1>g
    <3>2. req[r].op = "deletePermanent" => req[r].s \in beenTrashed'
      BY <2>1, <1>i DEF Target
    <3> QED BY <2>1, <2>3, <2>9, <3>1, <3>2 DEF Target
  <2>6. Targets'
    BY <2>1, <2>4, <2>5, <1>g, <1>i, TargetsKept
  <2>7. Known'
    BY <2>1, <2>4, <1>i, KnownKept
  <2>8. Rowed' /\ ErasedWasTrashed'
    BY <2>1, <2>2, <2>3, <2>4, <2>9, <1>i DEF Rowed, ErasedWasTrashed, Grows
  <2> QED BY <2>6, <2>7, <2>8 DEF TrashInv
<1>5. CASE RemoveRow(r)
  <2>1. /\ Done(r, "ok")
        /\ UNCHANGED <<disk, list, trash, beenTrashed, deleted>>
        /\ meta' = [meta EXCEPT ![req[r].s] = NoRow]
    BY <1>5 DEF RemoveRow
  <2>2. Grows
    BY <2>1 DEF Grows, Exists
  <2>4. Targets'
    BY <2>1, <2>2, <1>d, <1>i, TargetsKept
  <2>5. Known'
    BY <2>1, <2>2, <1>i, KnownKept
  <2>6. Rowed'
    BY <2>1, <1>t, <1>i DEF Rowed, NoRow
  <2> QED BY <2>1, <2>4, <2>5, <2>6, <1>i DEF TrashInv, ErasedWasTrashed
<1>6. CASE FindTrashed(r)
  <2>1. /\ req' = [req EXCEPT ![r].pc = "found", ![r].seen = Trashed]
        /\ req[r].op = "emptyTrash" /\ UNCHANGED <<disk, meta, list, trash, beenTrashed, deleted>>
    BY <1>6 DEF FindTrashed, At
  <2>2. Trashed \subseteq beenTrashed
    BY <1>i DEF Trashed, Rowed
  <2>3. /\ req'[r].op = "emptyTrash" /\ req'[r].pc = "found" /\ req'[r].seen = Trashed
        /\ \A q \in Reqs \ {r} : req'[q] = req[q]
    BY <2>1, <1>t DEF Req
  <2>4. Target(r)'
    BY <2>1, <2>2, <2>3 DEF Target
  <2> QED BY <2>1, <2>3, <2>4, TrashFrame
<1>7. CASE RemoveFound(r)
  <2>1. /\ Goto(r, "erased") /\ req[r].op = "emptyTrash" /\ req[r].pc = "found"
        /\ UNCHANGED <<meta, list, trash, beenTrashed, deleted>>
        /\ disk' = [s \in Sessions |-> IF s \in req[r].seen /\ disk[s] # "absent"
                                       THEN "erased" ELSE disk[s]]
    BY <1>7 DEF RemoveFound, At
  <2>2. req[r].seen \subseteq Sessions /\ req[r].seen \subseteq beenTrashed
    BY <2>1, <1>r, <1>i DEF Target, Req
  <2>3. \A s \in req[r].seen : disk'[s] = "erased"
    BY <2>1, <2>2, <1>i DEF Known, Exists
  <2>4. \A s \in Sessions \ req[r].seen : disk'[s] = disk[s]
    BY <2>1
  <2>5. Grows
    BY <2>1, <2>3, <2>4 DEF Grows, Exists
  <2>6. Target(r)'
    BY <2>1, <2>2, <2>3, <1>g DEF Target
  <2>7. Targets'
    BY <2>1, <2>5, <2>6, <1>g, <1>i, TargetsKept
  <2>8. Known'
    BY <2>1, <2>5, <1>i, KnownKept
  <2>9. Rowed' /\ ErasedWasTrashed'
    BY <2>1, <2>2, <2>3, <2>4, <1>i DEF Rowed, ErasedWasTrashed
  <2> QED BY <2>7, <2>8, <2>9 DEF TrashInv
<1>8. CASE DeleteTrashed(r)
  <2>1. /\ Done(r, "ok")
        /\ UNCHANGED <<disk, list, trash, beenTrashed, deleted>>
        /\ meta' = [s \in Sessions |-> IF meta[s].trashed THEN NoRow ELSE meta[s]]
    BY <1>8 DEF DeleteTrashed
  <2>2. Grows
    BY <2>1 DEF Grows, Exists
  <2>4. Targets'
    BY <2>1, <2>2, <1>d, <1>i, TargetsKept
  <2>5. Known'
    BY <2>1, <2>2, <1>i, KnownKept
  <2>6. Rowed'
    BY <2>1, <1>t, <1>i DEF Rowed, NoRow
  <2> QED BY <2>1, <2>4, <2>5, <2>6, <1>i DEF TrashInv, ErasedWasTrashed
<1>9. CASE ScanDirs(r) \/ ScanFind(r)
  <2>1. req[r].op = "scan" /\ UNCHANGED <<disk, meta, list, trash, beenTrashed, deleted>>
    BY <1>9 DEF ScanDirs, ScanFind, At
  <2>4. ASSUME req'[r].op = "scan" PROVE Target(r)'
    BY <2>4 DEF Target
  <2>2. (\A q \in Reqs \ {r} : req'[q] = req[q]) /\ Target(r)'
    <3>1. CASE ScanDirs(r)
      <4>1. (\A q \in Reqs \ {r} : req'[q] = req[q]) /\ req'[r].op = "scan"
        BY <3>1, <2>1, <1>t DEF ScanDirs, Req
      <4> QED BY <4>1, <2>4
    <3>2. CASE Done(r, "ok")
      BY <3>2, <1>d
    <3>3. ASSUME NEW s \in Sessions, NEW to \in {"create", "update", "found"},
                 req' = [req EXCEPT ![r].s = s, ![r].seen = @ \ {s}, ![r].pc = to]
          PROVE  (\A q \in Reqs \ {r} : req'[q] = req[q]) /\ Target(r)'
      <4>1. (\A q \in Reqs \ {r} : req'[q] = req[q]) /\ req'[r].op = "scan"
        BY <3>3, <2>1, <1>t DEF Req
      <4> QED BY <4>1, <2>4
    <3>4. req[r].seen \subseteq Sessions
      BY <1>r DEF Req
    <3> QED BY <1>9, <3>1, <3>2, <3>3, <3>4 DEF ScanFind
  <2> QED BY <2>1, <2>2, TrashFrame
<1>10. CASE ScanStore(r)
  <2>1. /\ Goto(r, "found") \/ Done(r, "failed")
        /\ req[r].op = "scan" /\ UNCHANGED <<disk, list, trash, beenTrashed, deleted>>
    BY <1>10 DEF ScanStore, At
  <2>2. Grows
    BY <2>1 DEF Grows, Exists
  <2>3. Target(r)' /\ \A q \in Reqs \ {r} : req'[q] = req[q]
    BY <2>1, <1>g, <1>d DEF Target
  <2>4. Targets'
    BY <2>2, <2>3, <1>i, TargetsKept
  <2>5. Known'
    BY <2>1, <2>2, <1>i, KnownKept
  <2>6. Rowed'
    <3>1. meta' \in [Sessions -> Rows]
      BY DEF TInv, TypeOK
    <3> QED BY <1>10, <2>1, <3>1, <1>t, <1>i, ScanEffect DEF Rowed, Rows
  <2> QED BY <2>1, <2>4, <2>5, <2>6, <1>i DEF TrashInv, ErasedWasTrashed
<1>11. CASE FindNote(r) \/ FindLabel(r) \/ RenameNote(r) \/ CreateNote(r)
  <2>1. /\ req[r].op = "open" /\ req[r].pc \notin {"ok", "failed"}
        /\ UNCHANGED <<disk, meta, list, trash, beenTrashed, deleted>>
    BY <1>11 DEF FindNote, FindLabel, RenameNote, CreateNote, At
  <2>2. CASE Done(r, "ok") \/ Done(r, "failed")
    BY <2>1, <2>2, <1>d, TrashFrame
  <2>3. CASE FindNote(r) \/ FindLabel(r)
    <3>1. /\ \A q \in Reqs \ {r} : req'[q] = req[q]
          /\ req'[r].op = "open" /\ req'[r].s = req[r].s
      BY <2>3, <2>1, <1>t DEF FindNote, FindLabel, Req
    <3>2. Target(r)'
      BY <2>1, <3>1, <1>i DEF Target, Exists
    <3> QED BY <2>1, <3>1, <3>2, TrashFrame
  <2> QED BY <1>11, <2>2, <2>3 DEF RenameNote, CreateNote
<1> QED BY <1>1, <1>2, <1>3, <1>4, <1>5, <1>6, <1>7, <1>8, <1>9, <1>10, <1>11, <1>12 DEF Serve

LEMMA TrashStep == TInv /\ TInv' /\ TrashInv /\ [Next]_vars => TrashInv'
<1> SUFFICES ASSUME TInv, TInv', TrashInv, [Next]_vars PROVE TrashInv'
  OBVIOUS
<1>t. /\ disk \in [Sessions -> {"absent", "empty", "wav", "erased"}]
      /\ meta \in [Sessions -> Rows]
      /\ req \in [Reqs -> Req]
      /\ list \in Query /\ trash \in Query
      /\ beenTrashed \subseteq Sessions /\ deleted \subseteq Sessions
  BY DEF TInv, TypeOK, Req
<1>i. Rowed /\ Known /\ Targets /\ ErasedWasTrashed
  BY DEF TrashInv
\* Nothing moves but the requests, which keep their targets, and the lists.
<1>q. ASSUME UNCHANGED <<disk, meta, beenTrashed, deleted>>, Targets',
             \A s \in list'.seen \cup DOMAIN list'.answer \cup DOMAIN list'.items : Exists(s),
             \A s \in DOMAIN trash'.answer \cup DOMAIN trash'.items : s \in beenTrashed
      PROVE  TrashInv'
  BY <1>q, <1>i DEF TrashInv, Rowed, Known, Exists, ErasedWasTrashed
<1>l. /\ \A s \in list.seen \cup DOMAIN list.answer \cup DOMAIN list.items : Exists(s)
      /\ \A s \in DOMAIN trash.answer \cup DOMAIN trash.items : s \in beenTrashed
  BY <1>i DEF Known
<1>1. CASE UNCHANGED vars
  <2>1. Targets'
    BY <1>1, <1>i DEF vars, Targets, Target, Exists
  <2> QED BY <1>1, <1>q, <1>l, <2>1 DEF vars
<1>2. ASSUME NEW s \in Sessions, MakeSession(s) \/ WavAppears(s) PROVE TrashInv'
  <2>1. /\ UNCHANGED <<meta, req, list, trash, beenTrashed, deleted>>
        /\ disk[s] \in {"absent", "empty"}
        /\ disk' = [disk EXCEPT ![s] = "empty"] \/ disk' = [disk EXCEPT ![s] = "wav"]
    BY <1>2 DEF MakeSession, WavAppears
  <2>2. /\ \A t \in Sessions \ {s} : disk'[t] = disk[t]
        /\ ~Exists(s) /\ disk'[s] # "erased" /\ disk'[s] # "absent"
    BY <2>1, <1>t DEF Exists
  <2>3. Grows
    BY <2>1, <2>2 DEF Grows, Exists
  <2>4. Known'
    BY <2>1, <2>3, <1>i, KnownKept
  <2>5. Targets'
    <3> SUFFICES ASSUME NEW r \in Reqs PROVE Target(r)'
      BY DEF Targets
    <3>1. Target(r)'
      <4>1. Target(r)
        BY <1>i DEF Targets
      <4>2. CASE req[r].pc \in {"ok", "failed"}
        BY <2>1, <4>2 DEF Target
      <4>3. CASE req[r].pc \notin {"ok", "failed"}
        <5>1. req[r].op \in {"label", "trash", "open", "restore", "deletePermanent", "delete"}
              => req[r].s \in Sessions
          BY <4>3 DEF TInv, Aimed, AboutOne
        <5>2. req[r].seen \subseteq Sessions
          BY <1>t DEF Req
        <5> QED BY <2>1, <2>2, <2>3, <4>1, <4>3, <5>1, <5>2 DEF Target, Exists, Grows
      <4> QED BY <4>2, <4>3
    <3> QED BY <3>1
  <2>6. Rowed' /\ ErasedWasTrashed'
    BY <2>1, <2>2, <1>i DEF Rowed, ErasedWasTrashed
  <2> QED BY <2>4, <2>5, <2>6 DEF TrashInv
<1>3. ASSUME NEW r \in Reqs, Serve(r) PROVE TrashInv'
  BY <1>3, TrashServed
<1>4. ASSUME NEW r \in Reqs, NEW op \in Ops, NEW s \in Sessions \cup {0}, NEW text, NEW live,
             Call(r, op, s, text, live),
             op \in {"label", "trash", "open"} => Exists(s),
             op \in {"restore", "deletePermanent"} => s \in beenTrashed,
             op = "delete" => disk[s] # "absent"
      PROVE  TrashInv'
  <2>1. /\ UNCHANGED <<disk, meta, beenTrashed, deleted, list, trash>>
        /\ \A q \in Reqs \ {r} : req'[q] = req[q]
        /\ req'[r] = [op |-> op, s |-> s, text |-> text, pc |-> "sent", seen |-> {}, live |-> live]
    BY <1>4, <1>t DEF Call
  <2>2. Target(r)'
    BY <1>4, <2>1 DEF Target, Exists
  <2> QED BY <2>1, <2>2, TrashFrame
<1>5. ASSUME NEW r \in Reqs, Client(r) PROVE TrashInv'
  <2>1. ASSUME NEW s \in Sessions, NEW text \in Texts, CommitLabel(r, s, text) PROVE TrashInv'
    <3>1. Exists(s)
      BY <2>1, <1>l DEF CommitLabel, Shown
    <3> QED BY <2>1, <3>1, <1>4 DEF CommitLabel, Ops
  <2>2. ASSUME NEW s \in Sessions, ClickTrash(r, s) \/ ClickOpen(r, s) PROVE TrashInv'
    <3>1. Exists(s)
      BY <2>2, <1>l DEF ClickTrash, ClickOpen, Shown
    <3> QED BY <2>2, <3>1, <1>4 DEF ClickTrash, ClickOpen, Ops
  <2>3. ASSUME NEW s \in Sessions, ClickRestore(r, s) \/ ClickDelete(r, s) PROVE TrashInv'
    <3>1. s \in beenTrashed
      BY <2>3, <1>l DEF ClickRestore, ClickDelete, Shown
    <3> QED BY <2>3, <3>1, <1>4 DEF ClickRestore, ClickDelete, Ops
  <2>4. CASE ClickEmpty(r) \/ ApiScan(r)
    BY <2>4, <1>4 DEF ClickEmpty, ApiScan, Ops, ApiOps
  <2>9. ASSUME NEW s \in Sessions, ApiFavorite(r, s) \/ ApiDelete(r, s) PROVE TrashInv'
    BY <2>9, <1>4 DEF ApiFavorite, ApiDelete, Ops, ApiOps
  <2>5. ASSUME req' = [req EXCEPT ![r] = NoReq], UNCHANGED <<disk, beenTrashed, deleted>> PROVE Targets'
    <3>1. Grows
      BY <2>5 DEF Grows, Exists
    <3>2. (\A q \in Reqs \ {r} : req'[q] = req[q]) /\ req'[r] = NoReq
      BY <2>5, <1>t
    <3>3. Target(r)'
      BY <3>2 DEF Target, NoReq
    <3> QED BY <3>1, <3>2, <3>3, <1>i, TargetsKept
  <2>6. CASE Answer(r)
    <3>1. /\ req' = [req EXCEPT ![r] = NoReq] /\ UNCHANGED <<disk, meta, beenTrashed, deleted>>
          /\ list' = list \/ list' = Invalidate(list, page = "audio")
          /\ trash' = trash \/ trash' = Invalidate(trash, page = "settings")
      BY <2>6 DEF Answer
    <3>2. Targets'
      BY <3>1, <2>5
    <3>3. ASSUME NEW q \in Query, NEW b \in BOOLEAN
          PROVE  /\ Invalidate(q, b).items = q.items
                 /\ Invalidate(q, b).seen \subseteq q.seen
                 /\ DOMAIN Invalidate(q, b).answer \subseteq DOMAIN q.answer
      BY QueryFields DEF Invalidate, Fetch, Nothing
    <3> QED BY <3>1, <3>2, <3>3, <1>q, <1>l, <1>t
  <2>7. CASE Opened(r)
    <3>1. /\ UNCHANGED <<disk, meta, beenTrashed, deleted>>
          /\ list' = Fetch(list) \/ list' = Cancel(list)
          /\ trash' = Fetch(trash) \/ trash' = Cancel(trash)
      BY <2>7 DEF Opened, Show, serverVars
    <3>2. Targets'
      <4> SUFFICES ASSUME NEW q \in Reqs PROVE Target(q)'
        BY DEF Targets
      <4>1. CASE q = r
        <5>1. req'[q] = NoReq
          BY <2>7, <4>1 DEF Opened
        <5> QED BY <5>1 DEF Target, NoReq
      <4>2. CASE q # r
        <5>1. req'[q] = [req[q] EXCEPT !.live = FALSE]
          BY <2>7, <4>2 DEF Opened
        <5>2. req'[q].op = req[q].op /\ req'[q].s = req[q].s /\ req'[q].seen = req[q].seen
              /\ req'[q].pc = req[q].pc
          BY <5>1, <1>t DEF Req
        <5> QED BY <5>2, <3>1, <1>i DEF Targets, Target, Exists
      <4> QED BY <4>1, <4>2
    <3>3. ASSUME NEW q \in Query, NEW f, f = Fetch(q) \/ f = Cancel(q)
          PROVE  f.items = q.items /\ f.seen = {} /\ DOMAIN f.answer = {}
      BY <3>3, QueryFields DEF Cancel, Fetch, Nothing
    <3> QED BY <3>1, <3>2, <3>3, <1>q, <1>l, <1>t
  <2>8. CASE OpenFailed(r)
    <3>1. req' = [req EXCEPT ![r] = NoReq] /\ UNCHANGED <<disk, meta, beenTrashed, deleted, list, trash>>
      BY <2>8 DEF OpenFailed, serverVars
    <3> QED BY <3>1, <2>5, <1>q, <1>l
  <2> QED BY <1>5, <2>1, <2>2, <2>3, <2>4, <2>6, <2>7, <2>8, <2>9 DEF Client
<1>6. CASE Queries
  <2>1. UNCHANGED <<disk, meta, beenTrashed, deleted, req>>
    BY <1>6 DEF Queries, ListScan, ListRows, ListTrashed, ListArrives, TrashArrives, Evict, serverVars
  <2>2. Targets'
    BY <2>1, <1>i DEF Targets, Target, Exists
  <2>3. CASE ListScan
    <3>1. list' = [list EXCEPT !.st = "scanned", !.seen = FirstPage(WithWav)] /\ trash' = trash
      BY <2>3 DEF ListScan
    <3>2. \A s \in FirstPage(WithWav) : Exists(s)
      BY DEF FirstPage, WithWav, Exists
    <3>3. list'.seen = FirstPage(WithWav) /\ list'.answer = list.answer /\ list'.items = list.items
      BY <3>1, <1>t, QueryFields
    <3> QED BY <2>1, <2>2, <3>1, <3>2, <3>3, <1>q, <1>l
  <2>4. CASE ListRows
    <3> DEFINE answer == [s \in list.seen |-> IF meta[s].trashed THEN Hidden ELSE meta[s].label]
    <3>1. list' = [list EXCEPT !.st = "answered", !.answer = answer] /\ trash' = trash
      BY <2>4 DEF ListRows
    <3>2. DOMAIN answer = list.seen
      OBVIOUS
    <3> HIDE DEF answer
    <3>3. list'.seen = list.seen /\ list'.answer = answer /\ list'.items = list.items
      BY <3>1, <1>t, QueryFields
    <3> QED BY <2>1, <2>2, <3>1, <3>2, <3>3, <1>q, <1>l
  <2>5. CASE ListTrashed
    <3> DEFINE answer == [s \in Trashed |-> None]
    <3>1. trash' = [trash EXCEPT !.st = "answered", !.answer = answer] /\ list' = list
      BY <2>5 DEF ListTrashed
    <3>2. DOMAIN answer = Trashed /\ Trashed \subseteq beenTrashed
      BY <1>i DEF Trashed, Rowed
    <3> HIDE DEF answer
    <3>3. trash'.answer = answer /\ trash'.items = trash.items
      BY <3>1, <1>t, QueryFields
    <3> QED BY <2>1, <2>2, <3>1, <3>2, <3>3, <1>q, <1>l
  <2>6. CASE ListArrives \/ TrashArrives
    <3>1. (list' = list \/ list' = Store(list)) /\ (trash' = trash \/ trash' = Store(trash))
      BY <2>6 DEF ListArrives, TrashArrives
    <3>2. \A q : /\ Store(q).items = q.answer /\ DOMAIN Store(q).answer = {} /\ Store(q).seen = {}
      BY DEF Store, Nothing
    <3> QED BY <2>1, <2>2, <3>1, <3>2, <1>q, <1>l
  <2>7. CASE Evict
    <3>1. list' = NoQuery /\ trash' = trash
      BY <2>7 DEF Evict
    <3>2. list'.seen = {} /\ DOMAIN list'.answer = {} /\ DOMAIN list'.items = {}
      BY <3>1 DEF NoQuery, Nothing
    <3> QED BY <2>1, <2>2, <3>1, <3>2, <1>q, <1>l
  <2> QED BY <1>6, <2>3, <2>4, <2>5, <2>6, <2>7 DEF Queries
<1>7. ASSUME NEW p \in Pages, NEW elapsed \in BOOLEAN, Go(p, elapsed) PROVE TrashInv'
  <2>1. /\ UNCHANGED <<disk, meta, beenTrashed, deleted>>
        /\ list' = Fetch(list) \/ list' = Cancel(list)
        /\ trash' = Fetch(trash) \/ trash' = Cancel(trash)
    BY <1>7 DEF Go, Show, serverVars
  <2>2. Targets'
    <3> SUFFICES ASSUME NEW q \in Reqs PROVE Target(q)'
      BY DEF Targets
    <3>1. req'[q] = [req[q] EXCEPT !.live = FALSE]
      BY <1>7 DEF Go
    <3>2. req'[q].op = req[q].op /\ req'[q].s = req[q].s /\ req'[q].seen = req[q].seen
          /\ req'[q].pc = req[q].pc
      BY <3>1, <1>t DEF Req
    <3> QED BY <3>2, <2>1, <1>i DEF Targets, Target, Exists
  <2>3. ASSUME NEW q \in Query, NEW f, f = Fetch(q) \/ f = Cancel(q)
        PROVE  f.items = q.items /\ f.seen = {} /\ DOMAIN f.answer = {}
    BY <2>3, QueryFields DEF Cancel, Fetch, Nothing
  <2> QED BY <2>1, <2>2, <2>3, <1>q, <1>l, <1>t
<1> QED BY <1>1, <1>2, <1>3, <1>5, <1>6, <1>7 DEF Next

LEMMA TrashInvHolds == Spec => [](TInv /\ TrashInv)
<1>1. Init => TInv /\ TrashInv
  BY TypeInit, TrashInit
<1>2. (TInv /\ TrashInv) /\ [Next]_vars => (TInv /\ TrashInv)'
  BY TypeStep, TrashStep
<1> QED BY <1>1, <1>2, PTL DEF Spec

\* Whatever is erased has been in the trash or was named in a delete over the API
\* (recordings.ts:363-392), for any number of recordings and of requests that
\* overtake each other: no page and no emptying of the trash (recordings.ts:337-345)
\* erases anything else.
THEOREM ErasedWasTrashedHolds == Spec => []ErasedWasTrashed
<1>1. TrashInv => ErasedWasTrashed
  BY DEF TrashInv
<1> QED BY TrashInvHolds, <1>1, PTL

\* A recording comes back from the trash by being restored, or when the trash is
\* emptied of rows that had not been read (recordings.ts:337 against :353).
THEOREM LeavesTrashHolds == Spec => LeavesTrash
<1> DEFINE Leaves(s) == meta[s].trashed /\ ~meta'[s].trashed /\ disk[s] # "erased"
           Excused(s) == \E r \in Reqs :
               \/ req[r].op = "restore" /\ req[r].s = s
               \/ At(r, "emptyTrash", "erased") /\ s \notin req[r].seen
<1>1. TInv /\ TrashInv /\ [Next]_vars => \A s \in Sessions : Leaves(s) => Excused(s)
  <2> SUFFICES ASSUME TInv, TrashInv, [Next]_vars, NEW s \in Sessions, Leaves(s) PROVE Excused(s)
    OBVIOUS
  <2>t. meta \in [Sessions -> Rows] /\ req \in [Reqs -> Req]
    BY DEF TInv, TypeOK, Req
  <2>i. meta[s].row /\ Targets
    BY DEF TrashInv, Rowed
  <2>1. CASE UNCHANGED meta
    BY <2>1
  <2>2. ASSUME NEW r \in Reqs, Serve(r) PROVE Excused(s)
    <3>1. CASE Label(r)
      BY <3>1, <2>i, LabelEffect
    <3>8. CASE Favorite(r)
      BY <3>8, FavoriteEffect DEF TrashInv
    <3>2. CASE Trash(r)
      BY <3>2, TrashEffect
    <3>3. CASE Restore(r)
      <4>1. meta' = meta \/ meta' = [meta EXCEPT ![req[r].s].trashed = FALSE]
        BY <3>3 DEF Restore
      <4>2. req[r].s = s
        BY <4>1, <2>t
      <4> QED BY <3>3, <4>2 DEF Restore, At
    <3>4. CASE RemoveRow(r)
      <4>1. disk[req[r].s] = "erased"
        BY <3>4, <2>i DEF RemoveRow, Deleting, At, Targets, Target
      <4>2. meta' = [meta EXCEPT ![req[r].s] = NoRow]
        BY <3>4 DEF RemoveRow
      <4> QED BY <4>1, <4>2, <2>t
    <3>5. CASE DeleteTrashed(r)
      <4>1. At(r, "emptyTrash", "erased")
        BY <3>5 DEF DeleteTrashed
      <4>2. \A t \in req[r].seen : disk[t] = "erased"
        BY <4>1, <2>i DEF At, Targets, Target
      <4> QED BY <4>1, <4>2
    <3>6. CASE ScanStore(r)
      BY <3>6, ScanEffect DEF TrashInv
    <3>7. CASE RemoveDir(r) \/ FindTrashed(r) \/ RemoveFound(r) \/ ScanDirs(r) \/ ScanFind(r)
               \/ FindNote(r) \/ FindLabel(r) \/ RenameNote(r) \/ CreateNote(r)
      BY <3>7, <2>1 DEF RemoveDir, FindTrashed, RemoveFound, ScanDirs, ScanFind, FindNote,
                        FindLabel, RenameNote, CreateNote
    <3> QED BY <2>2, <3>1, <3>2, <3>3, <3>4, <3>5, <3>6, <3>7, <3>8 DEF Serve
  <2>3. ASSUME NEW r \in Reqs, Client(r) PROVE UNCHANGED meta
    BY <2>3 DEF Client, CommitLabel, ClickTrash, ClickOpen, ClickRestore, ClickDelete, ClickEmpty,
                ApiScan, ApiFavorite, ApiDelete, Call, Answer, Opened, OpenFailed, serverVars
  <2>4. CASE Queries
    BY <2>4, <2>1 DEF Queries, ListScan, ListRows, ListTrashed, ListArrives, TrashArrives, Evict, serverVars
  <2>5. ASSUME NEW t \in Sessions, MakeSession(t) \/ WavAppears(t) PROVE UNCHANGED meta
    BY <2>5 DEF MakeSession, WavAppears
  <2>6. ASSUME NEW p, NEW elapsed, Go(p, elapsed) PROVE UNCHANGED meta
    BY <2>6 DEF Go, serverVars
  <2> QED BY <2>1, <2>2, <2>3, <2>4, <2>5, <2>6 DEF Next, vars
<1>2. TInv /\ TrashInv /\ [Next]_vars =>
        [\A s \in Sessions :
            meta[s].trashed /\ ~meta'[s].trashed /\ disk[s] # "erased"
            => \E r \in Reqs :
                \/ req[r].op = "restore" /\ req[r].s = s
                \/ At(r, "emptyTrash", "erased") /\ s \notin req[r].seen]_vars
  BY <1>1
<1> QED BY <1>2, TrashInvHolds, PTL DEF Spec, LeavesTrash

-----------------------------------------------------------------------------
(* The list of the audio page *)

\* The handler has changed something and the browser has not been told yet.
Changed(r) ==
    /\ req[r].op \in {"label", "trash", "restore", "deletePermanent", "emptyTrash"}
    /\ req[r].pc \in {"erased", "ok"}
Dirty == \E r \in Reqs : Changed(r)

\* What f says of a session is what is true of it.
FitsAt(f, s) ==
    IF f[s] = Hidden THEN disk[s] = "erased" \/ meta[s].trashed
    ELSE disk[s] = "wav" /\ ~meta[s].trashed /\ f[s] = meta[s].label
Fits(f) == \A s \in DOMAIN f \ deleted : FitsAt(f, s)

\* The first answer of the list, when the server had read it before a change that
\* has been told since.
Late == list.overtaken /\ ~list.data

\* A list that is not true has been invalidated, is being fetched, or will be
\* when an answer arrives; or its first answer came too late.
ListInv ==
    /\ page = "audio" /\ list.st = "idle" => ~list.stale
    /\ list.st # "idle" => page = "audio"
    /\ list.data \/ list.stale
    /\ Dirty \/ list.stale \/ list.overtaken \/ Fits(list.items)
    /\ Dirty \/ Late \/ list.st # "answered" \/ Fits(list.answer)
    /\ Dirty \/ Late \/ list.st # "scanned" \/ \A s \in list.seen \ deleted : disk[s] = "wav"

LEMMA ListInit == Init => ListInv
BY DEF Init, ListInv, Fetch, NoQuery

\* Nothing a list can tell has changed, or what has is not told yet.
Same ==
    /\ deleted \subseteq deleted'
    /\ \A s \in Sessions \ deleted' :
        /\ Exists(s) => disk'[s] = disk[s]
        /\ meta'[s].trashed = meta[s].trashed /\ meta'[s].label = meta[s].label

LEMMA ListFrame ==
    ASSUME TInv, Known, ListInv, UNCHANGED <<list, page>>, Dirty' \/ (Same /\ (Dirty => Dirty'))
    PROVE  ListInv'
<1>1. CASE Dirty'
  BY <1>1 DEF ListInv
<1>2. CASE Same /\ ~Dirty
  <2>1. ASSUME NEW f \in Answers, \A s \in DOMAIN f : Exists(s), Fits(f) PROVE Fits(f)'
    <3>1. DOMAIN f \subseteq Sessions
      BY DEF Answers
    <3> QED BY <1>2, <2>1, <3>1 DEF Same, Fits, FitsAt
  <2>2. list \in Query
    BY DEF TInv, TypeOK
  <2>3. list.items \in Answers /\ list.answer \in Answers /\ list.seen \subseteq Sessions
    BY <2>2, QueryFields
  <2>4. list.stale \/ list.overtaken \/ Fits(list.items)'
    BY <1>2, <2>1, <2>3 DEF Known, ListInv
  <2>5. Late \/ list.st # "answered" \/ Fits(list.answer)'
    BY <1>2, <2>1, <2>3 DEF Known, ListInv
  <2>6. Late \/ list.st # "scanned" \/ \A s \in list.seen \ deleted' : disk'[s] = "wav"
    BY <1>2, <2>3 DEF Known, ListInv, Same
  <2>7. /\ page = "audio" /\ list.st = "idle" => ~list.stale
        /\ list.st # "idle" => page = "audio"
        /\ list.data \/ list.stale
    BY DEF ListInv
  <2> QED BY <2>4, <2>5, <2>6, <2>7 DEF ListInv, Late
<1> QED BY <1>1, <1>2

LEMMA ListServed ==
    ASSUME TInv, TInv', TrashInv, ListInv, NEW r \in Reqs, Serve(r)
    PROVE  ListInv'
<1>t. /\ req \in [Reqs -> Req] /\ req[r] \in Req
      /\ meta \in [Sessions -> Rows]
  BY DEF TInv, TypeOK, Req
<1>i. Rowed /\ Known
  BY DEF TrashInv
<1>g. ASSUME NEW to \in {"found", "erased"}, Goto(r, to)
      PROVE  /\ \A q \in Reqs \ {r} : req'[q] = req[q]
             /\ req'[r].op = req[r].op /\ req'[r].pc = to
  BY <1>g, <1>t DEF Goto, Req
<1>d. ASSUME NEW to \in {"ok", "failed"}, Done(r, to)
      PROVE  /\ \A q \in Reqs \ {r} : req'[q] = req[q]
             /\ req[r].op \notin ApiOps => req'[r].op = req[r].op /\ req'[r].pc = to
  BY <1>d, <1>t DEF Done, Req, NoReq
<1>q. UNCHANGED <<list, page>>
  BY DEF Serve, Label, Favorite, Trash, Upsert, Restore, RemoveDir, RemoveRow, FindTrashed, RemoveFound,
         DeleteTrashed, ScanDirs, ScanFind, ScanStore, FindNote, FindLabel, RenameNote, CreateNote
\* The handler changes what the list can tell.
<1>1. ASSUME Changed(r)' PROVE ListInv'
  BY <1>1, <1>q, <1>i, ListFrame DEF Dirty, Changed
\* The handler changes nothing the list can tell.
<1>2. ASSUME Same, ~Changed(r), \A q \in Reqs \ {r} : req'[q] = req[q] PROVE ListInv'
  <2>1. Dirty => Dirty'
    BY <1>2 DEF Dirty, Changed
  <2> QED BY <1>2, <2>1, <1>q, <1>i, ListFrame
<1>3. UNCHANGED <<disk, meta, deleted>> => Same
  BY DEF Same
<1>4. CASE Label(r)
  <2>1. Done(r, "ok") /\ req[r].op = "label"
    BY <1>4 DEF Label, Upsert, At
  <2> QED BY <2>1, <1>d, <1>1 DEF Changed, ApiOps
<1>12. CASE Favorite(r)
  <2>1. Done(r, "ok") /\ UNCHANGED <<disk, deleted>> /\ ~Changed(r)
    BY <1>12 DEF Favorite, Upsert, At, Changed
  <2>2. Same
    BY <1>12, <2>1, <1>i, FavoriteEffect DEF Same
  <2> QED BY <2>1, <2>2, <1>d, <1>2
<1>5. CASE Trash(r)
  <2>1. Done(r, "ok") /\ req[r].op = "trash"
    BY <1>5 DEF Trash, Upsert, At
  <2> QED BY <2>1, <1>d, <1>1 DEF Changed, ApiOps
<1>6. CASE Restore(r)
  <2>0. req[r].op = "restore" /\ req[r].pc = "sent" /\ UNCHANGED <<disk, deleted>>
    BY <1>6 DEF Restore, At
  <2>1. CASE Done(r, "ok")
    BY <2>0, <2>1, <1>d, <1>1 DEF Changed, ApiOps
  <2>2. CASE Done(r, "failed") /\ UNCHANGED meta
    <3>1. ~Changed(r)
      BY <2>0 DEF Changed
    <3> QED BY <2>0, <2>2, <3>1, <1>d, <1>2, <1>3
  <2> QED BY <1>6, <2>1, <2>2 DEF Restore
<1>7. CASE RemoveDir(r) \/ RemoveRow(r)
  <2>1. CASE req[r].op = "deletePermanent"
    <3>1. CASE Goto(r, "erased")
      BY <2>1, <3>1, <1>g, <1>1 DEF Changed
    <3>2. CASE Done(r, "ok")
      BY <2>1, <3>2, <1>d, <1>1 DEF Changed, ApiOps
    <3> QED BY <1>7, <3>1, <3>2 DEF RemoveDir, RemoveRow
  \* What is deleted over the API no list need tell.
  <2>2. CASE req[r].op = "delete"
    <3>1. ~Changed(r)
      BY <2>2 DEF Changed
    <3>2. \A q \in Reqs \ {r} : req'[q] = req[q]
      BY <1>7, <1>g, <1>d DEF RemoveDir, RemoveRow
    <3>3. CASE RemoveDir(r)
      <4>1. /\ disk' = [disk EXCEPT ![req[r].s] = IF @ = "absent" THEN @ ELSE "erased"]
            /\ deleted' = deleted \cup {req[r].s} /\ meta' = meta
        BY <3>3, <2>2 DEF RemoveDir
      <4>2. Same
        BY <4>1, <1>t DEF Same
      <4> QED BY <3>1, <3>2, <4>2, <1>2
    <3>4. CASE RemoveRow(r)
      <4>1. /\ meta' = [meta EXCEPT ![req[r].s] = NoRow] /\ UNCHANGED <<disk, deleted>>
            /\ req[r].pc = "erased"
        BY <3>4 DEF RemoveRow, Deleting, At
      <4>2. req[r].s \in deleted
        BY <4>1, <2>2 DEF TrashInv, Targets, Target
      <4>3. Same
        BY <4>1, <4>2, <1>t DEF Same
      <4> QED BY <3>1, <3>2, <4>3, <1>2
    <3> QED BY <1>7, <3>3, <3>4
  <2> QED BY <1>7, <2>1, <2>2 DEF RemoveDir, RemoveRow, Deleting, At
<1>13. CASE RemoveFound(r) \/ DeleteTrashed(r)
  <2>0. req[r].op = "emptyTrash"
    BY <1>13 DEF RemoveFound, DeleteTrashed, At
  <2>1. CASE Goto(r, "erased")
    BY <2>0, <2>1, <1>g, <1>1 DEF Changed
  <2>2. CASE Done(r, "ok")
    BY <2>0, <2>2, <1>d, <1>1 DEF Changed, ApiOps
  <2> QED BY <1>13, <2>1, <2>2 DEF RemoveFound, DeleteTrashed
<1>8. CASE FindTrashed(r)
  <2>1. \A q \in Reqs \ {r} : req'[q] = req[q]
    BY <1>8, <1>t DEF FindTrashed
  <2>2. UNCHANGED <<disk, meta, deleted>> /\ ~Changed(r)
    BY <1>8 DEF FindTrashed, At, Changed
  <2> QED BY <2>1, <2>2, <1>2, <1>3
<1>9. CASE ScanDirs(r) \/ ScanFind(r)
  <2>1. \A q \in Reqs \ {r} : req'[q] = req[q]
    BY <1>9, <1>t, <1>d DEF ScanDirs, ScanFind
  <2>2. UNCHANGED <<disk, meta, deleted>> /\ ~Changed(r)
    BY <1>9 DEF ScanDirs, ScanFind, At, Changed
  <2> QED BY <2>1, <2>2, <1>2, <1>3
<1>10. CASE ScanStore(r)
  <2>1. \A q \in Reqs \ {r} : req'[q] = req[q]
    BY <1>10, <1>g, <1>d DEF ScanStore
  <2>2. UNCHANGED <<disk, deleted>> /\ ~Changed(r)
    BY <1>10 DEF ScanStore, At, Changed
  <2>3. Same
    BY <1>10, <2>2, <1>i, ScanEffect DEF Same
  <2> QED BY <2>1, <2>2, <2>3, <1>2
<1>11. CASE FindNote(r) \/ FindLabel(r) \/ RenameNote(r) \/ CreateNote(r)
  <2>1. \A q \in Reqs \ {r} : req'[q] = req[q]
    BY <1>11, <1>t, <1>d DEF FindNote, FindLabel, RenameNote, CreateNote
  <2>2. UNCHANGED <<disk, meta, deleted>> /\ ~Changed(r)
    BY <1>11 DEF FindNote, FindLabel, RenameNote, CreateNote, At, Changed
  <2> QED BY <2>1, <2>2, <1>2, <1>3
<1> QED BY <1>4, <1>5, <1>6, <1>7, <1>8, <1>9, <1>10, <1>11, <1>12, <1>13 DEF Serve

LEMMA ListStep == TInv /\ TInv' /\ TrashInv /\ ListInv /\ [Next]_vars => ListInv'
<1> SUFFICES ASSUME TInv, TInv', TrashInv, ListInv, [Next]_vars PROVE ListInv'
  OBVIOUS
<1>t. /\ disk \in [Sessions -> {"absent", "empty", "wav", "erased"}]
      /\ meta \in [Sessions -> Rows]
      /\ req \in [Reqs -> Req]
      /\ list \in Query
      /\ list.stale \in BOOLEAN /\ list.st \in {"idle", "sent", "scanned", "answered"}
      /\ list.data \in BOOLEAN /\ list.overtaken \in BOOLEAN
  BY QueryFields DEF TInv, TypeOK, Req
<1>i. Rowed /\ Known
  BY DEF TrashInv
<1>q. ASSUME UNCHANGED <<list, page>>, Same, Dirty => Dirty' PROVE ListInv'
  BY <1>q, <1>i, ListFrame
<1>s. UNCHANGED <<disk, meta, deleted>> => Same
  BY DEF Same
\* A page is entered: what it shows is true, or fetched.
<1>p. ASSUME NEW p, page' = p, Dirty => Dirty', UNCHANGED <<disk, meta, deleted>>,
             \/ p = "audio" /\ list' = Fetch(list)
             \/ ~(p = "audio" /\ list.stale) /\ list' = Cancel(list)
      PROVE  ListInv'
  <2>1. /\ Fetch(list).st = "sent" /\ Fetch(list).items = list.items
        /\ Fetch(list).stale = list.stale
        /\ Cancel(list).st = "idle" /\ Cancel(list).items = list.items
        /\ Cancel(list).stale = list.stale
        /\ Cancel(list).overtaken = (list.overtaken /\ list.data)
        /\ Fetch(list).overtaken = (list.overtaken /\ list.data)
        /\ Fetch(list).data = list.data /\ Cancel(list).data = list.data
    BY <1>t, QueryFields DEF Fetch, Cancel
  <2>2. Dirty' \/ list.stale \/ (list.overtaken /\ list.data) \/ Fits(list.items)
    BY <1>p DEF ListInv
  <2>5. list.data \/ list.stale
    BY DEF ListInv
  <2>6. Fits(list.items) => Fits(list.items)' \/ list'.items # list.items
    BY <1>p DEF Fits, FitsAt
  <2>3. CASE list' = Fetch(list) /\ p = "audio"
    <3>1. /\ list'.st = "sent" /\ list'.items = list.items /\ list'.stale = list.stale
          /\ list'.overtaken = (list.overtaken /\ list.data) /\ list'.data = list.data
      BY <2>1, <2>3
    <3>2. Dirty' \/ list'.stale \/ list'.overtaken \/ Fits(list.items)'
      BY <2>2, <2>6, <3>1
    <3> QED BY <3>1, <3>2, <2>3, <2>5, <1>p DEF ListInv
  <2>4. CASE list' = Cancel(list) /\ ~(p = "audio" /\ list.stale)
    <3>1. /\ list'.st = "idle" /\ list'.items = list.items /\ list'.stale = list.stale
          /\ list'.overtaken = (list.overtaken /\ list.data) /\ list'.data = list.data
      BY <2>1, <2>4
    <3>2. Dirty' \/ list'.stale \/ list'.overtaken \/ Fits(list.items)'
      BY <2>2, <2>6, <3>1
    <3> QED BY <3>1, <3>2, <2>4, <2>5, <1>p DEF ListInv
  <2> QED BY <1>p, <2>3, <2>4
<1>1. CASE UNCHANGED vars
  <2>1. Dirty => Dirty'
    BY <1>1 DEF vars, Dirty, Changed
  <2> QED BY <1>1, <2>1, <1>q, <1>s DEF vars
<1>2. ASSUME NEW s \in Sessions, MakeSession(s) \/ WavAppears(s) PROVE ListInv'
  <2>1. /\ UNCHANGED <<meta, req, list, page, deleted>>
        /\ disk[s] \in {"absent", "empty"}
        /\ disk' = [disk EXCEPT ![s] = "empty"] \/ disk' = [disk EXCEPT ![s] = "wav"]
    BY <1>2 DEF MakeSession, WavAppears
  <2>2. Same
    BY <2>1, <1>t DEF Same, Exists
  <2>3. Dirty => Dirty'
    BY <2>1 DEF Dirty, Changed
  <2> QED BY <2>1, <2>2, <2>3, <1>q
<1>3. ASSUME NEW r \in Reqs, Serve(r) PROVE ListInv'
  BY <1>3, ListServed
<1>4. ASSUME NEW r \in Reqs, NEW op, NEW s, NEW text, NEW live, Call(r, op, s, text, live)
      PROVE  ListInv'
  <2>1. /\ UNCHANGED <<disk, meta, deleted, list, page>> /\ req[r].op = "idle"
        /\ \A q \in Reqs \ {r} : req'[q] = req[q]
    BY <1>4, <1>t DEF Call, Free
  <2>2. ~Changed(r)
    BY <2>1 DEF Changed
  <2>3. Dirty => Dirty'
    BY <2>1, <2>2 DEF Dirty, Changed
  <2> QED BY <2>1, <2>3, <1>q, <1>s
<1>5. ASSUME NEW r \in Reqs, Client(r) PROVE ListInv'
  <2>1. CASE \/ \E s \in Sessions :
                \/ \E text \in Texts : CommitLabel(r, s, text)
                \/ ClickTrash(r, s) \/ ClickOpen(r, s) \/ ClickRestore(r, s) \/ ClickDelete(r, s)
                \/ ApiFavorite(r, s) \/ ApiDelete(r, s)
             \/ ClickEmpty(r) \/ ApiScan(r)
    BY <2>1, <1>4 DEF CommitLabel, ClickTrash, ClickOpen, ClickRestore, ClickDelete, ClickEmpty,
                      ApiScan, ApiFavorite, ApiDelete
  <2>2. ASSUME ~Changed(r), req' = [req EXCEPT ![r] = NoReq] PROVE Dirty => Dirty'
    <3>1. \A q \in Reqs \ {r} : req'[q] = req[q]
      BY <2>2, <1>t
    <3> QED BY <2>2, <3>1 DEF Dirty, Changed
  <2>3. CASE Answer(r)
    <3>1. /\ req' = [req EXCEPT ![r] = NoReq] /\ UNCHANGED <<disk, meta, deleted, page>>
          /\ req[r].op # "open" /\ req[r].pc \in {"ok", "failed"}
      BY <2>3 DEF Answer
    <3>3. CASE list' = Invalidate(list, page = "audio")
      <4>0. UNCHANGED <<disk, meta, deleted, page>>
        BY <3>1
      <4>1. CASE page = "audio" /\ (list.data \/ list.st = "idle")
        <5>1. list'.st = "sent" /\ list'.stale = TRUE
          BY <3>3, <4>1, <1>t, QueryFields DEF Invalidate, Fetch
        <5> QED BY <5>1, <4>0, <4>1 DEF ListInv
      <4>2. CASE page = "audio" /\ ~list.data /\ list.st # "idle"
        <5>1. /\ list'.st = list.st /\ list'.stale = TRUE /\ list'.data = FALSE
              /\ list.st # "sent" => list'.overtaken
          BY <3>3, <4>2, <1>t, QueryFields DEF Invalidate
        <5> QED BY <5>1, <4>0, <4>2 DEF ListInv, Late
      <4>3. CASE page # "audio"
        <5>1. list'.st = list.st /\ list'.stale = TRUE
          BY <3>3, <4>3, <1>t, QueryFields DEF Invalidate
        <5> QED BY <5>1, <4>0, <4>3 DEF ListInv
      <4> QED BY <4>1, <4>2, <4>3
    <3>2. CASE list' = list
      <4>1. ~Changed(r) \/ list' = Invalidate(list, page = "audio")
        BY <2>3, <3>1 DEF Answer, Changed, Lists
      <4>2. CASE ~Changed(r)
        BY <3>1, <3>2, <4>2, <2>2, <1>q, <1>s
      <4> QED BY <3>3, <4>1, <4>2
    <3> QED BY <2>3, <3>2, <3>3 DEF Answer
  <2>4. CASE Opened(r)
    <3>1. ~Changed(r)
      BY <2>4 DEF Opened, At, Changed
    <3>2. \A q \in Reqs \ {r} : req'[q].op = req[q].op /\ req'[q].pc = req[q].pc
      BY <2>4, <1>t DEF Opened, Req
    <3>3. Dirty => Dirty'
      BY <3>1, <3>2 DEF Dirty, Changed
    <3>4. page' = "note" /\ list' = Cancel(list) /\ UNCHANGED <<disk, meta, deleted>>
      BY <2>4 DEF Opened, Show, serverVars
    <3> QED BY <3>3, <3>4, <1>p
  <2>5. CASE OpenFailed(r)
    <3>1. /\ req' = [req EXCEPT ![r] = NoReq] /\ UNCHANGED <<disk, meta, deleted, list, page>>
          /\ ~Changed(r)
      BY <2>5 DEF OpenFailed, serverVars, At, Changed
    <3> QED BY <3>1, <2>2, <1>q, <1>s
  <2> QED BY <1>5, <2>1, <2>3, <2>4, <2>5 DEF Client
<1>6. CASE Queries
  <2>1. UNCHANGED <<disk, meta, deleted, page, req>>
    BY <1>6 DEF Queries, ListScan, ListRows, ListTrashed, ListArrives, TrashArrives, Evict, serverVars
  <2>2. (Dirty => Dirty') /\ (Dirty \/ ~Dirty)
    BY <2>1 DEF Dirty, Changed
  <2>p. (list.st # "idle" => page = "audio") /\ (list.data \/ list.stale)
    BY DEF ListInv
  <2>i. Dirty' \/ list.stale \/ list.overtaken \/ Fits(list.items)
    BY <2>2 DEF ListInv
  <2>4. CASE ListScan
    <3>1. list' = [list EXCEPT !.st = "scanned", !.seen = FirstPage(WithWav)] /\ list.st = "sent"
      BY <2>4 DEF ListScan
    <3>2. /\ list'.st = "scanned" /\ list'.seen = FirstPage(WithWav)
          /\ list'.items = list.items /\ list'.stale = list.stale
          /\ list'.overtaken = list.overtaken /\ list'.data = list.data
      BY <3>1, <1>t, QueryFields
    <3>3. \A s \in FirstPage(WithWav) : disk'[s] = "wav"
      BY <2>1 DEF FirstPage, WithWav
    <3>4. Dirty' \/ list'.stale \/ list'.overtaken \/ Fits(list.items)'
      BY <2>1, <2>i, <3>2 DEF Fits, FitsAt
    <3> QED BY <2>1, <2>p, <3>1, <3>2, <3>3, <3>4 DEF ListInv, Late, Fits, FitsAt
  <2>5. CASE ListRows
    <3> DEFINE answer == [s \in list.seen |-> IF meta[s].trashed THEN Hidden ELSE meta[s].label]
    <3>1. list' = [list EXCEPT !.st = "answered", !.answer = answer] /\ list.st = "scanned"
      BY <2>5 DEF ListRows
    <3>2. Dirty \/ Late \/ Fits(answer)
      <4>1. list.seen \subseteq Sessions
        BY <1>t, QueryFields
      <4>2. \A s \in Sessions : meta[s].label # Hidden
        <5>1. \A s \in Sessions : meta[s].label \in Texts
          BY <1>t DEF Rows
        <5> QED BY <5>1, LabelsAssumption DEF Texts, None, Hidden
      <4>3. Dirty \/ Late \/ \A s \in list.seen \ deleted : disk[s] = "wav"
        BY <3>1 DEF ListInv
      <4> QED BY <4>1, <4>2, <4>3 DEF Fits, FitsAt
    <3> HIDE DEF answer
    <3>3. /\ list'.st = "answered" /\ list'.answer = answer
          /\ list'.items = list.items /\ list'.stale = list.stale
          /\ list'.overtaken = list.overtaken /\ list'.data = list.data
      BY <3>1, <1>t, QueryFields
    <3>5. Dirty' \/ Late \/ Fits(list.answer)'
      BY <3>2, <2>1, <2>2, <3>3 DEF Fits, FitsAt
    <3>6. Dirty' \/ list'.stale \/ list'.overtaken \/ Fits(list.items)'
      BY <2>1, <2>i, <3>3 DEF Fits, FitsAt
    <3> QED BY <2>1, <2>p, <3>1, <3>3, <3>5, <3>6 DEF ListInv, Late, Fits, FitsAt
  <2>6. CASE ListTrashed \/ TrashArrives
    BY <2>6, <2>1, <2>2, <1>q, <1>s DEF ListTrashed, TrashArrives
  <2>7. CASE ListArrives
    <3>1. list' = Store(list) /\ list.st = "answered"
      BY <2>7 DEF ListArrives
    <3>2. /\ list'.st = "idle" /\ list'.items = list.answer /\ list'.stale = FALSE
          /\ list'.overtaken = Late /\ list'.data = TRUE
      BY <3>1 DEF Store, Late
    <3>3. Dirty' \/ Late \/ Fits(list.answer)
      BY <3>1, <2>2 DEF ListInv
    <3>4. Dirty' \/ list'.overtaken \/ Fits(list.items)'
      BY <2>1, <3>2, <3>3 DEF Fits, FitsAt
    <3> QED BY <3>2, <3>4 DEF ListInv, Fits, FitsAt
  <2>8. CASE Evict
    <3>1. list'.st = "idle" /\ list'.stale = TRUE /\ page # "audio"
      BY <2>8 DEF Evict, NoQuery
    <3> QED BY <2>1, <3>1 DEF ListInv
  <2> QED BY <1>6, <2>4, <2>5, <2>6, <2>7, <2>8 DEF Queries
<1>7. ASSUME NEW p \in Pages, NEW elapsed \in BOOLEAN, Go(p, elapsed) PROVE ListInv'
  <2>1. \A q \in Reqs : req'[q].op = req[q].op /\ req'[q].pc = req[q].pc
    BY <1>7, <1>t DEF Go, Req
  <2>2. Dirty => Dirty'
    BY <2>1 DEF Dirty, Changed
  <2>3. /\ page' = p /\ UNCHANGED <<disk, meta, deleted>>
        /\ list' = IF p = "audio" /\ (list.stale \/ elapsed) THEN Fetch(list) ELSE Cancel(list)
    BY <1>7 DEF Go, Show, serverVars
  <2> QED BY <2>2, <2>3, <1>p
<1> QED BY <1>1, <1>2, <1>3, <1>5, <1>6, <1>7 DEF Next

\* With no request in flight, what the audio page knows of a recording is true,
\* however requests, answers, pages and fetches overtake each other, unless the
\* recording was deleted over the API or the page's first fetch was overtaken.
THEOREM ListSettlesHolds == Spec => []ListSettles
<1>1. Init => TInv /\ TrashInv /\ ListInv
  BY TypeInit, TrashInit, ListInit
<1>2. (TInv /\ TrashInv /\ ListInv) /\ [Next]_vars => (TInv /\ TrashInv /\ ListInv)'
  BY TypeStep, TrashStep, ListStep
<1>3. TInv /\ TrashInv /\ ListInv => ListSettles
  <2> SUFFICES ASSUME TInv, ListInv, page = "audio", list.st = "idle", ~list.overtaken,
                      \A r \in Reqs : Free(r)
               PROVE  \A s \in DOMAIN list.items \ deleted :
                   \/ s \in Shown(list) /\ disk[s] = "wav" /\ ~meta[s].trashed
                      /\ list.items[s] = meta[s].label
                   \/ s \notin Shown(list) /\ (disk[s] = "erased" \/ meta[s].trashed)
    BY DEF ListSettles
  <2>1. ~Dirty
    BY DEF Dirty, Changed, Free
  <2>2. Fits(list.items)
    BY <2>1 DEF ListInv
  <2> QED BY <2>2 DEF Fits, FitsAt, Shown
<1> QED BY <1>1, <1>2, <1>3, PTL DEF Spec
=============================================================================
