------------------------------ MODULE Autosave ------------------------------
(***************************************************************************)
(* The pages of the web application that save by themselves: a note, the   *)
(* note of a recording (with the generation of its text), a whiteboard and *)
(* a whiteboard embedded in a note.  They share one scheme.  The query     *)
(* notes.get or whiteboard.get fills a store once; every edit goes to the  *)
(* store and, with what the page holds in a ref as the latest body, to a   *)
(* debouncer; its timer, or a flush, sends the last arguments to the       *)
(* server, up to three times; a save that has succeeded invalidates the    *)
(* query.  The page flushes when it is hidden and when it is unmounted.    *)
(*                                                                         *)
(* A body is a number: 0 is the empty one, 1 what is stored at first, and  *)
(* every edit makes a new one.  The title, saved along with the body, is   *)
(* left out: changing it matters because it saves a body again.  Requests  *)
(* reach the server in any order; an attempt may be lost, or its answer.   *)
(* kind says which page is meant, chosen once.                             *)
(***************************************************************************)
EXTENDS Naturals, FiniteSets

CONSTANTS
    Kinds,      \* the pages checked, a subset of PageKinds
    Titled,     \* bound: those of them whose title is changed
    MaxSaves,   \* bound: saves in flight together
    MaxBody,    \* bound: bodies ever made
    Tries,      \* maxAttempts of the debouncer's retryer, 3 in the code
    MaxTouch,   \* bound: changes of the title and texts begun on a canvas
    MaxOpen     \* bound: how often the page is opened

PageKinds == {"note", "audio", "board", "embed", "locked"}
ASSUME AutosaveAssumption ==
    /\ Kinds \subseteq PageKinds /\ Titled \subseteq {"note", "audio", "board"}
    /\ MaxBody \in Nat \ {0} /\ Tries \in Nat \ {0}
    /\ MaxOpen \in Nat /\ MaxTouch \in Nat /\ MaxSaves \in Nat

Slots == 1 .. MaxSaves
Empty == 0
Bodies == 0 .. MaxBody
None == MaxBody + 1
Args == Bodies \cup {None}

NoData == [body |-> Empty, rev |-> 0]
NoSave == [body |-> None, tries |-> 0, st |-> "free"]
Reset == [ready |-> FALSE, body |-> Empty]
NoCache == [full |-> FALSE, data |-> NoData, answer |-> NoData, stale |-> TRUE, st |-> "idle"]
NoGen == [st |-> "none", cap |-> 0, here |-> FALSE]

VARIABLES
    kind,
    db,       \* the row: its body and how often it was written
    cache,    \* the query: data, whether it is stale, the fetch and its answer
    open,     \* the page is mounted
    store,    \* the zustand store: ready (initialized) and body
    shown,    \* what the editor shows
    latest,   \* latestContentRef, latestElementsRef
    pending,  \* the arguments the debouncer waits to save
    late,     \* those of a page that has been left
    saves,    \* the saves in flight
    writing,  \* board: a text is being edited on the canvas
    asked,    \* board: the dialog about unsaved changes is open
    ed,       \* which editor the page has: 0 made without content, 1 with
    busy,     \* audio: generationPhase is neither idle nor done nor error
    gen,      \* audio: the generation at work, the editor it has, and whether
              \*        the page that started it is still mounted
    count,    \* bodies made, titles typed or texts begun, and openings so far
    typed,    \* history: the last body the page was given
    reason    \* history: the first way in which a body may have been lost

pageVars == <<store, shown, latest, pending, writing, asked, ed, busy>>
netVars == <<db, cache, late, saves, gen>>
vars == <<kind, open, pageVars, netVars, count, typed, reason>>

IsNote == kind \in {"note", "audio"}
IsBoard == kind \in {"board", "embed", "locked"}

Data == [body : Bodies, rev : Nat]
Caches == [full : BOOLEAN, data : Data, answer : Data,
           stale : BOOLEAN, st : {"idle", "sent", "answered"}]
Save == [body : Bodies, tries : 1 .. Tries, st : {"sent", "applied", "failed"}]
Saves == [Slots -> Save \cup {NoSave}]
Counts == [body : Bodies, touch : 0 .. MaxTouch, opened : 0 .. MaxOpen]
Reasons == {"none", "gaveUp", "overlap", "oldCache", "rewound", "cutOff", "dead", "away", "removed"}

TypeOK ==
    /\ kind \in Kinds /\ db \in Data /\ cache \in Caches /\ saves \in Saves
    /\ open \in BOOLEAN
    /\ store \in [ready : BOOLEAN, body : Bodies]
    /\ shown \in Bodies /\ latest \in Bodies
    /\ pending \in Args /\ late \in Args
    /\ writing \in BOOLEAN /\ asked \in BOOLEAN /\ ed \in {0, 1}
    /\ busy \in BOOLEAN
    /\ gen \in [st : {"none", "transcribing", "generating"}, cap : {0, 1}, here : BOOLEAN]
    /\ count \in Counts
    /\ typed \in Bodies /\ reason \in Reasons

Init ==
    /\ kind \in Kinds
    /\ \E b \in IF IsNote THEN {Empty, 1} ELSE {1} :
        /\ db = [body |-> b, rev |-> 0]
        /\ typed = b
    /\ cache = NoCache
    /\ open = FALSE /\ store = Reset /\ shown = Empty /\ latest = Empty
    /\ pending = None /\ late = None
    /\ saves = [i \in Slots |-> NoSave]
    /\ writing = FALSE /\ asked = FALSE /\ ed = 0 /\ busy = FALSE /\ gen = NoGen
    /\ count = [body |-> 1, touch |-> 0, opened |-> 0]
    /\ reason = "none"

-----------------------------------------------------------------------------
(* The page is opened, gets its data and is left.                          *)

\* The first reason is kept.
Note(cond, why) == reason' = IF reason = "none" /\ cond THEN why ELSE reason

Fetch(c) == [c EXCEPT !.st = "sent", !.answer = NoData]

\* Mutant of Sync: every refetch fills the store again.
SyncAlways(data) ==
    /\ store' = [ready |-> TRUE, body |-> data.body]
    /\ shown' = IF store.ready THEN shown ELSE data.body
    /\ ed' = IF store.ready THEN ed ELSE IF IsNote /\ data.body = Empty THEN 0 ELSE 1
    /\ Note(~store.ready /\ data.body # typed, "oldCache")
    /\ latest' = IF IsBoard \/ ~store.ready THEN data.body ELSE latest

\* The effect on the query's data: the store is filled if it has not been, and
\* the editor is made from it.  A board's ref is set whether or not it has.
Sync(data) ==
    /\ store' = IF store.ready THEN store
                ELSE [ready |-> TRUE, body |-> data.body]
    /\ shown' = IF store.ready THEN shown ELSE data.body
    /\ ed' = IF store.ready THEN ed ELSE IF IsNote /\ data.body = Empty THEN 0 ELSE 1
    /\ Note(~store.ready /\ data.body # typed, "oldCache")
    /\ latest' = IF IsBoard \/ ~store.ready THEN data.body ELSE latest

\* elapsed: what is cached is older than the stale time of 30 s.
Open(elapsed) ==
    /\ ~open /\ count.opened < MaxOpen /\ reason = "none" /\ open' = TRUE
    /\ count' = [count EXCEPT !.opened = @ + 1]
    /\ cache' = IF ~cache.full \/ cache.stale \/ elapsed THEN Fetch(cache) ELSE cache
    /\ IF cache.full THEN Sync(cache.data) ELSE UNCHANGED <<store, shown, ed, reason, latest>>
    /\ UNCHANGED <<kind, db, pending, late, saves, writing, asked, busy, gen, typed>>

Read ==
    /\ cache.st = "sent"
    /\ cache' = [cache EXCEPT !.st = "answered", !.answer = db]
    /\ UNCHANGED <<kind, db, open, pageVars, late, saves, gen, count, typed, reason>>

\* The answer arrives.  The same row again is the same object: no effect runs.
Arrive ==
    /\ cache.st = "answered"
    /\ cache' = [full |-> TRUE, data |-> cache.answer, answer |-> NoData,
                 stale |-> FALSE, st |-> "idle"]
    /\ IF cache.full /\ cache.answer = cache.data
       THEN UNCHANGED <<store, shown, ed, reason, latest>>
       ELSE Sync(cache.answer)
    /\ UNCHANGED <<kind, db, open, pending, late, saves, writing, asked, busy, gen, count, typed>>

Free == {i \in Slots : saves[i].st = "free"}
Rest == Free = Slots
Quiet == pending = None /\ late = None /\ Rest

\* saveFn is called; what was sent before may still be on its way.
Send(body) ==
    LET i == CHOOSE j \in Free : \A k \in Free : j <= k
    IN  /\ Free # {}
        /\ saves' = [saves EXCEPT ![i] = [body |-> body, tries |-> 1, st |-> "sent"]]

\* A text edited on the canvas that nothing was told of.
CutOff == writing /\ typed # latest

\* Mutant of Leave: the pending arguments are dropped.
LeaveUnsaved ==
    /\ open /\ open' = FALSE /\ pending' = None
    /\ store' = Reset /\ shown' = Empty /\ latest' = Empty /\ ed' = 0
    /\ writing' = FALSE /\ asked' = FALSE /\ busy' = FALSE
    /\ gen' = [gen EXCEPT !.here = FALSE]
    /\ cache' = [cache EXCEPT !.st = "idle", !.answer = NoData]
    /\ UNCHANGED <<kind, db, late, saves, count, typed, reason>>

\* The page is left without being asked, or after "Save & leave": the store is
\* reset, the fetch cancelled and the pending save sent.  An embedded page goes
\* with its document, and its cache with it; it may go without the flush, for a
\* frame taken out of its note is not told in time, and nothing is unmounted in it.
Leave ==
    /\ open /\ open' = FALSE
    /\ \/ pending = None /\ UNCHANGED saves /\ Note(CutOff, "cutOff")
       \/ pending # None /\ Send(pending) /\ Note(CutOff \/ ~Rest, IF Rest THEN "cutOff" ELSE "overlap")
       \/ pending # None /\ kind = "embed" /\ UNCHANGED saves /\ Note(TRUE, "removed")
    /\ pending' = None
    /\ store' = Reset /\ shown' = Empty /\ latest' = Empty /\ ed' = 0
    /\ writing' = FALSE /\ asked' = FALSE /\ busy' = FALSE
    /\ gen' = [gen EXCEPT !.here = FALSE]
    /\ cache' = IF kind \in {"embed", "locked"} THEN NoCache
                ELSE [cache EXCEPT !.st = "idle", !.answer = NoData]
    /\ UNCHANGED <<kind, db, late, count, typed>>

\* The button of a board: it asks when something is unsaved.
AskLeave ==
    /\ kind = "board" /\ open /\ ~asked /\ (pending # None \/ writing)
    /\ asked' = TRUE
    /\ UNCHANGED <<kind, open, netVars, store, shown, latest, pending, writing, ed, busy,
                   count, typed, reason>>
Stay ==
    /\ asked /\ asked' = FALSE
    /\ UNCHANGED <<kind, open, netVars, store, shown, latest, pending, writing, ed, busy,
                   count, typed, reason>>

-----------------------------------------------------------------------------
(* Edits.  Each is handed to the debouncer, whose timer starts again.      *)

\* Bound: once an edit may have been lost nothing more is typed or opened.
Editing == open /\ store.ready /\ kind # "locked" /\ ~asked /\ reason = "none"
Body == count.body + 1
Made == count.body < MaxBody /\ count' = [count EXCEPT !.body = Body]
Touch == count.touch < MaxTouch /\ count' = [count EXCEPT !.touch = @ + 1]

\* What the debouncer is to save instead of a newer body is a loss.
Debounce(body) ==
    /\ pending' = body
    /\ Note(body # typed', "rewound")

\* handleUpdateContent: store, ref and debouncer.  An empty note has an editor
\* made without content, which is made again once there is some.
TypeNote ==
    /\ IsNote /\ Editing /\ Made
    /\ shown' = Body /\ latest' = Body /\ typed' = Body
    /\ store' = [store EXCEPT !.body = Body]
    /\ ed' = 1
    /\ Debounce(Body)
    /\ UNCHANGED <<kind, open, netVars, writing, asked, busy>>

\* handleChange of a board: the canvas has changed (draws) or not, and a text is
\* being edited afterwards (text) or not.  What has changed is taken for saved
\* at once; while a text is edited nothing is given to the debouncer.
Draw(draws, text) ==
    /\ IsBoard /\ Editing
    /\ \/ draws /\ Made
       \/ ~draws /\ text /\ ~writing /\ Touch
       \/ ~draws /\ ~text /\ writing /\ UNCHANGED count
    /\ LET body == IF draws THEN Body ELSE shown
       IN  /\ shown' = body /\ typed' = (IF draws THEN body ELSE typed)
           /\ store' = [store EXCEPT !.body = body]
           /\ \/ text /\ UNCHANGED <<latest, pending, reason>>
              \/ ~text /\ latest' = body /\ Debounce(body)
    /\ writing' = text
    /\ UNCHANGED <<kind, open, netVars, asked, ed, busy>>

\* The title is changed: it is saved with the body the ref holds.
TypeTitle ==
    /\ kind \in Titled /\ Editing /\ Touch
    /\ UNCHANGED typed
    /\ Debounce(latest)
    /\ UNCHANGED <<kind, open, netVars, store, shown, latest, writing, asked, ed, busy>>

-----------------------------------------------------------------------------
(* Saves.                                                                  *)

\* The timer of the debouncer, or the page being hidden or about to unload.
SaveStarts ==
    /\ open /\ pending # None /\ Send(pending) /\ pending' = None
    /\ Note(~Rest, "overlap")
    /\ UNCHANGED <<kind, open, db, cache, late, gen, store, shown, latest, writing, asked, ed,
                   busy, count, typed>>
LateSaveStarts ==
    /\ late # None /\ Send(late) /\ late' = None
    /\ Note(~Rest, "overlap")
    /\ UNCHANGED <<kind, open, db, cache, gen, pageVars, count, typed>>

Keeps == <<kind, open, pageVars, late, gen, typed>>

\* update: the row is written.
Update(i) ==
    /\ saves[i].st = "sent"
    /\ db' = [body |-> saves[i].body, rev |-> db.rev + 1]
    /\ saves' = [saves EXCEPT ![i].st = "applied"]
    /\ UNCHANGED <<cache, count, reason, Keeps>>

\* The request, or the answer to it, is lost.
Lose(i) ==
    /\ saves[i].st \in {"sent", "applied"}
    /\ saves' = [saves EXCEPT ![i].st = "failed"]
    /\ UNCHANGED <<db, cache, count, reason, Keeps>>

\* Mutant of Retry: the attempts are not counted.
RetryForever(i) ==
    /\ saves[i].st = "failed"
    /\ saves' = [saves EXCEPT ![i].st = "sent"]
    /\ UNCHANGED <<db, cache, count, reason, Keeps>>

\* After a while the retryer tries again, or it has been aborted or has tried
\* often enough: then nothing tells of it, and the page says "Saved".
Retry(i) ==
    /\ saves[i].st = "failed" /\ saves[i].tries < Tries
    /\ saves' = [saves EXCEPT ![i].st = "sent", ![i].tries = @ + 1]
    /\ UNCHANGED <<db, cache, count, reason, Keeps>>
GiveUp(i) ==
    /\ saves[i].st = "failed"
    /\ saves' = [saves EXCEPT ![i] = NoSave]
    /\ Note(TRUE, "gaveUp")
    /\ UNCHANGED <<db, cache, count, Keeps>>

\* The save is done: the query is invalidated, and fetched again when mounted.  A
\* first fetch, which an embedded page that is opened again may be at, goes on.
Invalidated ==
    [(IF open /\ (cache.full \/ cache.st = "idle") THEN Fetch(cache) ELSE cache)
     EXCEPT !.stale = TRUE]
Saved(i) ==
    /\ saves[i].st = "applied"
    /\ saves' = [saves EXCEPT ![i] = NoSave]
    /\ cache' = Invalidated
    /\ UNCHANGED <<db, count, reason, Keeps>>

-----------------------------------------------------------------------------
(* The text of a recording is generated.                                   *)

\* The server transcribes the recording, then writes its notes.
Transcribing == gen.st = "transcribing"
Generating == gen.st = "generating"

\* handleGenerateAlunote, with the editor of the moment.
Generate ==
    /\ kind = "audio" /\ Editing /\ ~busy /\ gen.st = "none"
    /\ busy' = TRUE /\ gen' = [st |-> "transcribing", cap |-> ed, here |-> TRUE]
    /\ UNCHANGED <<kind, open, db, cache, late, saves, store, shown, latest, pending, writing,
                   asked, ed, count, typed, reason>>

\* Neither the answer nor the stream of events could be had, or it says so.
TranscribeFails ==
    /\ Transcribing /\ gen' = NoGen
    /\ busy' = (busy /\ ~gen.here)
    /\ UNCHANGED <<kind, open, db, cache, late, saves, store, shown, latest, pending, writing,
                   asked, ed, count, typed, reason>>

\* The transcript replaces the content of that editor, which is an edit if the
\* page still has it; one that was destroyed tells nobody.
Transcribed ==
    /\ Transcribing /\ gen' = [gen EXCEPT !.st = "generating"]
    /\ \/ /\ gen.here /\ gen.cap = ed /\ Made
          /\ shown' = Body /\ latest' = Body /\ typed' = Body /\ ed' = 1
          /\ store' = [store EXCEPT !.body = Body]
          /\ Debounce(Body)
       \/ /\ ~(gen.here /\ gen.cap = ed)
          /\ UNCHANGED <<shown, latest, typed, ed, store, pending, reason, count>>
    /\ UNCHANGED <<kind, open, db, cache, late, saves, writing, asked, busy>>

\* onError, or a stream that ends with nothing in it, after which the page
\* stays busy.
GenerateFails(empty) ==
    /\ Generating /\ gen' = NoGen
    /\ busy' = (busy /\ (empty \/ ~gen.here))
    /\ UNCHANGED <<kind, open, db, cache, late, saves, store, shown, latest, pending, writing,
                   asked, ed, count, typed, reason>>

\* onFinish, of the page that asked and with its editor: the notes are inserted
\* there, the whole content of that editor is stored and saved, and the row is
\* marked as generated.
Finished ==
    /\ Generating /\ gen' = NoGen /\ Made
    /\ typed' = Body
    /\ store' = [store EXCEPT !.body = Body]
    /\ \/ /\ gen.here /\ busy' = FALSE
          /\ latest' = Body /\ pending' = Body /\ UNCHANGED <<late, ed>>
          /\ shown' = IF gen.cap = ed THEN Body ELSE shown
          /\ Note(gen.cap # ed, "dead")
       \/ /\ ~gen.here /\ UNCHANGED <<busy, pending>>
          /\ late' = Body
          /\ latest' = (IF open THEN Body ELSE latest)
          /\ shown' = (IF open /\ ed = 0 THEN Body ELSE shown) /\ ed' = (IF open THEN 1 ELSE ed)
          /\ Note(TRUE, "away")
    /\ db' = [db EXCEPT !.rev = @ + 1]
    /\ cache' = Invalidated
    /\ UNCHANGED <<kind, open, saves, writing, asked>>

-----------------------------------------------------------------------------
Page ==
    \/ \E elapsed \in BOOLEAN : Open(elapsed)
    \/ Leave \/ AskLeave \/ Stay
    \/ TypeNote \/ TypeTitle \/ \E draws, text \in BOOLEAN : Draw(draws, text)
Generation ==
    \/ Generate \/ TranscribeFails \/ Transcribed \/ Finished
    \/ \E empty \in BOOLEAN : GenerateFails(empty)
Saving(i) == Update(i) \/ Lose(i) \/ Retry(i) \/ GiveUp(i) \/ Saved(i)

Next ==
    \/ Page \/ Generation \/ Read \/ Arrive
    \/ SaveStarts \/ LateSaveStarts
    \/ \E i \in Slots : Saving(i)

\* Timers fire, and a request is answered, retried or given up at last.
Fairness ==
    /\ WF_vars(SaveStarts) /\ WF_vars(LateSaveStarts)
    /\ \A i \in Slots : WF_vars(Saving(i))

Spec == Init /\ [][Next]_vars /\ Fairness

-----------------------------------------------------------------------------
(* Properties *)

\* With nothing left to save and no text being edited, the server has the last
\* body the page was given, typed or generated, whether the page is still open,
\* was left or was opened again, and however attempts were lost and retried:
\* unless a save was given up or overtook another, the page was opened with an
\* older row, a text was still being edited on the canvas that was left, a board's
\* ref was set back, a generation ended on an editor or a page that was gone, or an
\* embedded board was removed without a flush.  These are all the ways in which an
\* edit is lost.
SavedWhenQuiet ==
    Quiet /\ ~writing /\ reason = "none" => db.body = typed

\* The editor shows what the store holds and would be saved next: a refetch in
\* the middle of typing never puts an older body behind the editor's back.
ShownIsStored ==
    open /\ store.ready /\ reason = "none" => shown = store.body

\* Every edit reaches the server at last: the debouncer's timer fires, a lost
\* attempt is made again and the retries end, so that either the row holds the
\* last body or one of the losses above has happened.
ReachesServer == <>[](db.body = typed \/ reason # "none" \/ writing)

\* The violated claim of whiteboard/[id]/page.tsx:31: what waits to be saved is
\* the freshest data, when no text is being edited.
SavesFreshest == pending # None /\ ~writing => pending = store.body

=============================================================================
