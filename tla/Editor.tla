------------------------------- MODULE Editor -------------------------------
(***************************************************************************)
(* The note editor at work: one document changed by the toolbar, by slash  *)
(* commands and their submenus, and by uploads that finish while the user  *)
(* goes on writing.                                                        *)
(*                                                                         *)
(* A chain of commands is one transaction, after which the editor tells    *)
(* what listens to it: the slash popup follows the cursor, the link        *)
(* popover takes the address at the selection, an upload block that left   *)
(* the document loses its view.  The address being typed, the popup of a   *)
(* submenu and the files of an upload live outside of the document.        *)
(*                                                                         *)
(* Left out: marks for text not yet written, colors of highlights, sizes   *)
(* of frames, dragging, and the editing that is ProseMirror's own but for  *)
(* writing a word, moving the selection and deleting a selected block.     *)
(***************************************************************************)
EXTENDS Blocks

CONSTANTS
    Notes,      \* the documents a note may be opened with
    Limit,      \* how many files one upload takes
    Sets,       \* bound: uploads at work together
    Depth,      \* bound: how many steps the history keeps
    MaxLines,   \* bound: the lines of a document
    MaxActs     \* bound: what the user does

ASSUME EditorAssumption ==
    /\ Limit \in Nat /\ Depth \in Nat /\ MaxLines \in Nat /\ MaxActs \in Nat
    /\ Slash \notin Words /\ Url \notin Words /\ Slash # Url

ViewsOf(d) == {d[k].ref : k \in {k \in DOMAIN d : d[k].kind = "upload"}}

\* Whoever opens a note mounts its upload blocks one after the other.
ASSUME NotesAssumption ==
    \A d \in Notes : d \in Documents /\ IsText(d[1]) /\ ViewsOf(d) = 1 .. Cardinality(ViewsOf(d))

Submenus == {"whiteboard", "iframe"}
NoPopup == [mode |-> "none", at |-> 0]
NoUpload == [view |-> 0, res |-> <<>>, aborted |-> {}]

VARIABLES
    doc,      \* the document
    sel,      \* the selection
    undo,     \* the history: the documents before the last changes
    redo,     \* the documents that were undone
    views,    \* the next view of an upload block
    items,    \* the files that upload blocks show
    uploads,  \* the uploads at work: their view, their files and what became of each
    popup,    \* the popup of the slash command
    orphans,  \* popups on the page that nothing refers to any more
    link,     \* the link popover: whether it is open, and its address
    pending,  \* a highlight waits for its timer
    acts      \* how much the user has done

textVars == <<doc, sel, undo, redo, views>>
uploadVars == <<items, uploads>>
menuVars == <<popup, orphans>>
vars == <<textVars, uploadVars, menuVars, link, pending, acts>>

Shown(v) == {it \in items : it.view = v}

Init ==
    /\ doc \in Notes
    /\ sel = Cursor(1, 0)
    /\ undo = <<>> /\ redo = <<>>
    /\ views = 1 + Cardinality(ViewsOf(doc))
    /\ items = {}
    /\ uploads = [n \in Sets |-> NoUpload]
    /\ popup = NoPopup /\ orphans = {}
    /\ link = [open |-> FALSE, url |-> "null"]
    /\ pending = FALSE
    /\ acts = 0

Act == ~pending /\ acts < MaxActs /\ acts' = acts + 1

---------------------------------------------------------------------------
(* A transaction and what follows it *)

Suggesting(d, s) == ~s.all /\ s.o > 0 /\ d[s.i].words[s.o].id = Slash
Here(d, s) == Start(d, s.i) + s.o - 1
Starts(d, s) == Suggesting(d, s) /\ ~Suggesting(doc, sel)
Stops(d, s) == ~Suggesting(d, s) /\ Suggesting(doc, sel)

\* onStart makes a popup, whatever was there; onExit leaves a submenu alone.
Orphaned(d, s) ==
    IF Starts(d, s) /\ popup.mode \in Submenus THEN orphans \cup {popup} ELSE orphans
Popup(d, s) ==
    IF Starts(d, s) THEN [mode |-> "commands", at |-> 0]
    ELSE IF Stops(d, s) /\ popup.mode = "commands" THEN NoPopup
    ELSE popup
Suggest(d, s) == popup' = Popup(d, s) /\ orphans' = Orphaned(d, s)

\* A selection is told of when its positions change: those count the nodes around the texts before it.
Depths(kind) == IF kind \in Lists THEN 2 ELSE IF kind = "quote" THEN 1 ELSE 0
Positions(d, s) == <<s, [k \in 1 .. s.j |-> <<Depths(d[k].kind), d[k].more, Len(d[k].words), IsText(d[k])>>]>>
SameSelection(d, s) == Positions(d, s) = Positions(doc, sel)

\* The address the popover shows follows the selection, and the popover opens on a link.
IsLinkActive(d, s) == MarkActive(d, s, "link")
LinkOf(d, s) == IF IsLinkActive(d, s) THEN "href" ELSE "empty"
ListenedLate(d, s) ==
    [open |-> IsLinkActive(d, s) /\ ~IsLinkActive(doc, sel), url |-> link.url]
Listened(d, s) ==
    [open |-> IsLinkActive(d, s) /\ ~IsLinkActive(doc, sel),
     url |-> IF SameSelection(d, s) THEN link.url ELSE LinkOf(d, s)]

Mounted(its, d) == {it \in its : it.view \in ViewsOf(d)}
Recent(s) == IF Len(s) > Depth THEN Tail(s) ELSE s
Remember(d) ==
    IF d = doc THEN UNCHANGED <<undo, redo>>
    ELSE undo' = Recent(Append(undo, [doc |-> doc, sel |-> sel])) /\ redo' = <<>>

Becomes(d, s) == doc' = d /\ sel' = s /\ items' = Mounted(items, d)
Transact(d, s) == Becomes(d, s) /\ Remember(d) /\ Suggest(d, s)
Chain(d, s) == Transact(d, s) /\ link' = Listened(d, s) /\ UNCHANGED <<views, uploads, pending>>

---------------------------------------------------------------------------
(* What the user does in the text itself *)

Selections(d) ==
    {Cursor(l, n) : l \in {k \in DOMAIN d : IsText(d[k])}, n \in {0}}
    \cup {Cursor(l, Len(d[l].words)) : l \in {k \in DOMAIN d : IsText(d[k])}}
    \cup {Whole(l, l) : l \in {k \in DOMAIN d : ~IsText(d[k]) \/ d[k].words # <<>>}}
    \cup {Whole(s[1], s[2]) : s \in {x \in (DOMAIN d) \X (DOMAIN d) :
            x[1] < x[2] /\ Together(d, x[1], x[2])}}

Select == \E s \in Selections(doc) : s # sel /\ Act /\ Chain(doc, s)
Put(w) == Chain(PutWord(doc, sel, Word(w, MarksAt(doc, sel))), [sel EXCEPT !.o = @ + 1])
TypeWord ==
    LET free == {w \in Words : \A k \in DOMAIN doc : \A n \in DOMAIN doc[k].words : doc[k].words[n].id # w}
    IN  ~sel.all /\ free # {} /\ Act /\ Put(CHOOSE w \in free : TRUE)
TypeSlash ==
    /\ ~sel.all /\ \A k \in DOMAIN doc : Slash \notin {doc[k].words[n].id : n \in DOMAIN doc[k].words}
    /\ Act /\ Put(Slash)
DeleteNode ==
    /\ sel.all /\ OnAtom(doc, sel) /\ Act
    /\ LET d == DeleteAt(doc, Start(doc, sel.i))
       IN  Chain(d, At(d, Min({Start(doc, sel.i), Total(d) - 1})))

---------------------------------------------------------------------------
(* The toolbar *)

\* Atoms cannot be turned into anything; clearNodes always can be run.
CanTurn == ~(sel.all /\ OnAtom(doc, sel))
TurnTo(turned) == Chain(turned, AfterTurn(doc, sel, turned))

CanHeading == CanTurn
UseHeading(level) == CanHeading /\ TurnTo(TurnedHeading(doc, sel, level))
HeadingButton(level) == Act /\ UseHeading(level)
HeadingMenuOpens == CanHeading
HeadingDropdownMenu == HeadingMenuOpens /\ \E level \in Levels : HeadingButton(level)

CanToggleList(type) == type \in Lists /\ CanTurn
UseList(type) == CanToggleList(type) /\ TurnTo(TurnedList(doc, sel, type))
ListButton(type) == Act /\ UseList(type)
CanToggleAnyList == \E type \in Lists : CanToggleList(type)
ListMenuOpens == CanToggleAnyList
ListDropdownMenu == ListMenuOpens /\ \E type \in Lists : ListButton(type)

CanCodeBlock == CanTurn
UseCodeBlock == CanCodeBlock /\ TurnTo(TurnedCode(doc, sel))
CodeBlockButton == Act /\ UseCodeBlock

CanBlockquote == CanTurn
UseBlockquote == CanBlockquote /\ TurnTo(TurnedQuote(doc, sel))
BlockquoteButton == Act /\ UseBlockquote

UseMark == sel.all /\ CanMark(doc, sel) /\ Chain(ToggledMark(doc, sel, "bold"), sel)
MarkButton == Act /\ UseMark
CanSetTextAlign == CanTurn
SetTextAlign(align) ==
    Chain(AlterLines(doc, Selected(sel),
            LAMBDA line: IF line.kind = "code" THEN line ELSE [line EXCEPT !.align = align]), sel)
UseTextAlign == CanSetTextAlign /\ SetTextAlign("center")
TextAlignButton == Act /\ UseTextAlign

\* A click on a color waits for a timer; the timer takes the selection there is.
CanColorHighlight == sel.all /\ CanMark(doc, sel)
UseColorHighlight == CanColorHighlight /\ pending' = TRUE
ColorHighlightButton ==
    /\ UseColorHighlight /\ Act
    /\ UNCHANGED <<textVars, uploadVars, menuVars, link>>
HighlightFires ==
    /\ pending /\ pending' = FALSE
    /\ LET d == IF sel.all THEN ToggledMark(doc, sel, "highlight") ELSE doc
       IN  Transact(d, sel) /\ link' = Listened(d, sel)
    /\ UNCHANGED <<views, uploads, acts>>
RemoveHighlight ==
    /\ CanColorHighlight /\ Act
    /\ Chain(UnsetMark(doc, Selected(sel), "highlight"), sel)
ColorHighlightPopover == ColorHighlightButton \/ RemoveHighlight

---------------------------------------------------------------------------
(* Undo and redo: the history groups changes, so that several may go at once *)

\* What is put back gets a new view, and with it no files.
Revived(d) ==
    LET dead == {k \in DOMAIN d : d[k].kind = "upload" /\ d[k].ref \notin ViewsOf(doc)}
    IN  [k \in DOMAIN d |->
            IF k \in dead THEN [d[k] EXCEPT !.ref = views + Cardinality({x \in dead : x < k})] ELSE d[k]]
CanUndoRedo == ~(sel.all /\ doc[sel.i].kind = "image")
Restore(old) ==
    LET d == Revived(old.doc)
    IN  /\ Becomes(d, old.sel) /\ Suggest(d, old.sel) /\ link' = Listened(d, old.sel)
        /\ views' = views + Cardinality(ViewsOf(d) \ ViewsOf(doc))
        /\ UNCHANGED <<uploads, pending>>
Undo ==
    \E k \in DOMAIN undo :
        /\ Restore(undo[k])
        /\ undo' = SubSeq(undo, 1, k - 1)
        /\ redo' = Recent(Append(redo, [doc |-> doc, sel |-> sel]))
Redo ==
    /\ redo # <<>>
    /\ Restore(Last(redo))
    /\ redo' = Front(redo)
    /\ undo' = Recent(Append(undo, [doc |-> doc, sel |-> sel]))
UseUndoRedo == CanUndoRedo /\ (Undo \/ Redo)
UndoRedoButton == Act /\ UseUndoRedo

---------------------------------------------------------------------------
(* Links *)

CanSetLink == CanMark(doc, sel)
ClickLink == CanSetLink /\ Act /\ link' = [link EXCEPT !.open = ~@]
             /\ UNCHANGED <<textVars, uploadVars, menuVars, pending>>
TypeUrl ==
    /\ link.open /\ Act
    /\ link' = [link EXCEPT !.url = "typed"]
    /\ UNCHANGED <<textVars, uploadVars, menuVars, pending>>

\* With a cursor the address is put in as a text, in place of the link the cursor is in.
Relinks == ~sel.all /\ LinkRange(doc, sel) # {}
WithLink ==
    LET R == LinkRange(doc, sel)
        ws == doc[sel.i].words
        marks == IF doc[sel.i].kind = "code" THEN {} ELSE MarksAt(doc, sel) \cup {"link"}
        a == IF R = {} THEN sel.o + 1 ELSE Min(R)
        b == IF R = {} THEN sel.o ELSE Max(R)
    IN  IF sel.all THEN SetMark(doc, Selected(sel), "link")
        ELSE [doc EXCEPT ![sel.i].words = SubSeq(ws, 1, a - 1) \o <<Word(Url, marks)>> \o SubSeq(ws, b + 1, Len(ws))]
AfterLink ==
    IF sel.all THEN sel
    ELSE Cursor(sel.i, IF LinkRange(doc, sel) = {} THEN sel.o + 1 ELSE Min(LinkRange(doc, sel)))
SetLink ==
    /\ link.open /\ link.url \in {"href", "typed"} /\ Act
    /\ Transact(WithLink, AfterLink)
    /\ link' = [open |-> FALSE, url |-> IF IsLinkActive(WithLink, AfterLink) THEN "href" ELSE "null"]
    /\ UNCHANGED <<views, uploads, pending>>
RemoveLink ==
    /\ link.open /\ sel.all /\ Act
    /\ link.url \in {"href", "typed"} \/ IsLinkActive(doc, sel)
    /\ Transact(UnsetMark(doc, Selected(sel), "link"), sel)
    /\ link' = [open |-> FALSE, url |-> "empty"]
    /\ UNCHANGED <<views, uploads, pending>>

---------------------------------------------------------------------------
(* Blocks put in, and slash commands *)

CanInsert(d, s) ==
    /\ Len(d) + 2 <= MaxLines
    /\ (s.all /\ OnAtom(d, s)) \/ \A k \in Selected(s) : IsTop(d[k])
NewUpload == Atom("upload", views)
InsertImage ==
    /\ CanInsert(doc, sel)
    /\ LET d == Inserted(doc, sel, NewUpload) s == AfterInsert(doc, sel)
       IN  Transact(d, s) /\ link' = Listened(d, s)
    /\ views' = views + 1 /\ UNCHANGED <<uploads, pending>>
ImageUploadButton == Act /\ InsertImage
WhiteboardEmbedButton ==
    CanInsert(doc, sel) /\ Act /\ Chain(Inserted(doc, sel, Atom("frame", 0)), AfterInsert(doc, sel))

\* The document and the cursor after the slash is deleted.
Slashed == DeleteAt(doc, Here(doc, sel))
Back == [sel EXCEPT !.o = @ - 1]
Choosing == popup.mode = "commands" /\ Act
LineCommand(d) == Chain(d, Back)
TextCommands ==
    /\ Choosing
    /\ \/ \E kind \in Levels \cup {"code"} : LineCommand(BlockCommand(Slashed, sel.i, kind))
       \/ \E type \in Lists : LineCommand(ListCommand(Slashed, sel.i, type))
       \/ LineCommand(QuoteCommand(Slashed, sel.i))
       \/ LineCommand(Slashed)
AfterRule(d, l) ==
    IF l = Len(d) THEN <<Append(d, Empty), Cursor(l + 1, 0)>>
    ELSE <<d, IF IsText(d[l + 1]) THEN Cursor(l + 1, 0) ELSE Whole(l + 1, l + 1)>>
RuleCommand ==
    /\ Choosing /\ CanInsert(Slashed, Back)
    /\ LET d == Inserted(Slashed, Back, Atom("rule", 0))
           l == IF Replaced(Slashed, Back) THEN sel.i ELSE sel.i + 1
       IN  Chain(AfterRule(d, l)[1], AfterRule(d, l)[2])
ImageCommand ==
    /\ Choosing /\ CanInsert(Slashed, Back)
    /\ LET d == Inserted(Slashed, Back, NewUpload) s == AfterInsert(Slashed, Back)
       IN  Transact(d, s) /\ link' = Listened(d, s)
    /\ views' = views + 1 /\ UNCHANGED <<uploads, pending>>
OpenSubmenu ==
    /\ Choosing
    /\ \E m \in Submenus : popup' = [mode |-> m, at |-> Here(doc, sel)]
    /\ UNCHANGED <<textVars, uploadVars, orphans, link, pending>>

\* Escape in the editor, and in the address of a frame.
Dismiss ==
    /\ popup.mode # "none" /\ (Suggesting(doc, sel) \/ popup.mode = "iframe") /\ Act
    /\ popup' = NoPopup
    /\ UNCHANGED <<textVars, uploadVars, orphans, link, pending>>

\* The range is the one the submenu was opened with; the block goes where the cursor is.
Stale(p) == WordAt(doc, p.at) # Slash
Answer(p, d, s) ==
    /\ Becomes(d, s) /\ Remember(d)
    /\ popup' = NoPopup /\ orphans' = Orphaned(d, s)
    /\ link' = Listened(d, s)
    /\ UNCHANGED <<views, uploads, pending>>
Ready(p) == p.mode \in Submenus /\ ~sel.all /\ p.at < Total(doc) - 1 /\ Act
SelectBoard(p) ==
    LET d == DeleteAt(doc, p.at) s == MovedBy(doc, sel, p.at)
    IN  /\ p.mode = "whiteboard" /\ Ready(p) /\ CanInsert(d, s)
        /\ Answer(p, Inserted(d, s, Atom("frame", 0)), AfterInsert(d, s))
\* An address of a forbidden kind is not put in, but the range is gone.
SubmitUrl(p) ==
    LET d == DeleteAt(doc, p.at) s == MovedBy(doc, sel, p.at)
    IN  /\ p.mode = "iframe" /\ Ready(p) /\ CanInsert(d, s)
        /\ \/ Answer(p, Inserted(d, s, Atom("frame", 0)), AfterInsert(d, s))
           \/ Answer(p, d, s)
AnswerSubmenu == \E p \in {popup} \cup orphans : SelectBoard(p) \/ SubmitUrl(p)

---------------------------------------------------------------------------
(* Uploads *)

\* Files are taken while the block shows none; one that is too big is dropped at once.
Picks == UNION {[1 .. n -> {"pending", "null"}] : n \in 1 .. Limit}
Idle(n) == uploads[n] = NoUpload /\ \A it \in items : it.set # n
PickFiles ==
    /\ \E v \in ViewsOf(doc), res \in Picks, n \in Sets :
        /\ Shown(v) = {} /\ Idle(n) /\ \A x \in Sets : Idle(x) => x >= n
        /\ "pending" \in ToSet(res)
        /\ uploads' = [uploads EXCEPT ![n] = [view |-> v, res |-> res, aborted |-> {}]]
        /\ items' = items \cup {[set |-> n, n |-> k, view |-> v] : k \in {k \in DOMAIN res : res[k] = "pending"}}
    /\ Act
    /\ UNCHANGED <<textVars, menuVars, link, pending>>

Abort(its) ==
    /\ items' = items \ its
    /\ uploads' = [n \in Sets |->
            [uploads[n] EXCEPT !.aborted = @ \cup {it.n : it \in {x \in its : x.set = n}}]]
    /\ Act
    /\ UNCHANGED <<textVars, menuVars, link, pending>>
RemoveFileItem == \E it \in items : Abort({it})
ClearAllFiles == \E v \in ViewsOf(doc) : Cardinality(Shown(v)) > 1 /\ Abort(Shown(v))

\* How many addresses an upload returns: files that were aborted, or too big, have none.
ArrivedTogether(res) == IF "null" \in ToSet(res) THEN 0 ELSE Len(res)
Arrived(res) == Cardinality({k \in DOMAIN res : res[k] = "url"})
\* getPos: where the block is now, if it still is in the document.
WhereCursor(v) == IF v \in ViewsOf(doc) THEN {sel.i} ELSE {}
Where(v) == {k \in DOMAIN doc : doc[k].kind = "upload" /\ doc[k].ref = v}
HandleUpload(u, urls) ==
    IF urls = 0 \/ Where(u.view) = {}
    THEN UNCHANGED <<textVars, items, menuVars, link, pending>>
    ELSE LET l == Max(Where(u.view))
             last == l + urls - 1
             d == Splice(doc, l, l, [m \in 1 .. urls |-> Atom("image", 0)])
         IN  /\ Transact(WithNext(d, last), AfterLine(d, last))
             /\ link' = Listened(WithNext(d, last), AfterLine(d, last))
             /\ UNCHANGED <<views, pending>>

\* One file settles; the last of its upload puts the images in.  The node also has
\* a place for a file that fails without being aborted, which it goes on showing
\* (image-upload-node.tsx:142-156): handleImageUpload, which returns a fixed
\* address, fails no file in this way.
Settled(u, k) == [u.res EXCEPT ![k] = IF k \in u.aborted THEN "null" ELSE "url"]
UploadFile ==
    \E n \in Sets : \E k \in DOMAIN uploads[n].res :
        LET u == uploads[n] res == Settled(u, k)
        IN  /\ u.res[k] = "pending"
            /\ acts' = acts
            /\ IF \E x \in DOMAIN res : res[x] = "pending"
               THEN /\ uploads' = [uploads EXCEPT ![n].res = res]
                    /\ UNCHANGED <<textVars, items, menuVars, link, pending>>
               ELSE /\ uploads' = [uploads EXCEPT ![n] = NoUpload]
                    /\ HandleUpload(u, Arrived(res))

---------------------------------------------------------------------------

LinkPopover == ClickLink \/ TypeUrl \/ SetLink \/ RemoveLink
Toolbar ==
    \/ UndoRedoButton
    \/ HeadingDropdownMenu \/ ListDropdownMenu \/ BlockquoteButton \/ CodeBlockButton
    \/ MarkButton \/ ColorHighlightPopover \/ LinkPopover \/ TextAlignButton
    \/ ImageUploadButton \/ WhiteboardEmbedButton
ImageUpload == PickFiles \/ RemoveFileItem \/ ClearAllFiles \/ UploadFile

Next ==
    \/ Select \/ TypeWord \/ TypeSlash \/ DeleteNode
    \/ Toolbar \/ HighlightFires
    \/ TextCommands \/ RuleCommand \/ ImageCommand
    \/ OpenSubmenu \/ Dismiss \/ AnswerSubmenu
    \/ ImageUpload

Spec == Init /\ [][Next]_vars

---------------------------------------------------------------------------
(* Properties *)

\* The document, its history and the selections in them are what they can be
\* (see Documents and Spots), every view was given out, and a block
\* shows files only while it is in the document.
Pasts(v) ==
    {h \in [doc : Documents, sel : Spans] : h.sel \in Spots(h.doc) /\ \A x \in ViewsOf(h.doc) : x < v}
Files == [set : Sets, n : Nat, view : Nat]
Uploads == [view : Nat, res : Seq({"pending", "null", "url"}), aborted : SUBSET Nat]
TypeOK ==
    /\ doc \in Documents /\ sel \in Spots(doc)
    /\ views \in Nat /\ \A v \in ViewsOf(doc) : v < views
    /\ undo \in Seq(Pasts(views)) /\ redo \in Seq(Pasts(views))
    /\ items \in SUBSET Files /\ uploads \in [Sets -> Uploads]
    /\ \A it \in items : it.view \in ViewsOf(doc)
    /\ popup \in [mode : {"none", "commands"} \cup Submenus, at : Nat]
    /\ popup.mode = "commands" => Suggesting(doc, sel)
    /\ orphans \in SUBSET [mode : Submenus, at : Nat]
    /\ link \in [open : BOOLEAN, url : {"null", "empty", "href", "typed"}]
    /\ pending \in BOOLEAN /\ acts \in 0 .. MaxActs

\* No step but undo and redo takes away or reorders a word outside of the
\* selection: not the toolbar, which takes lists apart and joins them, not a
\* slash command, which deletes its slash, and not an upload, which finishes
\* after the document has changed and puts its images in a block that may
\* have moved.  Two answers do take words: that of a submenu whose range is no
\* longer the slash, and an address put in with the cursor in a link.
Kept ==
    LET out == Written(doc, DOMAIN doc \ (IF sel.all THEN Selected(sel) ELSE {}))
        now == Written(doc', DOMAIN doc')
    IN  SelectSeq(now, LAMBDA w: w \in ToSet(out)) = out
KeepsWords ==
    [][\/ Kept
       \/ Undo \/ Redo
       \/ SetLink /\ Relinks
       \/ \E p \in {popup} \cup orphans : Stale(p) /\ (SelectBoard(p) \/ SubmitUrl(p))]_vars

\* A block that shows files still waits for one of them: it takes no click and no
\* file while it shows any, so that a block left with files and no upload would go
\* on showing their progress until each of them was taken away.
UploadSettles == \A it \in items : \E n \in Sets : uploads[n].view = it.view /\ uploads[n] # NoUpload

\* The address typed in the popover is for the text that is selected: when the
\* selection moves below it (an upload that finishes moves it) or gets other
\* words, the address is dropped.  Undo and redo are apart: what they put back
\* may be another text of the same lengths, which no listener is told of.
Linking ==
    <<sel, IF ~sel.all THEN <<>>
           ELSE [k \in {k \in Selected(sel) \cap DOMAIN doc : IsText(doc[k])} |->
                    [n \in DOMAIN doc[k].words |-> doc[k].words[n].id]]>>
LinkForSelection ==
    [][link.url = "typed" /\ link'.url = "typed" => Linking' = Linking \/ Undo \/ Redo]_vars
=============================================================================
