------------------------------- MODULE Blocks -------------------------------
(***************************************************************************)
(* The document of the note editor (components/tiptap-ui and tiptap-node)  *)
(* and what its toolbar and its slash commands make of one: a paragraph    *)
(* turned into a heading, lists wrapped, joined and taken apart, an image  *)
(* put in.                                                                 *)
(*                                                                         *)
(* A document is a sequence of lines.  A line is one text (a paragraph, a  *)
(* heading, a code block, an item of a list, a text in a quote) or one     *)
(* atom (an upload block, an image, a frame, a rule); a line with "more"   *)
(* continues the list or quote of the line above it.  A text is a sequence *)
(* of words with their marks.  What a quote or an item holds is its texts  *)
(* alone: lists within lists, a heading in a quote and an atom in a list   *)
(* are left out.                                                           *)
(*                                                                         *)
(* A selection is a cursor (line, offset), or whole lines; an atom         *)
(* selected is one whole line.                                             *)
(***************************************************************************)
EXTENDS Naturals, Sequences, FiniteSets, SequencesExt

CONSTANTS
    Words,      \* the ids of the words the user writes
    Slash, Url, \* the slash of a command; the text of an address
    Levels,     \* kinds of headings
    Lists       \* kinds of lists; "task" has items of its own

ASSUME KindsAssumption ==
    /\ Levels \cap {"paragraph", "code", "quote", "upload", "image", "frame", "rule"} = {}
    /\ Lists \cap {"paragraph", "code", "quote", "upload", "image", "frame", "rule"} = {}
    /\ Levels \cap Lists = {}

Tops == {"paragraph", "code"} \cup Levels
TextKinds == Tops \cup Lists \cup {"quote"}
Atoms == {"upload", "image", "frame", "rule"}
Marks == {"bold", "link", "highlight"}
Word(w, m) == [id |-> w, marks |-> m]
TextLine(k, ws) == [kind |-> k, more |-> FALSE, align |-> "left", words |-> ws, ref |-> 0]
Atom(k, r) == [kind |-> k, more |-> FALSE, align |-> "left", words |-> <<>>, ref |-> r]
Empty == TextLine("paragraph", <<>>)

Cursor(l, n) == [i |-> l, j |-> l, o |-> n, all |-> FALSE]
Whole(a, b) == [i |-> a, j |-> b, o |-> 0, all |-> TRUE]

IsText(line) == line.kind \in TextKinds
IsTop(line) == line.kind \in Tops
Selected(s) == s.i .. s.j
OnAtom(d, s) == ~IsText(d[s.i])

\* The lines of the top-level node that holds line l.
BlockOf(d, l) ==
    {k \in DOMAIN d : \A x \in DOMAIN d : (x > Min({k, l}) /\ x <= Max({k, l})) => d[x].more}
OneBlock(d, s) == Selected(s) \subseteq BlockOf(d, s.i)

(* What a document is, and where in one a selection can be.  Only lists    *)
(* and quotes go on over lines, atoms have no text, a code block has no    *)
(* marks, and an upload block has a view of its own.                       *)
WordSeqs == Seq([id : Words \cup {Slash, Url}, marks : SUBSET Marks])
Lines == [kind : TextKinds \cup Atoms, more : BOOLEAN, align : {"left", "center"}, words : WordSeqs, ref : Nat]
GoesOn(d) ==
    \A k \in DOMAIN d : d[k].more =>
        k > 1 /\ d[k].kind = d[k - 1].kind /\ d[k].kind \in Lists \cup {"quote"}
Plain(line) ==
    /\ ~IsText(line) => line.words = <<>>
    /\ line.kind = "code" => \A n \in DOMAIN line.words : line.words[n].marks = {}
OwnViews(d) ==
    \A k, l \in DOMAIN d : (d[k].kind = "upload" /\ d[l].kind = "upload" /\ d[k].ref = d[l].ref) => k = l
Documents ==
    {d \in Seq(Lines) : d # <<>> /\ GoesOn(d) /\ (\A k \in DOMAIN d : Plain(d[k])) /\ OwnViews(d)}

\* Several lines are selected in one block, or as blocks of one text each, or as quotes.
Together(d, a, b) ==
    /\ \A k \in a .. b : IsText(d[k])
    /\ \/ a .. b \subseteq BlockOf(d, a)
       \/ \A k \in a .. b : IsTop(d[k])
       \/ \A k \in a .. b : d[k].kind = "quote"
Spans == [i : Nat, j : Nat, o : Nat, all : BOOLEAN]
Spots(d) ==
    {s \in Spans :
        /\ s.i \in DOMAIN d /\ s.j \in s.i .. Len(d)
        /\ ~s.all => s.j = s.i /\ IsText(d[s.i]) /\ s.o <= Len(d[s.i].words)
        /\ s.i < s.j => Together(d, s.i, s.j)}

(* Positions: a word counts one, and so does the end of a line. *)
Places(d, k) == {k} \X (0 .. Len(d[k].words))
Start(d, l) == Cardinality(UNION {Places(d, k) : k \in 1 .. l - 1})
Total(d) == Start(d, Len(d) + 1)
LineAt(d, p) == Max({l \in DOMAIN d : Start(d, l) <= p})
At(d, p) == LET l == LineAt(d, p) IN IF IsText(d[l]) THEN Cursor(l, p - Start(d, l)) ELSE Whole(l, l)
WordAt(d, p) ==
    LET l == LineAt(d, p) o == p - Start(d, l)
    IN  IF o < Len(d[l].words) THEN d[l].words[o + 1].id ELSE 0

\* The ids of the user's words on the lines in S, in order.
Written(d, S) ==
    LET of(k) == IF k \in S THEN SelectSeq(d[k].words, LAMBDA w: w.id \in Words) ELSE <<>>
        all == FlattenSeq([k \in DOMAIN d |-> of(k)])
    IN  [k \in DOMAIN all |-> all[k].id]

Splice(d, a, b, lines) == SubSeq(d, 1, a - 1) \o lines \o SubSeq(d, b + 1, Len(d))
AlterLines(d, S, F(_)) == [k \in DOMAIN d |-> IF k \in S THEN F(d[k]) ELSE d[k]]

---------------------------------------------------------------------------
(* The commands the toolbar's chains are made of (Tiptap and ProseMirror) *)

\* clearNodes: every selected text becomes a paragraph of its own, with the default attributes.
Cleared(d, S) ==
    [k \in DOMAIN d |->
        IF k \in S THEN TextLine("paragraph", d[k].words)
        ELSE IF k - 1 \in S THEN [d[k] EXCEPT !.more = FALSE] ELSE d[k]]

\* A code block holds no marks.
Fitting(kind, ws) == IF kind = "code" THEN [n \in DOMAIN ws |-> Word(ws[n].id, {})] ELSE ws

\* setNode: the attributes are the default ones.
SetNode(d, S, kind) == AlterLines(d, S, LAMBDA line: TextLine(kind, Fitting(kind, line.words)))

\* wrapIn and wrapInList; a list joins a list of its kind above and below.
Wrap(d, S, kind) ==
    LET a == Min(S)
        b == Max(S)
        Joins(k) == kind \in Lists /\ k \in DOMAIN d /\ d[k].kind = kind
    IN  [k \in DOMAIN d |->
            IF k \in S THEN [d[k] EXCEPT !.kind = kind, !.more = k > a \/ Joins(a - 1)]
            ELSE IF k = b + 1 /\ Joins(k) THEN [d[k] EXCEPT !.more = TRUE] ELSE d[k]]

\* toggleList on texts that are in no list: what cannot be an item first becomes a paragraph.
WrapInList(d, S, kind) ==
    Wrap(IF d[Min(S)].kind = "paragraph" THEN d ELSE Cleared(d, S), S, kind)

---------------------------------------------------------------------------
(* What the toolbar turns the selected texts into.  Of one block, with a   *)
(* cursor or a selection in it, every text is taken: the block is          *)
(* selected, its nodes are cleared, and the toggle applies to what is left *)
(* unless the block was of that kind.  Texts of several blocks are         *)
(* toggled as they are; in several quotes they would be within them, which *)
(* is left out.                                                            *)

TurnInto(d, s, kind, Toggle(_, _)) ==
    IF ~OneBlock(d, s) THEN IF d[s.i].kind = "quote" THEN d ELSE Toggle(d, Selected(s))
    ELSE LET B == BlockOf(d, s.i)
         IN  IF d[s.i].kind = kind THEN Cleared(d, B) ELSE Toggle(Cleared(d, B), B)

TurnedHeading(d, s, level) ==
    TurnInto(d, s, level,
        LAMBDA e, S: SetNode(e, S, IF \A k \in S : e[k].kind = level THEN "paragraph" ELSE level))
TurnedCode(d, s) ==
    TurnInto(d, s, "code",
        LAMBDA e, S: SetNode(e, S, IF \A k \in S : e[k].kind = "code" THEN "paragraph" ELSE "code"))
TurnedList(d, s, type) == TurnInto(d, s, type, LAMBDA e, S: WrapInList(e, S, type))
\* Several quotes are "active" and cannot be lifted together: nothing changes.
TurnedQuote(d, s) == TurnInto(d, s, "quote", LAMBDA e, S: Wrap(e, S, "quote"))

\* selectTextblockEnd, of the last text of the block or of the selection.
AfterTurn(d, s, turned) ==
    LET last == IF OneBlock(d, s) THEN Max(BlockOf(d, s.i)) ELSE s.j
    IN  Cursor(last, Len(turned[last].words))

---------------------------------------------------------------------------
(* Marks *)

SelectedWords(d, s) ==
    IF s.all THEN FlattenSeq([n \in 1 .. s.j - s.i + 1 |-> d[s.i + n - 1].words]) ELSE <<>>
\* The marks a cursor stands in are those of the word before it.
MarksAt(d, s) ==
    LET ws == d[s.i].words
    IN  IF ws = <<>> THEN {} ELSE ws[Max({s.o, 1})].marks
MarkActive(d, s, m) ==
    IF s.all THEN SelectedWords(d, s) # <<>> /\ \A w \in ToSet(SelectedWords(d, s)) : m \in w.marks
    ELSE m \in MarksAt(d, s)
\* A mark can be set where some text allows it; a code block allows none.
CanMark(d, s) ==
    IF s.all THEN \E k \in Selected(s) : d[k].kind # "code" /\ d[k].words # <<>>
    ELSE d[s.i].kind # "code"
Marking(d, S, F(_)) ==
    AlterLines(d, S, LAMBDA line:
        IF line.kind = "code" THEN line
        ELSE [line EXCEPT !.words = [n \in DOMAIN line.words |-> Word(line.words[n].id, F(line.words[n].marks))]])
SetMark(d, S, m) == Marking(d, S, LAMBDA marks: marks \cup {m})
UnsetMark(d, S, m) == Marking(d, S, LAMBDA marks: marks \ {m})
ToggledMark(d, s, m) ==
    IF MarkActive(d, s, m) THEN UnsetMark(d, Selected(s), m) ELSE SetMark(d, Selected(s), m)

\* extendMarkRange("link") at a cursor: the linked words around it, the word after it first.
LinkRange(d, s) ==
    LET ws == d[s.i].words
        Linked(n) == n \in DOMAIN ws /\ "link" \in ws[n].marks
        at == IF Linked(s.o + 1) THEN s.o + 1 ELSE s.o
    IN  {n \in DOMAIN ws : \A x \in DOMAIN ws \cup {at} :
            (x >= Min({n, at}) /\ x <= Max({n, at})) => Linked(x)}

---------------------------------------------------------------------------
(* Slash commands, on line l after the slash is deleted *)

\* setHeading and setCodeBlock: an item leaves its list first; a quote keeps it.
BlockCommand(d, l, kind) ==
    IF d[l].kind = "quote" THEN d
    ELSE SetNode(IF d[l].kind \in Lists THEN Cleared(d, {l}) ELSE d, {l}, kind)
\* toggleBulletList, toggleOrderedList, toggleTaskList.
ListCommand(d, l, type) ==
    LET old == d[l].kind
        same == (old = "task") = (type = "task")
    IN  IF old = "quote" THEN d
        ELSE IF old = type THEN Cleared(d, {l})
        ELSE IF old \in Lists /\ same
        THEN LET B == BlockOf(d, l) IN Wrap(d, B, type)
        ELSE WrapInList(IF old \in Lists THEN Cleared(d, {l}) ELSE d, {l}, type)
QuoteCommand(d, l) == IF IsTop(d[l]) THEN Wrap(d, {l}, "quote") ELSE d

---------------------------------------------------------------------------
(* insertContent of an atom in place of the selection *)

Replaced(d, s) ==
    \/ s.all /\ OnAtom(d, s)
    \/ ~s.all /\ d[s.i].words = <<>> /\ d[s.i].kind # "code"
Inserted(d, s, atom) ==
    IF Replaced(d, s) THEN Splice(d, s.i, s.i, <<atom>>)
    ELSE LET before == IF s.all THEN <<>> ELSE SubSeq(d[s.i].words, 1, s.o)
             after == IF s.all THEN <<>> ELSE SubSeq(d[s.j].words, s.o + 1, Len(d[s.j].words))
         IN  Splice(d, s.i, s.j,
                <<[d[s.i] EXCEPT !.words = before], atom, [d[s.j] EXCEPT !.words = after]>>)
AfterInsert(d, s) == IF Replaced(d, s) THEN Whole(s.i, s.i) ELSE Cursor(s.i + 2, 0)

\* A word at the cursor, and deleteRange of one position: a word, an atom, or the end of a line.
PutWord(d, s, w) == [d EXCEPT ![s.i].words = InsertAt(@, s.o + 1, w)]
DeleteAt(d, p) ==
    LET l == LineAt(d, p)
        o == p - Start(d, l)
    IN  IF o < Len(d[l].words) THEN [d EXCEPT ![l].words = RemoveAt(@, o + 1)]
        ELSE IF ~IsText(d[l]) THEN (IF Len(d) = 1 THEN <<Empty>> ELSE RemoveAt(d, l))
        ELSE IF l = Len(d) \/ ~IsText(d[l + 1]) THEN d
        ELSE LET joined == [d EXCEPT ![l].words = @ \o Fitting(d[l].kind, d[l + 1].words)]
                 rest == IF l + 2 \in DOMAIN d
                         THEN [joined EXCEPT ![l + 2].more = @ /\ d[l + 1].more] ELSE joined
             IN  RemoveAt(rest, l + 1)
MovedBy(d, s, p) ==
    LET q == Start(d, s.i) + s.o IN At(DeleteAt(d, p), IF q > p THEN q - 1 ELSE q)

\* The next cursor after line l; a paragraph is added at the end when there is none.
NextText(d, l) == {k \in l + 1 .. Len(d) : IsText(d[k])}
WithNext(d, l) == IF NextText(d, l) = {} THEN Append(d, Empty) ELSE d
AfterLine(d, l) == Cursor(IF NextText(d, l) = {} THEN Len(d) + 1 ELSE Min(NextText(d, l)), 0)
=============================================================================
