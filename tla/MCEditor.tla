------------------------------ MODULE MCEditor ------------------------------
(* Notes to open the editor with: one with an upload block left in it and a *)
(* list, one with a list and a quote, one with two upload blocks.          *)
EXTENDS Editor

CONSTANTS w1, w2, w3

Text(w) == <<Word(w, {})>>
Item(type, w, more) == [TextLine(type, Text(w)) EXCEPT !.more = more]

MCNotes == {
    <<TextLine("paragraph", Text(w1)), Atom("upload", 1), Item("bullet", w2, FALSE)>>,
    <<Item("bullet", w1, FALSE), Item("bullet", w2, TRUE), TextLine("quote", <<Word(w3, {"link"})>>)>>,
    <<TextLine("paragraph", <<Word(w1, {}), Word(w2, {"link"})>>), Atom("upload", 1), Atom("upload", 2)>>}
=============================================================================
