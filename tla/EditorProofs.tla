---------------------------- MODULE EditorProofs ----------------------------
(***************************************************************************)
(* Theorems about the note editor, for every note, any words, any number   *)
(* of lines, files and uploads, and any length of the history.             *)
(*                                                                         *)
(* First what positions are, then one lemma for each command that the      *)
(* buttons and the slash menu call: from a document and a selection in it  *)
(* it makes a document and a selection in it, without a view that was not  *)
(* there.  Then one lemma for each action, which keeps the invariant Inv:  *)
(* TypeOK, and Working, by which a file that is shown is being uploaded.   *)
(* The address of a link is followed from step to step at the end.         *)
(***************************************************************************)
EXTENDS Editor, FiniteSetTheorems, WellFoundedInduction, TLAPS

\* A set of numbers that is not empty has a least one: a slot for the files of
\* an upload, the first line of a block.
LEMMA Least == ASSUME NEW S \in SUBSET Nat, S # {} PROVE \E n \in S : \A m \in S : n <= m
<1> DEFINE R == {ss \in Nat \X Nat : ss[1] < ss[2]}
<1>1. OpToRel(<, Nat) = R
  BY DEF OpToRel
<1>2. IsWellFoundedOn(R, Nat)
  BY <1>1, NatLessThanWellFounded
<1>3. PICK n \in S : \A m \in S : <<m, n>> \notin R
  <2> HIDE DEF R
  <2> QED BY <1>2, WFMin
<1>4. ASSUME NEW m \in S PROVE n <= m
  <2>1. <<m, n>> \notin R /\ m \in Nat /\ n \in Nat
    BY <1>3
  <2>2. <<m, n>> \in Nat \X Nat
    BY <2>1
  <2>3. <<m, n>>[1] = m /\ <<m, n>>[2] = n
    OBVIOUS
  <2>4. ~ (m < n)
    BY <2>1, <2>2, <2>3
  <2> QED BY <2>1, <2>4
<1> QED BY <1>4

\* A set of numbers with a bound has a greatest one.
LEMMA Greatest ==
    ASSUME NEW S \in SUBSET Nat, S # {}, NEW b \in Nat, \A n \in S : n <= b
    PROVE  \E n \in S : \A m \in S : m <= n
<1> DEFINE U == {u \in Nat : \A m \in S : m <= u}
<1>1. U \in SUBSET Nat /\ b \in U
  OBVIOUS
<1>2. PICK u \in U : \A v \in U : u <= v
  BY <1>1, Least
<1>3. u \in S
  <2> SUFFICES ASSUME u \notin S PROVE FALSE
    OBVIOUS
  <2>1. PICK m \in S : TRUE
    OBVIOUS
  <2>2. \A n \in S : n <= u /\ n # u /\ n \in Nat
    BY <1>2
  <2>3. u - 1 \in Nat /\ \A n \in S : n <= u - 1
    BY <2>1, <2>2, <1>2
  <2> QED BY <2>3, <1>2
<1> QED BY <1>2, <1>3

\* The least and the greatest of some numbers are among them.
LEMMA MinOf ==
    ASSUME NEW S \in SUBSET Nat, S # {} PROVE Min(S) \in S /\ \A m \in S : Min(S) <= m
BY Least DEF Min
LEMMA MaxOf ==
    ASSUME NEW S \in SUBSET Nat, S # {}, NEW b \in Nat, \A n \in S : n <= b
    PROVE  Max(S) \in S /\ \A m \in S : m <= Max(S)
<1>1. \E n \in S : \A m \in S : m <= n
  BY Greatest
<1>2. \E n \in S : \A m \in S : n >= m
  <2>1. PICK n \in S : \A m \in S : m <= n
    BY <1>1
  <2>2. \A m \in S : n >= m
    BY <2>1
  <2> QED BY <2>2
<1>3. Max(S) \in S /\ \A m \in S : Max(S) >= m
  BY <1>2 DEF Max
<1> QED BY <1>3

\* Induction, for a set of numbers.
LEMMA Induct ==
    ASSUME NEW S \in SUBSET Nat, 0 \in S, \A n \in S : n + 1 \in S PROVE \A n \in Nat : n \in S
<1> SUFFICES ASSUME Nat \ S # {} PROVE FALSE
  OBVIOUS
<1>1. PICK n \in Nat \ S : \A m \in Nat \ S : n <= m
  BY Least
<1>2. n # 0 /\ n - 1 \in Nat
  BY <1>1
<1>3. n - 1 \in S
  BY <1>1, <1>2
<1> QED BY <1>1, <1>2, <1>3

---------------------------------------------------------------------------
(* Positions *)


\* The positions of a line: one for each word and one for the end.
LEMMA RowLength == ASSUME NEW d \in Seq(Lines), NEW k \in DOMAIN d
    PROVE d[k] \in Lines /\ d[k].words \in WordSeqs /\ Len(d[k].words) \in Nat /\ k \in 1 .. Len(d)
<1>1. d[k] \in Lines /\ k \in 1 .. Len(d)
  OBVIOUS
<1>2. d[k].words \in WordSeqs
  BY <1>1 DEF Lines
<1>3. Len(d[k].words) \in Nat
  BY <1>2 DEF WordSeqs
<1> QED BY <1>1, <1>2, <1>3

LEMMA PlacesCount == ASSUME NEW d \in Seq(Lines), NEW k \in DOMAIN d
    PROVE IsFiniteSet(Places(d, k)) /\ Cardinality(Places(d, k)) = Len(d[k].words) + 1
<1> DEFINE L == Len(d[k].words)
<1>1. L \in Nat
  BY RowLength
<1> HIDE DEF L
<1>2. IsFiniteSet({k}) /\ Cardinality({k}) = 1
  BY FS_Singleton
<1>3. IsFiniteSet(0 .. L) /\ Cardinality(0 .. L) = L + 1
  BY <1>1, FS_Interval
<1>4. IsFiniteSet({k} \X (0 .. L)) /\ Cardinality({k} \X (0 .. L)) = 1 * (L + 1)
  BY <1>2, <1>3, FS_Product, ZenonT(40)
<1>5. 1 * (L + 1) = L + 1
  BY <1>1
<1> QED BY <1>4, <1>5 DEF Places, L

\* The positions before a line.
Before(d, l) == UNION {Places(d, k) : k \in 1 .. l - 1}
\* A line starts after as many positions as there are before it.
LEMMA StartCounts == ASSUME NEW d, NEW l PROVE Start(d, l) = Cardinality(Before(d, l))
BY DEF Start, Before

LEMMA BeforeFirst == ASSUME NEW d PROVE Before(d, 1) = {}
<1>1. 1 .. 1 - 1 = {}
  OBVIOUS
<1>2. \A k \in 1 .. 1 - 1 : FALSE
  BY <1>1
<1> QED BY <1>2 DEF Before

\* The first line starts at 0, and each line where the one before it has ended.
LEMMA StartFirst == ASSUME NEW d PROVE Start(d, 1) = 0
BY BeforeFirst, StartCounts, FS_EmptySet

\* A line starts where the one before it has ended.
LEMMA StartNext ==
    ASSUME NEW d \in Seq(Lines), NEW l \in DOMAIN d, IsFiniteSet(Before(d, l))
    PROVE  /\ IsFiniteSet(Before(d, l + 1))
           /\ Start(d, l) \in Nat /\ Start(d, l + 1) = Start(d, l) + Len(d[l].words) + 1
<1> DEFINE A == Before(d, l)
           B == Before(d, l + 1)
<1>1. l \in Nat /\ l >= 1 /\ 1 .. l + 1 - 1 = (1 .. l - 1) \cup {l}
  BY RowLength
<1>2. B = A \cup Places(d, l)
  BY <1>1 DEF Before
<1>3. A \cap Places(d, l) = {}
  BY <1>1 DEF Places, Before
<1>4. IsFiniteSet(Places(d, l)) /\ Cardinality(Places(d, l)) = Len(d[l].words) + 1 /\ Len(d[l].words) \in Nat
  BY PlacesCount, RowLength
<1>10. Start(d, l) = Cardinality(A) /\ Start(d, l + 1) = Cardinality(B)
  BY StartCounts
<1> HIDE DEF A, B
<1>5. IsFiniteSet(A)
  BY DEF A
<1>6. IsFiniteSet(B)
  BY <1>2, <1>4, <1>5, FS_Union
<1>7. Cardinality(B) = Cardinality(A) + Cardinality(Places(d, l)) - Cardinality(A \cap Places(d, l))
  BY <1>2, <1>4, <1>5, FS_Union
<1>8. Cardinality(A \cap Places(d, l)) = 0
  BY <1>3, FS_EmptySet
<1>9. Cardinality(A) \in Nat
  BY <1>5, FS_CardinalityType
<1> QED BY <1>4, <1>6, <1>7, <1>8, <1>9, <1>10 DEF B

\* Positions are numbers, and a line takes one more than it has words.
LEMMA StartType ==
    ASSUME NEW d \in Seq(Lines)
    PROVE  /\ \A l \in 1 .. Len(d) + 1 : Start(d, l) \in Nat
           /\ \A l \in DOMAIN d : Start(d, l + 1) = Start(d, l) + Len(d[l].words) + 1
<1> DEFINE F(l) == IsFiniteSet(Before(d, l))
           P == {n \in Nat : n <= Len(d) => F(n + 1)}
<1>1. 0 \in P
  <2>1. IsFiniteSet(Before(d, 1))
    BY BeforeFirst, FS_EmptySet, Zenon
  <2>2. 0 + 1 = 1
    OBVIOUS
  <2> QED BY <2>1, <2>2
<1>2. ASSUME NEW n \in P PROVE n + 1 \in P
  <2>1. CASE n + 1 <= Len(d)
    <3>1. n \in Nat /\ n + 1 \in DOMAIN d /\ F(n + 1)
      BY <2>1
    <3>2. F(n + 1 + 1)
      BY <3>1, StartNext
    <3> QED BY <3>1, <3>2
  <2> QED BY <2>1
<1>3. \A n \in Nat : n \in P
  <2>1. P \in SUBSET Nat
    OBVIOUS
  <2> HIDE DEF P
  <2> QED BY <1>1, <1>2, <2>1, Induct
<1>4. ASSUME NEW l \in 1 .. Len(d) + 1 PROVE F(l)
  <2>1. l - 1 \in Nat /\ l - 1 <= Len(d) /\ l - 1 + 1 = l
    OBVIOUS
  <2>2. l - 1 \in P
    BY <1>3, <2>1
  <2>3. F(l - 1 + 1)
    BY <2>1, <2>2
  <2> QED BY <2>1, <2>3
<1>5. ASSUME NEW l \in DOMAIN d PROVE Start(d, l + 1) = Start(d, l) + Len(d[l].words) + 1
  <2>1. F(l)
    BY <1>4
  <2> QED BY <2>1, StartNext
<1>6. ASSUME NEW l \in 1 .. Len(d) + 1 PROVE Start(d, l) \in Nat
  <2>1. F(l)
    BY <1>4
  <2> QED BY <2>1, FS_CardinalityType, StartCounts
<1> QED BY <1>5, <1>6

\* Of two lines the first has ended when the second starts.
LEMMA StartLater ==
    ASSUME NEW d \in Seq(Lines), NEW a \in DOMAIN d, NEW b \in DOMAIN d, a < b
    PROVE  Start(d, a) + Len(d[a].words) + 1 <= Start(d, b)
<1> DEFINE P == {n \in Nat : a + 1 + n <= Len(d) => Start(d, a + 1) <= Start(d, a + 1 + n)}
<1>0. a \in Nat /\ b \in Nat /\ a \in 1 .. Len(d) /\ b \in 1 .. Len(d) /\ Len(d) \in Nat
  BY RowLength
<1>1. 0 \in P
  <2>1. a + 1 \in 1 .. Len(d) + 1 /\ a + 1 + 0 = a + 1
    BY <1>0
  <2>2. Start(d, a + 1) \in Nat
    BY <2>1, StartType
  <2>3. Start(d, a + 1) <= Start(d, a + 1 + 0)
    BY <2>1, <2>2
  <2> QED BY <2>3
<1>2. ASSUME NEW n \in P PROVE n + 1 \in P
  <2>1. CASE a + 1 + (n + 1) <= Len(d)
    <3> DEFINE c == a + 1 + n
    <3>1. n \in Nat /\ c \in DOMAIN d /\ c \in 1 .. Len(d) + 1 /\ a + 1 \in 1 .. Len(d) + 1 /\ c + 1 = a + 1 + (n + 1)
      BY <1>0, <2>1
    <3>2. Start(d, a + 1) <= Start(d, c)
      BY <2>1, <3>1, <1>0
    <3> HIDE DEF c
    <3>3. Start(d, c + 1) = Start(d, c) + Len(d[c].words) + 1 /\ Start(d, c) \in Nat /\ Len(d[c].words) \in Nat /\ Start(d, a + 1) \in Nat
      BY <3>1, StartType, RowLength
    <3>4. Start(d, a + 1) <= Start(d, c + 1)
      <4>1. ASSUME NEW x \in Nat, NEW y \in Nat, NEW z \in Nat, NEW w, x <= y, w = y + z + 1 PROVE x <= w
        BY <4>1
      <4> QED BY <4>1, <3>2, <3>3
    <3>5. Start(d, a + 1) <= Start(d, a + 1 + (n + 1))
      BY <3>1, <3>4
    <3> QED BY <3>1, <3>5
  <2> QED BY <2>1
<1>3. \A n \in Nat : n \in P
  <2>1. P \in SUBSET Nat
    OBVIOUS
  <2> HIDE DEF P
  <2> QED BY <1>1, <1>2, <2>1, Induct
<1>4. b - (a + 1) \in Nat /\ a + 1 + (b - (a + 1)) = b
  BY <1>0
<1>5. b - (a + 1) \in P
  BY <1>3, <1>4
<1>6. Start(d, a + 1) <= Start(d, a + 1 + (b - (a + 1)))
  BY <1>0, <1>4, <1>5
<1>7. Start(d, a + 1) <= Start(d, b)
  BY <1>6, <1>4
<1>8. Start(d, a + 1) = Start(d, a) + Len(d[a].words) + 1
  BY StartType
<1> QED BY <1>7, <1>8

\* The line at a position begins at or before it, and the next line after it.
LEMMA LineAtType ==
    ASSUME NEW d \in Seq(Lines), d # <<>>, NEW p \in Nat
    PROVE  /\ LineAt(d, p) \in DOMAIN d /\ Start(d, LineAt(d, p)) \in Nat
           /\ Start(d, LineAt(d, p)) <= p
           /\ \A l \in DOMAIN d : Start(d, l) <= p => l <= LineAt(d, p)
<1> DEFINE S == {l \in DOMAIN d : Start(d, l) <= p}
<1>1. Len(d) \in Nat /\ 1 \in DOMAIN d /\ DOMAIN d = 1 .. Len(d)
  OBVIOUS
<1>2. 1 \in S
  BY <1>1, StartFirst
<1>3. S \in SUBSET Nat /\ \A n \in S : n <= Len(d)
  BY <1>1
<1>4. LineAt(d, p) = Max(S)
  BY DEF LineAt
<1>5. Max(S) \in S /\ \A m \in S : m <= Max(S)
  <2> HIDE DEF S
  <2> QED BY <1>1, <1>2, <1>3, MaxOf
<1>6. LineAt(d, p) \in DOMAIN d /\ Start(d, LineAt(d, p)) <= p
  BY <1>4, <1>5
<1>7. \A l \in DOMAIN d : Start(d, l) <= p => l <= LineAt(d, p)
  BY <1>4, <1>5
<1>8. Start(d, LineAt(d, p)) \in Nat
  <2>1. LineAt(d, p) \in 1 .. Len(d) + 1
    BY <1>6, <1>1
  <2> QED BY <2>1, StartType
<1> QED BY <1>6, <1>7, <1>8

\* The line at a position of line l is l.
LEMMA LineAtHere ==
    ASSUME NEW d \in Seq(Lines), NEW l \in DOMAIN d, NEW n \in 0 .. Len(d[l].words)
    PROVE  LineAt(d, Start(d, l) + n) = l /\ Start(d, l) + n \in Nat /\ Start(d, l) \in Nat
<1> DEFINE p == Start(d, l) + n
           m == LineAt(d, p)
<1>1. d # <<>> /\ n \in Nat /\ l \in 1 .. Len(d) + 1 /\ l \in Nat /\ n <= Len(d[l].words) /\ Len(d[l].words) \in Nat
  BY RowLength
<1>2. Start(d, l) \in Nat /\ p \in Nat
  BY <1>1, StartType
<1>3. m \in DOMAIN d /\ Start(d, m) \in Nat /\ Start(d, m) <= p /\ (Start(d, l) <= p => l <= m)
  BY <1>1, <1>2, LineAtType
<1>4. l <= m
  BY <1>1, <1>2, <1>3
<1>5. ASSUME l < m PROVE FALSE
  <2>1. Start(d, l) + Len(d[l].words) + 1 <= Start(d, m)
    BY <1>3, <1>5, StartLater
  <2>2. ASSUME NEW x \in Nat, NEW y \in Nat, NEW z \in Nat, NEW q \in Nat, q <= y, x + y + 1 <= z, z <= x + q PROVE FALSE
    BY <2>2
  <2>3. Start(d, m) <= Start(d, l) + n
    BY <1>3
  <2> HIDE DEF m, p
  <2> QED BY <2>1, <2>2, <2>3, <1>1, <1>2, <1>3
<1>6. m \in Nat
  BY <1>3, RowLength
<1> QED BY <1>1, <1>2, <1>4, <1>5, <1>6

\* Lines of the same lengths begin at the same positions.
LEMMA StartSame ==
    ASSUME NEW d, NEW e, NEW l \in Nat, \A k \in 1 .. l - 1 : Len(d[k].words) = Len(e[k].words)
    PROVE  Start(d, l) = Start(e, l)
<1>1. \A k \in 1 .. l - 1 : Places(d, k) = Places(e, k)
  BY DEF Places
<1>2. Before(d, l) = Before(e, l)
  BY <1>1 DEF Before
<1> QED BY <1>2, StartCounts
---------------------------------------------------------------------------
(* Documents and their lines *)

\* The kinds of lines: which are texts, which stand alone, which make lists.
LEMMA Kinds ==
    /\ TextKinds \cap Atoms = {} /\ Tops \subseteq TextKinds /\ "quote" \in TextKinds
    /\ Tops \cap (Lists \cup {"quote"}) = {} /\ "code" \notin Lists \cup {"quote"} /\ Lists \subseteq TextKinds
    /\ "upload" \notin TextKinds /\ "paragraph" \in TextKinds /\ "code" \in TextKinds /\ Levels \subseteq TextKinds
    /\ "code" \notin Levels
BY KindsAssumption DEF TextKinds, Atoms, Tops

\* What every document is: not empty, with lines of known kinds.
LEMMA DocumentType ==
    ASSUME NEW d \in Documents
    PROVE  /\ d \in Seq(Lines) /\ d # <<>> /\ Len(d) \in Nat /\ Len(d) >= 1 /\ DOMAIN d = 1 .. Len(d)
           /\ GoesOn(d) /\ OwnViews(d)
           /\ \A k \in DOMAIN d : Plain(d[k]) /\ d[k] \in Lines /\ k \in Nat /\ k >= 1
<1>1. d \in Seq(Lines) /\ d # <<>> /\ GoesOn(d) /\ OwnViews(d) /\ \A k \in DOMAIN d : Plain(d[k])
  BY DEF Documents
<1>2. Len(d) \in Nat /\ Len(d) >= 1 /\ DOMAIN d = 1 .. Len(d) /\ \A k \in DOMAIN d : d[k] \in Lines /\ k \in Nat /\ k >= 1
  BY <1>1
<1> QED BY <1>1, <1>2

\* What every line of a document is.
LEMMA LineType ==
    ASSUME NEW line \in Lines
    PROVE  /\ line.kind \in TextKinds \cup Atoms /\ line.more \in BOOLEAN /\ line.align \in {"left", "center"}
           /\ line.words \in WordSeqs /\ line.ref \in Nat
           /\ Len(line.words) \in Nat /\ DOMAIN line.words = 1 .. Len(line.words)
<1>1. line.words \in WordSeqs
  BY DEF Lines
<1>2. Len(line.words) \in Nat /\ DOMAIN line.words = 1 .. Len(line.words)
  BY <1>1 DEF WordSeqs
<1> QED BY <1>1, <1>2 DEF Lines

\* Lines that are made, and lines of which one thing is changed.
LEMMA TextLineType ==
    ASSUME NEW kind \in TextKinds, NEW ws \in WordSeqs
    PROVE  /\ TextLine(kind, ws) \in Lines /\ TextLine(kind, ws).kind = kind /\ TextLine(kind, ws).words = ws
           /\ ~TextLine(kind, ws).more /\ IsText(TextLine(kind, ws))
BY DEF TextLine, Lines, IsText

\* An atom is a line.
LEMMA AtomType ==
    ASSUME NEW kind \in Atoms, NEW r \in Nat
    PROVE  /\ Atom(kind, r) \in Lines /\ Atom(kind, r).kind = kind /\ Atom(kind, r).ref = r
           /\ ~Atom(kind, r).more /\ Atom(kind, r).words = <<>> /\ ~IsText(Atom(kind, r)) /\ Plain(Atom(kind, r))
<1>1. <<>> \in WordSeqs
  BY DEF WordSeqs
<1>2. Atom(kind, r) \in Lines /\ Atom(kind, r).kind = kind /\ Atom(kind, r).ref = r
      /\ ~Atom(kind, r).more /\ Atom(kind, r).words = <<>>
  BY <1>1 DEF Atom, Lines
<1>3. ~IsText(Atom(kind, r)) /\ kind # "code"
  BY <1>2, Kinds DEF IsText
<1> QED BY <1>2, <1>3 DEF Plain

LEMMA MoreSet ==
    ASSUME NEW line \in Lines, NEW b \in BOOLEAN
    PROVE  LET new == [line EXCEPT !.more = b]
           IN  /\ new \in Lines /\ new.kind = line.kind /\ new.words = line.words /\ new.ref = line.ref /\ new.more = b
               /\ IsText(new) = IsText(line) /\ (Plain(line) => Plain(new))
<1> DEFINE new == [line EXCEPT !.more = b]
<1>1. new \in Lines /\ new.kind = line.kind /\ new.words = line.words /\ new.ref = line.ref /\ new.more = b
  BY DEF Lines
<1> HIDE DEF new
<1>2. IsText(new) = IsText(line) /\ (Plain(line) => Plain(new))
  BY <1>1 DEF IsText, Plain
<1> QED BY <1>1, <1>2 DEF new

LEMMA WordsSet ==
    ASSUME NEW line \in Lines, NEW ws \in WordSeqs, IsText(line),
           line.kind = "code" => \A n \in DOMAIN ws : ws[n].marks = {}
    PROVE  LET new == [line EXCEPT !.words = ws]
           IN  /\ new \in Lines /\ new.kind = line.kind /\ new.words = ws /\ new.ref = line.ref /\ new.more = line.more
               /\ IsText(new) /\ Plain(new)
<1> DEFINE new == [line EXCEPT !.words = ws]
<1>1. new \in Lines /\ new.kind = line.kind /\ new.words = ws /\ new.ref = line.ref /\ new.more = line.more
  BY DEF Lines
<1> HIDE DEF new
<1>2. IsText(new) /\ Plain(new)
  BY <1>1 DEF IsText, Plain
<1> QED BY <1>1, <1>2 DEF new

\* What a change of lines in their places makes of a document.
Reworked(d, e) ==
    e \in Documents /\ DOMAIN e = DOMAIN d /\ Len(e) = Len(d) /\ ViewsOf(e) \subseteq ViewsOf(d)

\* Lines changed in their places, so that what goes on still can, are a document.
LEMMA InPlace ==
    ASSUME NEW d \in Documents, NEW e, e = [k \in DOMAIN d |-> e[k]], GoesOn(e),
           \A k \in DOMAIN d : e[k] \in Lines /\ Plain(e[k]),
           \A k \in DOMAIN d : e[k].kind = "upload" => d[k].kind = "upload" /\ e[k].ref = d[k].ref
    PROVE  Reworked(d, e)
<1>1. Len(d) \in Nat /\ DOMAIN d = 1 .. Len(d) /\ OwnViews(d) /\ d # <<>> /\ Len(d) >= 1
  BY DocumentType
<1>2. e \in [1 .. Len(d) -> Lines]
  BY <1>1
<1>3. e \in Seq(Lines) /\ Len(e) = Len(d) /\ DOMAIN e = DOMAIN d /\ e # <<>>
  BY <1>1, <1>2
<1>4. OwnViews(e)
  BY <1>1, <1>3 DEF OwnViews
<1>5. ViewsOf(e) \subseteq ViewsOf(d)
  BY <1>3 DEF ViewsOf
<1> QED BY <1>3, <1>4, <1>5 DEF Documents, Reworked

\* Two changes in place are one.
LEMMA ReworkedAgain ==
    ASSUME NEW d, NEW e, NEW f, Reworked(d, e), Reworked(e, f) PROVE Reworked(d, f)
BY DEF Reworked
LEMMA ReworkedSame == ASSUME NEW d \in Documents PROVE Reworked(d, d)
BY DEF Reworked

---------------------------------------------------------------------------
(* The commands of chains *)

\* clearNodes takes a block apart into paragraphs, none of which goes on.
LEMMA ClearedType ==
    ASSUME NEW d \in Documents, NEW S, \A k \in S \cap DOMAIN d : IsText(d[k])
    PROVE  /\ Reworked(d, Cleared(d, S))
           /\ \A k \in DOMAIN d : IsText(Cleared(d, S)[k]) = IsText(d[k])
           /\ \A k \in S \cap DOMAIN d : Cleared(d, S)[k].kind = "paragraph"
           /\ \A k \in DOMAIN d : k \notin S => Cleared(d, S)[k].kind = d[k].kind
           /\ \A k \in DOMAIN d : k - 1 \in S => ~Cleared(d, S)[k].more
           /\ \A k \in DOMAIN d : Cleared(d, S)[k].words = d[k].words
<1> DEFINE e == Cleared(d, S)
<1>1. e = [k \in DOMAIN d |-> IF k \in S THEN TextLine("paragraph", d[k].words)
              ELSE IF k - 1 \in S THEN [d[k] EXCEPT !.more = FALSE] ELSE d[k]]
  BY DEF Cleared
<1> HIDE DEF e
<1>2. DOMAIN e = DOMAIN d /\ e = [k \in DOMAIN d |-> e[k]]
  BY <1>1
<1>3. ASSUME NEW k \in DOMAIN d
      PROVE  /\ e[k] \in Lines /\ Plain(e[k]) /\ e[k].words = d[k].words
             /\ IsText(e[k]) = IsText(d[k])
             /\ k \in S => e[k].kind = "paragraph" /\ ~e[k].more
             /\ k \notin S => e[k].kind = d[k].kind /\ e[k].ref = d[k].ref
             /\ k \notin S /\ k - 1 \in S => ~e[k].more
             /\ k \notin S /\ k - 1 \notin S => e[k].more = d[k].more
  <2>0. d[k] \in Lines /\ d[k].words \in WordSeqs /\ Plain(d[k])
    BY DocumentType, LineType
  <2>1. CASE k \in S
    <3>1. e[k] = TextLine("paragraph", d[k].words)
      BY <1>1, <2>1
    <3>2. e[k] \in Lines /\ e[k].kind = "paragraph" /\ ~e[k].more /\ IsText(e[k]) /\ e[k].words = d[k].words
      BY <3>1, <2>0, TextLineType, Kinds
    <3>3. Plain(e[k])
      BY <3>2 DEF Plain
    <3> QED BY <2>1, <3>2, <3>3
  <2>2. CASE k \notin S /\ k - 1 \in S
    <3>1. e[k] = [d[k] EXCEPT !.more = FALSE]
      BY <1>1, <2>2
    <3>2. e[k] \in Lines /\ e[k].kind = d[k].kind /\ e[k].words = d[k].words /\ e[k].ref = d[k].ref /\ e[k].more = FALSE
          /\ IsText(e[k]) = IsText(d[k]) /\ Plain(e[k])
      BY <3>1, <2>0, MoreSet
    <3> QED BY <2>2, <3>2
  <2>3. CASE k \notin S /\ k - 1 \notin S
    <3>1. e[k] = d[k]
      BY <1>1, <2>3
    <3> QED BY <2>3, <3>1, <2>0
  <2> QED BY <2>1, <2>2, <2>3
<1>4. GoesOn(e)
  <2> SUFFICES ASSUME NEW k \in DOMAIN d, e[k].more
               PROVE  k > 1 /\ e[k].kind = e[k - 1].kind /\ e[k].kind \in Lists \cup {"quote"}
    BY <1>2 DEF GoesOn
  <2>1. k \notin S /\ k - 1 \notin S /\ d[k].more /\ e[k].kind = d[k].kind
    BY <1>3
  <2>2. k > 1 /\ d[k].kind = d[k - 1].kind /\ d[k].kind \in Lists \cup {"quote"}
    BY <2>1, DocumentType DEF GoesOn
  <2>3. k - 1 \in DOMAIN d
    BY <2>2, DocumentType
  <2>4. e[k - 1].kind = d[k - 1].kind
    BY <2>1, <2>3, <1>3
  <2> QED BY <2>1, <2>2, <2>4
<1>5. ASSUME NEW k \in DOMAIN d, e[k].kind = "upload" PROVE d[k].kind = "upload" /\ e[k].ref = d[k].ref
  <2>1. k \notin S
    BY <1>3, <1>5
  <2> QED BY <1>3, <1>5, <2>1
<1>6. Reworked(d, e)
  BY <1>2, <1>3, <1>4, <1>5, InPlace
<1>7. ASSUME NEW k \in DOMAIN d, k - 1 \in S PROVE ~e[k].more
  BY <1>3, <1>7
<1> QED BY <1>3, <1>6, <1>7 DEF e

\* A code block takes the words without their marks.
LEMMA FittingType ==
    ASSUME NEW ws \in WordSeqs, NEW kind
    PROVE  /\ Fitting(kind, ws) \in WordSeqs /\ Len(Fitting(kind, ws)) = Len(ws)
           /\ kind = "code" => \A n \in DOMAIN Fitting(kind, ws) : Fitting(kind, ws)[n].marks = {}
<1> DEFINE R == [id : Words \cup {Slash, Url}, marks : SUBSET Marks]
           f == [n \in DOMAIN ws |-> Word(ws[n].id, {})]
<1>1. ws \in Seq(R) /\ Len(ws) \in Nat /\ DOMAIN ws = 1 .. Len(ws)
  BY DEF WordSeqs
<1>2. ASSUME NEW n \in DOMAIN ws PROVE f[n] \in R /\ f[n].marks = {}
  <2>1. ws[n] \in R
    <3> HIDE DEF R
    <3> QED BY <1>1
  <2> QED BY <2>1 DEF Word
<1>3. f \in [1 .. Len(ws) -> R]
  BY <1>1, <1>2
<1>4. f \in Seq(R) /\ Len(f) = Len(ws) /\ DOMAIN f = DOMAIN ws
  BY <1>1, <1>3
<1>5. CASE kind = "code"
  <2>1. Fitting(kind, ws) = f
    BY <1>5 DEF Fitting
  <2> HIDE DEF f
  <2> QED BY <2>1, <1>2, <1>4 DEF WordSeqs
<1>6. CASE kind # "code"
  <2>1. Fitting(kind, ws) = ws
    BY <1>6 DEF Fitting
  <2> QED BY <2>1, <1>6
<1> QED BY <1>5, <1>6

\* What a toggle is applied to: texts after which no list or quote goes on.
Closed(d, a, b) ==
    /\ a \in DOMAIN d /\ b \in DOMAIN d /\ a <= b /\ \A k \in a .. b : IsText(d[k])
    /\ b + 1 \in DOMAIN d => ~d[b + 1].more

\* setNode gives texts another kind and leaves what they say.
LEMMA SetNodeType ==
    ASSUME NEW d \in Documents, NEW a, NEW b, Closed(d, a, b), NEW kind \in {"paragraph", "code"} \cup Levels
    PROVE  /\ Reworked(d, SetNode(d, a .. b, kind))
           /\ \A k \in DOMAIN d : IsText(SetNode(d, a .. b, kind)[k]) = IsText(d[k])
           /\ \A k \in DOMAIN d : Len(SetNode(d, a .. b, kind)[k].words) = Len(d[k].words)
<1> DEFINE S == a .. b
           e == SetNode(d, S, kind)
<1>0. kind \in TextKinds /\ a \in Nat /\ b \in Nat /\ DOMAIN d = 1 .. Len(d) /\ Len(d) \in Nat
      /\ S \subseteq DOMAIN d /\ \A k \in S : IsText(d[k])
  BY DocumentType, Kinds DEF Closed
<1>1. e = [k \in DOMAIN d |-> IF k \in S THEN TextLine(kind, Fitting(kind, d[k].words)) ELSE d[k]]
  BY DEF SetNode, AlterLines
<1>b. ASSUME NEW k \in DOMAIN d, k \notin S, d[k].more PROVE k - 1 \notin S
  BY <1>b, <1>0 DEF Closed
<1> HIDE DEF e, S
<1>2. DOMAIN e = DOMAIN d /\ e = [k \in DOMAIN d |-> e[k]]
  BY <1>1
<1>3. ASSUME NEW k \in DOMAIN d
      PROVE  /\ e[k] \in Lines /\ Plain(e[k]) /\ IsText(e[k]) = IsText(d[k])
             /\ Len(e[k].words) = Len(d[k].words)
             /\ k \in S => ~e[k].more /\ e[k].kind = kind
             /\ k \notin S => e[k] = d[k]
  <2>0. d[k] \in Lines /\ d[k].words \in WordSeqs /\ Plain(d[k])
    BY DocumentType, LineType
  <2>1. CASE k \in S
    <3> DEFINE ws == Fitting(kind, d[k].words)
    <3>1. e[k] = TextLine(kind, ws)
      BY <1>1, <2>1
    <3>2. ws \in WordSeqs /\ Len(ws) = Len(d[k].words) /\ (kind = "code" => \A n \in DOMAIN ws : ws[n].marks = {})
      BY <2>0, FittingType
    <3> HIDE DEF ws
    <3>3. e[k] \in Lines /\ ~e[k].more /\ IsText(e[k]) /\ e[k].kind = kind /\ e[k].words = ws
      BY <3>1, <3>2, <1>0, TextLineType
    <3>4. Plain(e[k])
      BY <3>2, <3>3 DEF Plain
    <3> QED BY <2>1, <3>2, <3>3, <3>4, <1>0
  <2>2. CASE k \notin S
    BY <2>0, <2>2, <1>1
  <2> QED BY <2>1, <2>2
<1>4. GoesOn(e)
  <2> SUFFICES ASSUME NEW k \in DOMAIN d, e[k].more
               PROVE  k > 1 /\ e[k].kind = e[k - 1].kind /\ e[k].kind \in Lists \cup {"quote"}
    BY <1>2 DEF GoesOn
  <2>1. k \notin S /\ e[k] = d[k] /\ k - 1 \notin S
    BY <1>3, <1>b
  <2>2. k > 1 /\ d[k].kind = d[k - 1].kind /\ d[k].kind \in Lists \cup {"quote"}
    BY <2>1, DocumentType DEF GoesOn
  <2>3. k - 1 \in DOMAIN d
    BY <2>2, <1>0
  <2> QED BY <2>1, <2>2, <2>3, <1>3
<1>5. ASSUME NEW k \in DOMAIN d, e[k].kind = "upload" PROVE d[k].kind = "upload" /\ e[k].ref = d[k].ref
  <2>1. k \notin S
    BY <1>3, <1>5, <1>0, Kinds
  <2> QED BY <1>3, <1>5, <2>1
<1>6. Reworked(d, e)
  BY <1>2, <1>3, <1>4, <1>5, InPlace
<1> QED BY <1>3, <1>6 DEF e, S

\* The ends of an interval.
LEMMA IntervalEnds ==
    ASSUME NEW a \in Nat, NEW b \in Nat, a <= b PROVE Min(a .. b) = a /\ Max(a .. b) = b
<1>1. a .. b \in SUBSET Nat /\ a .. b # {} /\ a \in a .. b /\ b \in a .. b /\ \A n \in a .. b : n <= b /\ n >= a /\ n \in Nat
  OBVIOUS
<1>2. Min(a .. b) \in a .. b /\ Min(a .. b) <= a
  BY <1>1, MinOf
<1>3. Max(a .. b) \in a .. b /\ b <= Max(a .. b)
  BY <1>1, MaxOf
<1> QED BY <1>1, <1>2, <1>3

\* A list joins a list of its kind.
Joins(d, kind, k) == kind \in Lists /\ k \in DOMAIN d /\ d[k].kind = kind

\* A list or a quote around some texts leaves what they say; it goes on in
\* them after the first, and a list before or after it may be joined.
LEMMA WrapType ==
    ASSUME NEW d \in Documents, NEW a, NEW b, Closed(d, a, b), NEW kind \in Lists \cup {"quote"}
    PROVE  /\ Reworked(d, Wrap(d, a .. b, kind))
           /\ \A k \in DOMAIN d : IsText(Wrap(d, a .. b, kind)[k]) = IsText(d[k])
           /\ \A k \in DOMAIN d : Len(Wrap(d, a .. b, kind)[k].words) = Len(d[k].words)
<1> DEFINE S == a .. b
           e == Wrap(d, S, kind)
<1>0. a \in Nat /\ b \in Nat /\ DOMAIN d = 1 .. Len(d) /\ Len(d) \in Nat
      /\ a >= 1 /\ a <= b /\ b <= Len(d) /\ S \subseteq DOMAIN d /\ \A k \in S : IsText(d[k])
  BY DocumentType DEF Closed
<1>1. e = [k \in DOMAIN d |-> IF k \in S THEN [d[k] EXCEPT !.kind = kind, !.more = k > a \/ Joins(d, kind, a - 1)]
              ELSE IF k = b + 1 /\ Joins(d, kind, k) THEN [d[k] EXCEPT !.more = TRUE] ELSE d[k]]
  <2>1. e = [k \in DOMAIN d |-> IF k \in S THEN [d[k] EXCEPT !.kind = kind, !.more = k > Min(S) \/ Joins(d, kind, Min(S) - 1)]
              ELSE IF k = Max(S) + 1 /\ Joins(d, kind, k) THEN [d[k] EXCEPT !.more = TRUE] ELSE d[k]]
    BY DEF Wrap, Joins
  <2>2. Min(S) = a /\ Max(S) = b
    BY <1>0, IntervalEnds
  <2> HIDE DEF e, S
  <2> QED BY <2>1, <2>2
<1> HIDE DEF e
<1>2. DOMAIN e = DOMAIN d /\ e = [k \in DOMAIN d |-> e[k]]
  BY <1>1
<1>3. ASSUME NEW k \in DOMAIN d
      PROVE  /\ e[k] \in Lines /\ Plain(e[k]) /\ IsText(e[k]) = IsText(d[k])
             /\ Len(e[k].words) = Len(d[k].words)
             /\ k \in S => e[k].kind = kind /\ (e[k].more => k > a \/ Joins(d, kind, a - 1))
             /\ k \notin S => e[k].kind = d[k].kind /\ e[k].ref = d[k].ref
             /\ k \notin S /\ ~(k = b + 1 /\ Joins(d, kind, k)) => e[k].more = d[k].more
  <2>0. d[k] \in Lines /\ Plain(d[k])
    BY DocumentType
  <2>1. CASE k \in S
    <3> DEFINE m == k > a \/ Joins(d, kind, a - 1)
    <3>1. e[k] = [d[k] EXCEPT !.kind = kind, !.more = m]
      BY <1>1, <2>1
    <3>2. m \in BOOLEAN
      BY DEF Joins
    <3> HIDE DEF m
    <3>3. e[k] \in Lines /\ e[k].kind = kind /\ e[k].words = d[k].words /\ e[k].more = m /\ IsText(e[k]) /\ Plain(e[k])
      <4>1. IsText(d[k])
        BY <2>1, <1>0
      <4>2. PICK z \in Lines : z = d[k]
        BY <2>0
      <4>3. IsText(z) /\ e[k] = [z EXCEPT !.kind = kind, !.more = m]
        BY <3>1, <4>1, <4>2
      <4>4. e[k] \in Lines /\ e[k].kind = kind /\ e[k].words = z.words /\ e[k].more = m /\ IsText(e[k]) /\ Plain(e[k])
        <5>1. kind \in TextKinds /\ kind # "code"
          BY Kinds
        <5>2. e[k] \in Lines /\ e[k].kind = kind /\ e[k].words = z.words /\ e[k].more = m
          BY <5>1, <4>3, <3>2 DEF Lines
        <5> QED BY <5>1, <5>2 DEF IsText, Plain
      <4> QED BY <4>2, <4>4
    <3> QED BY <2>1, <3>3, <1>0 DEF m
  <2>2. CASE k \notin S /\ k = b + 1 /\ Joins(d, kind, k)
    <3>1. e[k] = [d[k] EXCEPT !.more = TRUE]
      BY <1>1, <2>2
    <3> QED BY <3>1, <2>0, <2>2, MoreSet, ZenonT(40)
  <2>3. CASE k \notin S /\ ~(k = b + 1 /\ Joins(d, kind, k))
    <3>1. e[k] = d[k]
      BY <1>1, <2>3
    <3> QED BY <3>1, <2>0, <2>3
  <2> QED BY <2>1, <2>2, <2>3
<1>4. GoesOn(e)
  <2> SUFFICES ASSUME NEW k \in DOMAIN d, e[k].more
               PROVE  k > 1 /\ e[k].kind = e[k - 1].kind /\ e[k].kind \in Lists \cup {"quote"}
    BY <1>2 DEF GoesOn
  <2>1. CASE k \in S /\ k > a
    <3>1. k - 1 \in S /\ k > 1 /\ k - 1 \in DOMAIN d
      BY <2>1, <1>0
    <3> QED BY <2>1, <3>1, <1>3
  <2>2. CASE k \in S /\ ~(k > a)
    <3>1. k = a /\ Joins(d, kind, a - 1)
      BY <2>2, <1>0, <1>3
    <3>2. a - 1 \in DOMAIN d /\ d[a - 1].kind = kind /\ a > 1 /\ a - 1 \notin S
      BY <3>1, <1>0 DEF Joins
    <3> QED BY <2>2, <3>1, <3>2, <1>3
  <2>3. CASE k \notin S /\ k = b + 1 /\ Joins(d, kind, k)
    <3>1. k - 1 \in S /\ k > 1 /\ k - 1 \in DOMAIN d /\ e[k].kind = kind
      BY <2>3, <1>0, <1>3 DEF Joins
    <3> QED BY <2>3, <3>1, <1>3
  <2>4. CASE k \notin S /\ ~(k = b + 1 /\ Joins(d, kind, k))
    <3>1. d[k].more /\ e[k].kind = d[k].kind
      BY <2>4, <1>3
    <3>2. k > 1 /\ d[k].kind = d[k - 1].kind /\ d[k].kind \in Lists \cup {"quote"} /\ k - 1 \in DOMAIN d
      BY <3>1, <1>0, DocumentType DEF GoesOn
    <3>3. k - 1 \notin S
      BY <3>1, <2>4, <1>0 DEF Closed
    <3> QED BY <3>1, <3>2, <3>3, <1>3
  <2> QED BY <2>1, <2>2, <2>3, <2>4
<1>5. ASSUME NEW k \in DOMAIN d, e[k].kind = "upload" PROVE d[k].kind = "upload" /\ e[k].ref = d[k].ref
  <2>1. k \notin S
    BY <1>3, <1>5, <1>0, Kinds
  <2> QED BY <1>3, <1>5, <2>1
<1>6. Reworked(d, e)
  BY <1>2, <1>3, <1>4, <1>5, InPlace
<1> QED BY <1>3, <1>6 DEF e
---------------------------------------------------------------------------
(* Marks and alignments leave the words where they are *)

Painted(line, new) ==
    /\ new \in Lines /\ Plain(new)
    /\ new.kind = line.kind /\ new.more = line.more /\ new.ref = line.ref
    /\ DOMAIN new.words = DOMAIN line.words /\ Len(new.words) = Len(line.words)
    /\ \A n \in DOMAIN line.words : new.words[n].id = line.words[n].id
Repainted(d, e) == Reworked(d, e) /\ \A k \in DOMAIN d : Painted(d[k], e[k])

\* Lines that differ in marks and alignments only make the same document.
LEMMA Repaint ==
    ASSUME NEW d \in Documents, NEW e, e = [k \in DOMAIN d |-> e[k]], \A k \in DOMAIN d : Painted(d[k], e[k])
    PROVE  Repainted(d, e)
<1>1. GoesOn(e)
  <2> SUFFICES ASSUME NEW k \in DOMAIN d, e[k].more
               PROVE  k > 1 /\ e[k].kind = e[k - 1].kind /\ e[k].kind \in Lists \cup {"quote"}
    BY DEF GoesOn
  <2>1. d[k].more /\ e[k].kind = d[k].kind
    BY DEF Painted
  <2>2. k > 1 /\ d[k].kind = d[k - 1].kind /\ d[k].kind \in Lists \cup {"quote"} /\ k - 1 \in DOMAIN d
    BY <2>1, DocumentType DEF GoesOn
  <2>3. e[k - 1].kind = d[k - 1].kind
    BY <2>2 DEF Painted
  <2> QED BY <2>1, <2>2, <2>3
<1>2. \A k \in DOMAIN d : e[k] \in Lines /\ Plain(e[k]) /\ (e[k].kind = "upload" => d[k].kind = "upload" /\ e[k].ref = d[k].ref)
  BY DEF Painted
<1>3. Reworked(d, e)
  BY <1>1, <1>2, InPlace
<1> QED BY <1>3 DEF Repainted

LEMMA PaintedSame == ASSUME NEW d \in Documents, NEW k \in DOMAIN d PROVE Painted(d[k], d[k])
BY DocumentType DEF Painted

\* The words of a line with other marks.
LEMMA MarkedLine ==
    ASSUME NEW line \in Lines, Plain(line), line.kind # "code",
           NEW marks, \A n \in DOMAIN line.words : marks[n] \in SUBSET Marks,
           NEW ws, ws = [n \in DOMAIN line.words |-> Word(line.words[n].id, marks[n])]
    PROVE  Painted(line, [line EXCEPT !.words = ws])
<1> DEFINE R == [id : Words \cup {Slash, Url}, marks : SUBSET Marks]
           old == line.words
           new == [line EXCEPT !.words = ws]
<1>1. old \in Seq(R) /\ Len(old) \in Nat /\ DOMAIN old = 1 .. Len(old)
  BY LineType DEF WordSeqs
<1>2. ASSUME NEW n \in DOMAIN old PROVE ws[n] \in R /\ ws[n].id = old[n].id
  <2>1. old[n] \in R
    <3> HIDE DEF R, old
    <3> QED BY <1>1
  <2>2. ws[n] = Word(old[n].id, marks[n]) /\ marks[n] \in SUBSET Marks
    OBVIOUS
  <2> QED BY <2>1, <2>2 DEF Word
<1> HIDE DEF R
<1>3. ws \in [1 .. Len(old) -> R]
  <2>1. DOMAIN ws = 1 .. Len(old) /\ ws = [n \in 1 .. Len(old) |-> ws[n]]
    BY <1>1
  <2> HIDE DEF old
  <2> QED BY <2>1, <1>1, <1>2
<1>4. ws \in Seq(R) /\ Len(ws) = Len(old)
  <2> HIDE DEF old
  <2> QED BY <1>1, <1>3
<1>5. ws \in WordSeqs
  BY <1>4 DEF WordSeqs, R
<1>6. new \in Lines /\ new.kind = line.kind /\ new.more = line.more /\ new.ref = line.ref /\ new.words = ws
  BY <1>5 DEF Lines
<1>7. Plain(new)
  <2>1. ASSUME ~IsText(line) PROVE ws = <<>>
    <3>1. old = <<>>
      BY <2>1 DEF Plain
    <3>2. Len(ws) = 0
      BY <3>1, <1>4
    <3> QED BY <3>2, <1>4
  <2> HIDE DEF new
  <2> QED BY <1>6, <2>1 DEF Plain, IsText
<1> HIDE DEF new
<1>8. DOMAIN ws = DOMAIN old
  OBVIOUS
<1>9. Painted(line, new)
  BY <1>2, <1>4, <1>6, <1>7, <1>8 DEF Painted
<1> QED BY <1>9 DEF new

NewMarks(line, ms) == [line EXCEPT !.words = [n \in DOMAIN line.words |-> Word(line.words[n].id, ms[n])]]

\* Other marks for some words, but for those of code blocks.
LEMMA MarkingType ==
    ASSUME NEW d \in Documents, NEW M, \A k \in DOMAIN d : \A n \in DOMAIN d[k].words : M[k][n] \in SUBSET Marks,
           NEW e, e = [k \in DOMAIN d |-> e[k]],
           \A k \in DOMAIN d : e[k] = d[k] \/ (d[k].kind # "code" /\ e[k] = NewMarks(d[k], M[k]))
    PROVE  Repainted(d, e)
<1>1. ASSUME NEW k \in DOMAIN d PROVE Painted(d[k], e[k])
  <2>0. d[k] \in Lines /\ Plain(d[k])
    BY DocumentType
  <2>1. CASE e[k] = d[k]
    BY <2>1, PaintedSame
  <2>2. CASE d[k].kind # "code" /\ e[k] = NewMarks(d[k], M[k])
    <3> DEFINE ws == [n \in DOMAIN d[k].words |-> Word(d[k].words[n].id, M[k][n])]
    <3>1. e[k] = [d[k] EXCEPT !.words = ws]
      BY <2>2 DEF NewMarks
    <3>2. Painted(d[k], [d[k] EXCEPT !.words = ws])
      BY <2>0, <2>2, MarkedLine
    <3> QED BY <3>1, <3>2
  <2> QED BY <2>1, <2>2
<1> QED BY <1>1, Repaint

\* The marks of a word of a document.
LEMMA WordMarks ==
    ASSUME NEW d \in Documents, NEW k \in DOMAIN d, NEW n \in DOMAIN d[k].words
    PROVE  d[k].words[n].marks \in SUBSET Marks /\ d[k].words[n].id \in Words \cup {Slash, Url}
<1> DEFINE R == [id : Words \cup {Slash, Url}, marks : SUBSET Marks]
<1>1. d[k].words \in Seq(R)
  BY DocumentType, LineType DEF WordSeqs
<1>2. d[k].words[n] \in R
  <2> HIDE DEF R
  <2> QED BY <1>1
<1> QED BY <1>2

\* Setting, unsetting and toggling a mark repaints.
LEMMA SetMarkType ==
    ASSUME NEW d \in Documents, NEW S, NEW m \in Marks PROVE Repainted(d, SetMark(d, S, m))
<1> DEFINE M == [k \in DOMAIN d |-> [n \in DOMAIN d[k].words |-> d[k].words[n].marks \cup {m}]]
           e == SetMark(d, S, m)
<1>1. e = [k \in DOMAIN d |-> e[k]]
  BY DEF SetMark, Marking, AlterLines
<1>2. ASSUME NEW k \in DOMAIN d
      PROVE  e[k] = d[k] \/ (d[k].kind # "code" /\ e[k] = NewMarks(d[k], M[k]))
  <2>1. e[k] = IF k \in S /\ d[k].kind # "code"
               THEN [d[k] EXCEPT !.words = [n \in DOMAIN d[k].words |-> Word(d[k].words[n].id, d[k].words[n].marks \cup {m})]]
               ELSE d[k]
    BY DEF SetMark, Marking, AlterLines
  <2>2. [n \in DOMAIN d[k].words |-> Word(d[k].words[n].id, d[k].words[n].marks \cup {m})]
        = [n \in DOMAIN d[k].words |-> Word(d[k].words[n].id, M[k][n])]
    OBVIOUS
  <2> QED BY <2>1, <2>2 DEF NewMarks
<1>3. ASSUME NEW k \in DOMAIN d, NEW n \in DOMAIN d[k].words PROVE M[k][n] \in SUBSET Marks
  <2>1. M[k][n] = d[k].words[n].marks \cup {m}
    OBVIOUS
  <2> QED BY <2>1, WordMarks
<1> HIDE DEF e, M
<1>4. Repainted(d, e)
  BY <1>1, <1>2, <1>3, MarkingType
<1> QED BY <1>4 DEF e

LEMMA UnsetMarkType ==
    ASSUME NEW d \in Documents, NEW S, NEW m \in Marks PROVE Repainted(d, UnsetMark(d, S, m))
<1> DEFINE M == [k \in DOMAIN d |-> [n \in DOMAIN d[k].words |-> d[k].words[n].marks \ {m}]]
           e == UnsetMark(d, S, m)
<1>1. e = [k \in DOMAIN d |-> e[k]]
  BY DEF UnsetMark, Marking, AlterLines
<1>2. ASSUME NEW k \in DOMAIN d
      PROVE  e[k] = d[k] \/ (d[k].kind # "code" /\ e[k] = NewMarks(d[k], M[k]))
  <2>1. e[k] = IF k \in S /\ d[k].kind # "code"
               THEN [d[k] EXCEPT !.words = [n \in DOMAIN d[k].words |-> Word(d[k].words[n].id, d[k].words[n].marks \ {m})]]
               ELSE d[k]
    BY DEF UnsetMark, Marking, AlterLines
  <2>2. [n \in DOMAIN d[k].words |-> Word(d[k].words[n].id, d[k].words[n].marks \ {m})]
        = [n \in DOMAIN d[k].words |-> Word(d[k].words[n].id, M[k][n])]
    OBVIOUS
  <2> QED BY <2>1, <2>2 DEF NewMarks
<1>3. ASSUME NEW k \in DOMAIN d, NEW n \in DOMAIN d[k].words PROVE M[k][n] \in SUBSET Marks
  <2>1. M[k][n] = d[k].words[n].marks \ {m}
    OBVIOUS
  <2> QED BY <2>1, WordMarks
<1> HIDE DEF e, M
<1>4. Repainted(d, e)
  BY <1>1, <1>2, <1>3, MarkingType
<1> QED BY <1>4 DEF e


LEMMA ToggledMarkType ==
    ASSUME NEW d \in Documents, NEW s, NEW m \in Marks PROVE Repainted(d, ToggledMark(d, s, m))
BY SetMarkType, UnsetMarkType DEF ToggledMark

\* An alignment repaints.
LEMMA AlignedType ==
    ASSUME NEW d \in Documents, NEW S, NEW align \in {"left", "center"}
    PROVE  Repainted(d, AlterLines(d, S, LAMBDA line : IF line.kind = "code" THEN line ELSE [line EXCEPT !.align = align]))
<1> DEFINE e == AlterLines(d, S, LAMBDA line : IF line.kind = "code" THEN line ELSE [line EXCEPT !.align = align])
<1>1. e = [k \in DOMAIN d |-> e[k]]
  BY DEF AlterLines
<1>2. ASSUME NEW k \in DOMAIN d PROVE e[k] = d[k] \/ e[k] = [d[k] EXCEPT !.align = align]
  BY DEF AlterLines
<1> HIDE DEF e
<1>3. ASSUME NEW k \in DOMAIN d PROVE Painted(d[k], e[k])
  <2>1. CASE e[k] = d[k]
    BY <2>1, PaintedSame
  <2>2. CASE e[k] = [d[k] EXCEPT !.align = align]
    <3>1. PICK z \in Lines : z = d[k] /\ Plain(z)
      BY DocumentType
    <3>2. e[k] = [z EXCEPT !.align = align]
      BY <2>2, <3>1
    <3>3. e[k] \in Lines /\ e[k].kind = z.kind /\ e[k].more = z.more /\ e[k].ref = z.ref /\ e[k].words = z.words
      BY <3>2 DEF Lines
    <3>4. Plain(e[k])
      BY <3>1, <3>3 DEF Plain, IsText
    <3> QED BY <3>1, <3>3, <3>4 DEF Painted
  <2> QED BY <1>2, <2>1, <2>2
<1>4. Repainted(d, e)
  BY <1>1, <1>3, Repaint
<1> QED BY <1>4 DEF e

---------------------------------------------------------------------------
(* Blocks and selections *)

\* The block of a line: the lines around it that are of one list or quote.
LEMMA BlockIs ==
    ASSUME NEW d \in Documents, NEW l \in DOMAIN d
    PROVE  \E a, b \in DOMAIN d :
              /\ a <= l /\ l <= b /\ BlockOf(d, l) = a .. b
              /\ \A k \in a .. b : d[k].kind = d[l].kind
              /\ b + 1 \in DOMAIN d => ~d[b + 1].more
<1> DEFINE B == BlockOf(d, l)
<1>0. Len(d) \in Nat /\ DOMAIN d = 1 .. Len(d) /\ l \in Nat /\ l >= 1 /\ l <= Len(d)
  BY DocumentType
<1>1. \A k \in DOMAIN d : k \in B <=> \A x \in DOMAIN d : (x > Min({k, l}) /\ x <= Max({k, l})) => d[x].more
  BY DEF BlockOf
<1>2. ASSUME NEW k \in DOMAIN d PROVE k <= l => Min({k, l}) = k /\ Max({k, l}) = l
  <2>1. {k, l} \in SUBSET Nat /\ {k, l} # {} /\ (k <= l => \A n \in {k, l} : n <= l) /\ k \in {k, l} /\ l \in {k, l}
    BY <1>0
  <2>2. Min({k, l}) \in {k, l} /\ Min({k, l}) <= k
    BY <2>1, MinOf
  <2>3. k <= l => Max({k, l}) \in {k, l} /\ l <= Max({k, l})
    BY <2>1, <1>0, MaxOf
  <2> QED BY <2>2, <2>3, <1>0
<1>3. ASSUME NEW k \in DOMAIN d PROVE l <= k => Min({k, l}) = l /\ Max({k, l}) = k
  <2>1. {k, l} \in SUBSET Nat /\ {k, l} # {} /\ (l <= k => \A n \in {k, l} : n <= k) /\ k \in {k, l} /\ l \in {k, l} /\ k \in Nat
    BY <1>0
  <2>2. Min({k, l}) \in {k, l} /\ Min({k, l}) <= l
    BY <2>1, MinOf
  <2>3. l <= k => Max({k, l}) \in {k, l} /\ k <= Max({k, l})
    BY <2>1, <1>0, MaxOf
  <2> QED BY <2>1, <2>2, <2>3, <1>0
<1> HIDE DEF B
<1>4. \A k \in DOMAIN d : k <= l => (k \in B <=> \A x \in DOMAIN d : (x > k /\ x <= l) => d[x].more)
  BY <1>1, <1>2
<1>5. \A k \in DOMAIN d : l <= k => (k \in B <=> \A x \in DOMAIN d : (x > l /\ x <= k) => d[x].more)
  BY <1>1, <1>3
<1>6. l \in B /\ B \subseteq DOMAIN d
  <2>1. \A x \in DOMAIN d : ~(x > l /\ x <= l)
    BY <1>0
  <2>2. l \in B
    BY <2>1, <1>0, <1>4
  <2> QED BY <2>2 DEF B, BlockOf
<1>7. PICK a \in B : \A k \in B : a <= k
  <2>1. B \in SUBSET Nat /\ B # {}
    BY <1>6, <1>0
  <2> QED BY <2>1, Least
<1>8. PICK b \in B : \A k \in B : k <= b
  <2>1. B \in SUBSET Nat /\ B # {} /\ \A n \in B : n <= Len(d)
    BY <1>6, <1>0
  <2> QED BY <2>1, <1>0, Greatest
<1>9. a \in Nat /\ b \in Nat /\ a \in DOMAIN d /\ b \in DOMAIN d /\ a <= l /\ l <= b /\ a >= 1 /\ b <= Len(d)
  BY <1>0, <1>6, <1>7, <1>8
<1>10. \A x \in DOMAIN d : x > a /\ x <= b => d[x].more
  <2> SUFFICES ASSUME NEW x \in DOMAIN d, x > a, x <= b PROVE d[x].more
    OBVIOUS
  <2>1. CASE x <= l
    BY <2>1, <1>4, <1>7, <1>9
  <2>2. CASE x > l
    BY <2>2, <1>5, <1>8, <1>9
  <2> QED BY <2>1, <2>2, <1>0
<1>11. B = a .. b
  <2>1. ASSUME NEW k \in a .. b PROVE k \in B
    <3>0. k \in DOMAIN d /\ k \in Nat
      BY <1>0, <1>9
    <3>1. CASE k <= l
      <4>1. \A x \in DOMAIN d : (x > k /\ x <= l) => d[x].more
        BY <1>0, <1>9, <1>10, <3>0
      <4> QED BY <3>1, <3>0, <4>1, <1>4
    <3>2. CASE l <= k
      <4>1. \A x \in DOMAIN d : (x > l /\ x <= k) => d[x].more
        BY <1>0, <1>9, <1>10, <3>0
      <4> QED BY <3>2, <3>0, <4>1, <1>5
    <3> QED BY <3>0, <3>1, <3>2, <1>0
  <2>2. ASSUME NEW k \in B PROVE k \in a .. b
    <3>1. k \in Nat /\ a <= k /\ k <= b
      BY <1>0, <1>6, <1>7, <1>8
    <3> QED BY <3>1, <1>9
  <2> QED BY <2>1, <2>2
<1>12. ASSUME b + 1 \in DOMAIN d PROVE ~d[b + 1].more
  <2> SUFFICES ASSUME d[b + 1].more PROVE FALSE
    OBVIOUS
  <2>1. \A x \in DOMAIN d : (x > l /\ x <= b + 1) => d[x].more
    <3> SUFFICES ASSUME NEW x \in DOMAIN d, x > l, x <= b + 1 PROVE d[x].more
      OBVIOUS
    <3>1. x \in Nat /\ (x = b + 1 \/ (x > a /\ x <= b))
      BY <1>0, <1>9
    <3> QED BY <3>1, <1>10
  <2>2. l <= b + 1
    BY <1>0, <1>9
  <2>3. b + 1 \in B
    BY <1>5, <1>12, <2>1, <2>2
  <2>4. b + 1 <= b
    BY <2>3, <1>8
  <2> QED BY <2>4, <1>9
<1>13. \A k \in a .. b : d[k].kind = d[l].kind
  <2> DEFINE P == {n \in Nat : a + n <= b => d[a + n].kind = d[a].kind}
  <2>1. 0 \in P
    BY <1>9
  <2>2. ASSUME NEW n \in P PROVE n + 1 \in P
    <3> SUFFICES ASSUME a + (n + 1) <= b PROVE d[a + (n + 1)].kind = d[a].kind
      OBVIOUS
    <3>1. n \in Nat /\ a + n <= b /\ a + (n + 1) \in DOMAIN d /\ a + (n + 1) > a /\ a + (n + 1) - 1 = a + n
      BY <1>0, <1>9
    <3>2. PICK c : c = a + (n + 1)
      OBVIOUS
    <3>6. c \in DOMAIN d
      BY <3>1, <3>2
    <3>7. c - 1 = a + n /\ c > a /\ c <= b
      <4> HIDE DEF P
      <4> QED BY <3>1, <3>2, <1>9
    <3>3. d[c].more
      BY <3>6, <3>7, <1>10
    <3>4. d[c].kind = d[c - 1].kind
      BY <3>3, <3>6, DocumentType DEF GoesOn
    <3>5. d[a + n].kind = d[a].kind
      BY <3>1
    <3> QED BY <3>2, <3>4, <3>5, <3>7
  <2>3. \A n \in Nat : n \in P
    <3>1. P \in SUBSET Nat
      OBVIOUS
    <3> HIDE DEF P
    <3> QED BY <2>1, <2>2, <3>1, Induct
  <2>4. ASSUME NEW k \in a .. b PROVE d[k].kind = d[a].kind
    <3>1. k - a \in Nat /\ a + (k - a) = k /\ a + (k - a) <= b
      BY <1>9
    <3>2. k - a \in P
      BY <2>3, <3>1
    <3>3. d[a + (k - a)].kind = d[a].kind
      BY <3>1, <3>2
    <3> QED BY <3>1, <3>3
  <2>5. l \in a .. b
    BY <1>9, <1>0
  <2> QED BY <2>4, <2>5
<1> QED BY <1>9, <1>11, <1>12, <1>13 DEF B

\* What a selection in a document is: its ends are lines of it, and the lines
\* between them may be selected together.
LEMMA SpotType ==
    ASSUME NEW d \in Documents, NEW s \in Spots(d)
    PROVE  /\ s \in Spans /\ s.i \in DOMAIN d /\ s.j \in DOMAIN d /\ s.i <= s.j /\ s.j <= Len(d)
           /\ s.i \in Nat /\ s.j \in Nat /\ s.o \in Nat /\ s.i >= 1 /\ s.all \in BOOLEAN /\ Selected(s) \subseteq DOMAIN d
           /\ ~s.all => s.j = s.i /\ IsText(d[s.i]) /\ s.o <= Len(d[s.i].words)
           /\ s.i < s.j => Together(d, s.i, s.j)
<1>1. s \in Spans /\ s.i \in DOMAIN d /\ s.j \in s.i .. Len(d)
      /\ (~s.all => s.j = s.i /\ IsText(d[s.i]) /\ s.o <= Len(d[s.i].words))
      /\ (s.i < s.j => Together(d, s.i, s.j))
  BY DEF Spots
<1>2. s.i \in Nat /\ s.j \in Nat /\ s.o \in Nat /\ s.all \in BOOLEAN
  BY <1>1 DEF Spans
<1>3. DOMAIN d = 1 .. Len(d) /\ Len(d) \in Nat
  BY DocumentType
<1>4. s.j \in DOMAIN d /\ s.i <= s.j /\ s.i >= 1 /\ s.j <= Len(d)
  BY <1>1, <1>2, <1>3
<1>5. Selected(s) \subseteq DOMAIN d
  BY <1>2, <1>3, <1>4 DEF Selected
<1> QED BY <1>1, <1>2, <1>4, <1>5

\* A cursor in a text, and a line selected as a whole, are selections.
LEMMA CursorSpot ==
    ASSUME NEW d \in Documents, NEW l \in DOMAIN d, IsText(d[l]), NEW n \in Nat, n <= Len(d[l].words)
    PROVE  Cursor(l, n) \in Spots(d)
<1>1. l \in Nat /\ l \in 1 .. Len(d) /\ Len(d) \in Nat
  BY DocumentType
<1>2. l \in l .. Len(d) /\ ~(l < l)
  BY <1>1
<1>3. Cursor(l, n) \in Spans /\ Cursor(l, n).i = l /\ Cursor(l, n).j = l /\ Cursor(l, n).o = n
  BY <1>1 DEF Cursor, Spans
<1> HIDE DEF Cursor
<1> QED BY <1>2, <1>3 DEF Spots

LEMMA WholeSpot ==
    ASSUME NEW d \in Documents, NEW a \in DOMAIN d, NEW b \in DOMAIN d, a <= b, a < b => Together(d, a, b)
    PROVE  Whole(a, b) \in Spots(d)
<1>1. a \in Nat /\ b \in Nat /\ b \in a .. Len(d)
  BY DocumentType
<1>2. Whole(a, b) \in Spans /\ Whole(a, b).i = a /\ Whole(a, b).j = b /\ Whole(a, b).all
  BY <1>1 DEF Whole, Spans
<1> QED BY <1>1, <1>2 DEF Spots

LEMMA WholeLine ==
    ASSUME NEW d \in Documents, NEW l \in DOMAIN d PROVE Whole(l, l) \in Spots(d)
<1>1. l \in Nat
  BY DocumentType
<1>2. l <= l /\ ~(l < l)
  BY <1>1
<1> QED BY <1>2, WholeSpot

\* A selection stays one in a document of the same lines with as many words.
LEMMA AlikeSpots ==
    ASSUME NEW d \in Documents, NEW e \in Documents, DOMAIN e = DOMAIN d, Len(e) = Len(d),
           \A k \in DOMAIN d : e[k].kind = d[k].kind /\ e[k].more = d[k].more /\ Len(e[k].words) = Len(d[k].words),
           NEW s \in Spots(d)
    PROVE  s \in Spots(e)
<1>3. BlockOf(e, s.i) = BlockOf(d, s.i)
  BY DEF BlockOf
<1>4. \A k \in DOMAIN d : IsText(e[k]) = IsText(d[k]) /\ IsTop(e[k]) = IsTop(d[k])
  BY DEF IsText, IsTop
<1>5. s \in Spans /\ s.i \in DOMAIN d /\ s.j \in s.i .. Len(d) /\ s.i .. s.j \subseteq DOMAIN d
  BY SpotType DEF Spots, Selected
<1>6. ASSUME s.i < s.j PROVE Together(e, s.i, s.j)
  <2>1. Together(d, s.i, s.j)
    BY <1>6, SpotType
  <2> QED BY <2>1, <1>3, <1>4, <1>5 DEF Together
<1>7. ASSUME ~s.all PROVE s.j = s.i /\ IsText(e[s.i]) /\ s.o <= Len(e[s.i].words)
  BY <1>4, <1>5, <1>7, SpotType
<1> QED BY <1>5, <1>6, <1>7 DEF Spots

\* A selection stays one when the lines are repainted.
LEMMA RepaintedSpots ==
    ASSUME NEW d \in Documents, NEW e, Repainted(d, e), NEW s \in Spots(d)
    PROVE  s \in Spots(e)
<1>1. DOMAIN e = DOMAIN d /\ Len(e) = Len(d) /\ e \in Documents
  BY DEF Repainted, Reworked
<1>2. \A k \in DOMAIN d : e[k].kind = d[k].kind /\ e[k].more = d[k].more /\ Len(e[k].words) = Len(d[k].words)
  BY DEF Repainted, Painted
<1> QED BY <1>1, <1>2, AlikeSpots

---------------------------------------------------------------------------
(* What the toolbar turns texts into *)

\* A document turned into another, with the cursor at the end of line l.
Turned(d, e, l) == Reworked(d, e) /\ l \in DOMAIN d /\ IsText(e[l])

\* After a chain the cursor is at the end of a text.
LEMMA TurnedSpot ==
    ASSUME NEW d \in Documents, NEW e, NEW l, Turned(d, e, l)
    PROVE  e \in Documents /\ Cursor(l, Len(e[l].words)) \in Spots(e) /\ ViewsOf(e) \subseteq ViewsOf(d)
<1>1. e \in Documents /\ l \in DOMAIN e /\ IsText(e[l]) /\ ViewsOf(e) \subseteq ViewsOf(d)
  BY DEF Turned, Reworked
<1>2. Len(e[l].words) \in Nat
  BY <1>1, DocumentType, LineType
<1>3. Len(e[l].words) <= Len(e[l].words)
  BY <1>2
<1> QED BY <1>1, <1>2, <1>3, CursorSpot

\* What a toggle finds: the lines a .. b, of one block that was cleared or of
\* several; it has to leave a text in each of them.
Toggles(e, S, f) == Reworked(e, f) /\ \A k \in S : IsText(f[k])

\* What the chains of the toolbar have in common: a block is cleared, and then
\* toggled unless it was what it is to become; several blocks are only toggled.
LEMMA TurnIntoType ==
    ASSUME NEW d \in Documents, NEW s \in Spots(d), ~(s.all /\ OnAtom(d, s)), NEW t,
           OneBlock(d, s) =>
               \/ t = Cleared(d, BlockOf(d, s.i))
               \/ \A a, b \in DOMAIN d : \A e \in Documents :
                     (BlockOf(d, s.i) = a .. b /\ e = Cleared(d, a .. b) /\ Closed(e, a, b)) => Toggles(e, a .. b, t),
           ~OneBlock(d, s) =>
               \/ d[s.i].kind = "quote" /\ t = d
               \/ d[s.i].kind # "quote" /\ (Closed(d, s.i, s.j) => Toggles(d, s.i .. s.j, t))
    PROVE  LET last == IF OneBlock(d, s) THEN Max(BlockOf(d, s.i)) ELSE s.j
           IN  Turned(d, t, last)
<1> DEFINE last == IF OneBlock(d, s) THEN Max(BlockOf(d, s.i)) ELSE s.j
<1>0. /\ s.i \in DOMAIN d /\ s.j \in DOMAIN d /\ s.i <= s.j /\ s.i \in Nat /\ s.j \in Nat
      /\ DOMAIN d = 1 .. Len(d) /\ Len(d) \in Nat /\ IsText(d[s.i])
  BY SpotType, DocumentType DEF OnAtom
<1>1. CASE OneBlock(d, s)
  <2>1. PICK a \in DOMAIN d, b \in DOMAIN d :
          /\ a <= s.i /\ s.i <= b /\ BlockOf(d, s.i) = a .. b
          /\ \A k \in a .. b : d[k].kind = d[s.i].kind
          /\ b + 1 \in DOMAIN d => ~d[b + 1].more
    BY <1>0, BlockIs
  <2>2. a \in Nat /\ b \in Nat /\ a <= b /\ a .. b \subseteq DOMAIN d /\ b \in a .. b
    BY <1>0, <2>1
  <2>3. last = b
    BY <1>1, <2>1, <2>2, IntervalEnds
  <2>4. \A k \in a .. b : IsText(d[k])
    BY <2>1, <1>0 DEF IsText
  <2> DEFINE c == Cleared(d, a .. b)
  <2>5. /\ Reworked(d, c) /\ \A k \in a .. b : IsText(c[k])
        /\ b + 1 \in DOMAIN d => ~c[b + 1].more
    <3>1. b + 1 - 1 \in a .. b
      BY <2>2
    <3> QED BY <2>2, <2>4, <3>1, ClearedType
  <2> HIDE DEF c
  <2>6. c \in Documents /\ DOMAIN c = DOMAIN d
    BY <2>5 DEF Reworked
  <2>7. Closed(c, a, b)
    BY <2>2, <2>5, <2>6 DEF Closed
  <2>8. t = c \/ Toggles(c, a .. b, t)
    BY <1>1, <2>1, <2>6, <2>7 DEF c
  <2>10. Reworked(d, t) /\ IsText(t[b])
    <3>1. CASE t = c
      BY <3>1, <2>2, <2>5
    <3>2. CASE Toggles(c, a .. b, t)
      <4>1. Reworked(c, t) /\ IsText(t[b])
        BY <3>2, <2>2 DEF Toggles
      <4>2. Reworked(d, t)
        BY <2>5, <4>1, ReworkedAgain
      <4> QED BY <4>1, <4>2
    <3> QED BY <3>1, <3>2, <2>8
  <2> QED BY <2>3, <2>10 DEF Turned
<1>2. CASE ~OneBlock(d, s)
  <2>1. s.i < s.j
    <3> SUFFICES ASSUME s.i = s.j PROVE FALSE
      BY <1>0
    <3>1. PICK a \in DOMAIN d, b \in DOMAIN d :
            /\ a <= s.i /\ s.i <= b /\ BlockOf(d, s.i) = a .. b
            /\ \A k \in a .. b : d[k].kind = d[s.i].kind
            /\ b + 1 \in DOMAIN d => ~d[b + 1].more
      BY <1>0, BlockIs
    <3>2. s.i .. s.j = {s.i} /\ s.i \in a .. b
      BY <1>0, <3>1
    <3> QED BY <1>2, <3>1, <3>2 DEF OneBlock, Selected
  <2>2. Together(d, s.i, s.j) /\ s.j \in s.i .. s.j /\ s.i \in s.i .. s.j
    BY <2>1, <1>0, SpotType
  <2>3. \A k \in s.i .. s.j : IsText(d[k])
    BY <2>2 DEF Together
  <2>4. CASE d[s.i].kind = "quote"
    <3>1. t = d
      BY <1>2, <2>4
    <3> QED BY <1>0, <1>2, <2>2, <2>3, <3>1, ReworkedSame DEF Turned
  <2>5. CASE d[s.i].kind # "quote"
    <3>1. \A k \in s.i .. s.j : IsTop(d[k])
      BY <1>2, <2>2, <2>5 DEF Together, OneBlock, Selected
    <3>2. ASSUME s.j + 1 \in DOMAIN d PROVE ~d[s.j + 1].more
      <4> SUFFICES ASSUME d[s.j + 1].more PROVE FALSE
        OBVIOUS
      <4>1. PICK c \in DOMAIN d : c = s.j + 1 /\ c - 1 = s.j
        BY <3>2, <1>0
      <4>2. d[c].kind = d[c - 1].kind /\ d[c].kind \in Lists \cup {"quote"}
        BY <4>1, DocumentType DEF GoesOn
      <4>3. d[s.j].kind \in Tops
        BY <3>1, <2>2 DEF IsTop
      <4> QED BY <4>1, <4>2, <4>3, Kinds
    <3>3. Closed(d, s.i, s.j)
      BY <1>0, <2>3, <3>2 DEF Closed
    <3>4. Toggles(d, s.i .. s.j, t)
      BY <1>2, <2>5, <3>3
    <3> QED BY <1>0, <1>2, <2>2, <3>4 DEF Turned, Toggles
  <2> QED BY <2>4, <2>5
<1> QED BY <1>1, <1>2

\* Each command of a chain is such a toggle.
LEMMA WrapInListType ==
    ASSUME NEW d \in Documents, NEW a, NEW b, Closed(d, a, b), NEW kind \in Lists
    PROVE  Toggles(d, a .. b, WrapInList(d, a .. b, kind))
<1>0. a \in DOMAIN d /\ b \in DOMAIN d /\ a <= b /\ a \in Nat /\ b \in Nat /\ a .. b \subseteq DOMAIN d
      /\ \A k \in a .. b : IsText(d[k])
  BY DocumentType DEF Closed
<1>1. ASSUME NEW e, Reworked(d, e), Closed(e, a, b) PROVE Toggles(d, a .. b, Wrap(e, a .. b, kind))
  <2>1. e \in Documents /\ DOMAIN e = DOMAIN d
    BY <1>1 DEF Reworked
  <2>2. Reworked(e, Wrap(e, a .. b, kind)) /\ \A k \in DOMAIN e : IsText(Wrap(e, a .. b, kind)[k]) = IsText(e[k])
    BY <1>1, <2>1, WrapType
  <2>3. Reworked(d, Wrap(e, a .. b, kind))
    BY <1>1, <2>2, ReworkedAgain
  <2>4. \A k \in a .. b : IsText(e[k])
    BY <1>1 DEF Closed
  <2> QED BY <1>0, <2>1, <2>2, <2>3, <2>4 DEF Toggles
<1>2. Toggles(d, a .. b, Wrap(d, a .. b, kind))
  BY <1>1, ReworkedSame
<1>3. Toggles(d, a .. b, Wrap(Cleared(d, a .. b), a .. b, kind))
  <2> DEFINE c == Cleared(d, a .. b)
  <2>1. b + 1 - 1 \in a .. b
    BY <1>0
  <2>2. Reworked(d, c) /\ (\A k \in DOMAIN d : IsText(c[k]) = IsText(d[k])) /\ (b + 1 \in DOMAIN d => ~c[b + 1].more)
    BY <1>0, <2>1, ClearedType
  <2> HIDE DEF c
  <2>3. Closed(c, a, b)
    BY <1>0, <2>2 DEF Closed, Reworked
  <2>4. Toggles(d, a .. b, Wrap(c, a .. b, kind))
    BY <1>1, <2>2, <2>3
  <2> QED BY <2>4 DEF c
<1> QED BY <1>2, <1>3 DEF WrapInList

LEMMA SetNodeToggles ==
    ASSUME NEW d \in Documents, NEW a, NEW b, Closed(d, a, b), NEW kind \in {"paragraph", "code"} \cup Levels
    PROVE  Toggles(d, a .. b, SetNode(d, a .. b, kind))
BY SetNodeType, DocumentType DEF Toggles, Closed
LEMMA WrapToggles ==
    ASSUME NEW d \in Documents, NEW a, NEW b, Closed(d, a, b), NEW kind \in Lists \cup {"quote"}
    PROVE  Toggles(d, a .. b, Wrap(d, a .. b, kind))
BY WrapType, DocumentType DEF Toggles, Closed

\* The toolbar's four buttons, on a selection that is not an atom.
LastTurned(d, s) == IF OneBlock(d, s) THEN Max(BlockOf(d, s.i)) ELSE s.j

\* A heading, a code block, a list and a quote: what each chain of the toolbar
\* makes of a selection is a document with the same views, and a cursor in it.
LEMMA TurnedHeadingType ==
    ASSUME NEW d \in Documents, NEW s \in Spots(d), ~(s.all /\ OnAtom(d, s)), NEW level \in Levels
    PROVE  Turned(d, TurnedHeading(d, s, level), LastTurned(d, s))
<1> DEFINE t == TurnedHeading(d, s, level)
           B == BlockOf(d, s.i)
           F(e, S) == SetNode(e, S, IF \A k \in S : e[k].kind = level THEN "paragraph" ELSE level)
<1>1. t = IF ~OneBlock(d, s) THEN IF d[s.i].kind = "quote" THEN d ELSE F(d, Selected(s))
          ELSE IF d[s.i].kind = level THEN Cleared(d, B) ELSE F(Cleared(d, B), B)
  BY DEF TurnedHeading, TurnInto
<1>2. ASSUME NEW e \in Documents, NEW a, NEW b, Closed(e, a, b) PROVE Toggles(e, a .. b, F(e, a .. b))
  BY <1>2, SetNodeToggles
<1> HIDE DEF F, t, B
<1>3. ASSUME OneBlock(d, s)
      PROVE  \/ t = Cleared(d, B)
             \/ \A a, b \in DOMAIN d : \A e \in Documents :
                     (B = a .. b /\ e = Cleared(d, a .. b) /\ Closed(e, a, b)) => Toggles(e, a .. b, t)
  BY <1>1, <1>2, <1>3
<1>4. ASSUME ~OneBlock(d, s)
      PROVE  \/ d[s.i].kind = "quote" /\ t = d
             \/ d[s.i].kind # "quote" /\ (Closed(d, s.i, s.j) => Toggles(d, s.i .. s.j, t))
  BY <1>1, <1>2, <1>4 DEF Selected
<1>5. Turned(d, t, LastTurned(d, s))
  BY <1>3, <1>4, TurnIntoType DEF LastTurned, B
<1> QED BY <1>5 DEF t

LEMMA TurnedCodeType ==
    ASSUME NEW d \in Documents, NEW s \in Spots(d), ~(s.all /\ OnAtom(d, s))
    PROVE  Turned(d, TurnedCode(d, s), LastTurned(d, s))
<1> DEFINE t == TurnedCode(d, s)
           B == BlockOf(d, s.i)
           F(e, S) == SetNode(e, S, IF \A k \in S : e[k].kind = "code" THEN "paragraph" ELSE "code")
<1>1. t = IF ~OneBlock(d, s) THEN IF d[s.i].kind = "quote" THEN d ELSE F(d, Selected(s))
          ELSE IF d[s.i].kind = "code" THEN Cleared(d, B) ELSE F(Cleared(d, B), B)
  BY DEF TurnedCode, TurnInto
<1>2. ASSUME NEW e \in Documents, NEW a, NEW b, Closed(e, a, b) PROVE Toggles(e, a .. b, F(e, a .. b))
  BY <1>2, SetNodeToggles
<1> HIDE DEF F, t, B
<1>3. ASSUME OneBlock(d, s)
      PROVE  \/ t = Cleared(d, B)
             \/ \A a, b \in DOMAIN d : \A e \in Documents :
                     (B = a .. b /\ e = Cleared(d, a .. b) /\ Closed(e, a, b)) => Toggles(e, a .. b, t)
  BY <1>1, <1>2, <1>3
<1>4. ASSUME ~OneBlock(d, s)
      PROVE  \/ d[s.i].kind = "quote" /\ t = d
             \/ d[s.i].kind # "quote" /\ (Closed(d, s.i, s.j) => Toggles(d, s.i .. s.j, t))
  BY <1>1, <1>2, <1>4 DEF Selected
<1>5. Turned(d, t, LastTurned(d, s))
  BY <1>3, <1>4, TurnIntoType DEF LastTurned, B
<1> QED BY <1>5 DEF t

LEMMA TurnedListType ==
    ASSUME NEW d \in Documents, NEW s \in Spots(d), ~(s.all /\ OnAtom(d, s)), NEW type \in Lists
    PROVE  Turned(d, TurnedList(d, s, type), LastTurned(d, s))
<1> DEFINE t == TurnedList(d, s, type)
           B == BlockOf(d, s.i)
           F(e, S) == WrapInList(e, S, type)
<1>1. t = IF ~OneBlock(d, s) THEN IF d[s.i].kind = "quote" THEN d ELSE F(d, Selected(s))
          ELSE IF d[s.i].kind = type THEN Cleared(d, B) ELSE F(Cleared(d, B), B)
  BY DEF TurnedList, TurnInto
<1>2. ASSUME NEW e \in Documents, NEW a, NEW b, Closed(e, a, b) PROVE Toggles(e, a .. b, F(e, a .. b))
  BY <1>2, WrapInListType
<1> HIDE DEF F, t, B
<1>3. ASSUME OneBlock(d, s)
      PROVE  \/ t = Cleared(d, B)
             \/ \A a, b \in DOMAIN d : \A e \in Documents :
                     (B = a .. b /\ e = Cleared(d, a .. b) /\ Closed(e, a, b)) => Toggles(e, a .. b, t)
  BY <1>1, <1>2, <1>3
<1>4. ASSUME ~OneBlock(d, s)
      PROVE  \/ d[s.i].kind = "quote" /\ t = d
             \/ d[s.i].kind # "quote" /\ (Closed(d, s.i, s.j) => Toggles(d, s.i .. s.j, t))
  BY <1>1, <1>2, <1>4 DEF Selected
<1>5. Turned(d, t, LastTurned(d, s))
  BY <1>3, <1>4, TurnIntoType DEF LastTurned, B
<1> QED BY <1>5 DEF t

LEMMA TurnedQuoteType ==
    ASSUME NEW d \in Documents, NEW s \in Spots(d), ~(s.all /\ OnAtom(d, s))
    PROVE  Turned(d, TurnedQuote(d, s), LastTurned(d, s))
<1> DEFINE t == TurnedQuote(d, s)
           B == BlockOf(d, s.i)
           F(e, S) == Wrap(e, S, "quote")
<1>1. t = IF ~OneBlock(d, s) THEN IF d[s.i].kind = "quote" THEN d ELSE F(d, Selected(s))
          ELSE IF d[s.i].kind = "quote" THEN Cleared(d, B) ELSE F(Cleared(d, B), B)
  BY DEF TurnedQuote, TurnInto
<1>2. ASSUME NEW e \in Documents, NEW a, NEW b, Closed(e, a, b) PROVE Toggles(e, a .. b, F(e, a .. b))
  BY <1>2, WrapToggles
<1> HIDE DEF F, t, B
<1>3. ASSUME OneBlock(d, s)
      PROVE  \/ t = Cleared(d, B)
             \/ \A a, b \in DOMAIN d : \A e \in Documents :
                     (B = a .. b /\ e = Cleared(d, a .. b) /\ Closed(e, a, b)) => Toggles(e, a .. b, t)
  BY <1>1, <1>2, <1>3
<1>4. ASSUME ~OneBlock(d, s)
      PROVE  \/ d[s.i].kind = "quote" /\ t = d
             \/ d[s.i].kind # "quote" /\ (Closed(d, s.i, s.j) => Toggles(d, s.i .. s.j, t))
  BY <1>1, <1>2, <1>4 DEF Selected
<1>5. Turned(d, t, LastTurned(d, s))
  BY <1>3, <1>4, TurnIntoType DEF LastTurned, B
<1> QED BY <1>5 DEF t

---------------------------------------------------------------------------
(* Sequences cut and joined *)

\* Sequences that are cut and joined.
LEMMA CutType ==
    ASSUME NEW Q, NEW s \in Seq(Q), NEW m \in Nat, NEW n \in Nat, m >= 1, n <= Len(s)
    PROVE  /\ SubSeq(s, m, n) \in Seq(Q)
           /\ Len(SubSeq(s, m, n)) = IF m <= n THEN n - m + 1 ELSE 0
           /\ \A k \in 1 .. Len(SubSeq(s, m, n)) : SubSeq(s, m, n)[k] = s[m + k - 1]
OBVIOUS

LEMMA JoinType ==
    ASSUME NEW Q, NEW s \in Seq(Q), NEW t \in Seq(Q)
    PROVE  /\ s \o t \in Seq(Q) /\ Len(s \o t) = Len(s) + Len(t)
           /\ \A k \in 1 .. Len(s) : (s \o t)[k] = s[k]
           /\ \A k \in 1 .. Len(t) : (s \o t)[Len(s) + k] = t[k]
OBVIOUS

LEMMA LenOf == ASSUME NEW Q, NEW s \in Seq(Q), NEW n \in Nat, DOMAIN s = 1 .. n PROVE Len(s) = n
OBVIOUS

\* The lines from a to b are replaced.
LEMMA SpliceIs ==
    ASSUME NEW Q, NEW d \in Seq(Q), NEW a \in Nat, NEW b \in Nat, a >= 1, a <= b + 1, b <= Len(d), NEW lines \in Seq(Q)
    PROVE  /\ Splice(d, a, b, lines) \in Seq(Q)
           /\ Len(Splice(d, a, b, lines)) = Len(d) - (b + 1 - a) + Len(lines)
           /\ DOMAIN Splice(d, a, b, lines) = 1 .. Len(Splice(d, a, b, lines))
           /\ \A k \in 1 .. a - 1 : Splice(d, a, b, lines)[k] = d[k]
           /\ \A k \in a .. a - 1 + Len(lines) : Splice(d, a, b, lines)[k] = lines[k - a + 1]
           /\ \A k \in a + Len(lines) .. Len(Splice(d, a, b, lines)) :
                 Splice(d, a, b, lines)[k] = d[k - (a + Len(lines)) + (b + 1)]
<1> DEFINE p == SubSeq(d, 1, a - 1)
           q == SubSeq(d, b + 1, Len(d))
<1> DEFINE n == Len(lines)
<1>0. Len(d) \in Nat /\ n \in Nat /\ a - 1 \in Nat /\ b + 1 \in Nat /\ b + 1 >= 1 /\ a - 1 <= Len(d)
  OBVIOUS
<1>1. p \in Seq(Q) /\ Len(p) = a - 1 /\ \A k \in 1 .. a - 1 : p[k] = d[k]
  <2>1. p \in Seq(Q) /\ Len(p) = (IF 1 <= a - 1 THEN a - 1 - 1 + 1 ELSE 0) /\ \A k \in 1 .. Len(p) : p[k] = d[1 + k - 1]
    BY <1>0, CutType
  <2>2. Len(p) = a - 1
    BY <2>1, <1>0
  <2>3. \A k \in 1 .. a - 1 : 1 + k - 1 = k
    BY <1>0
  <2> QED BY <2>1, <2>2, <2>3
<1>2. q \in Seq(Q) /\ Len(q) = Len(d) - b /\ \A k \in 1 .. Len(d) - b : q[k] = d[b + k]
  <2>1. q \in Seq(Q) /\ Len(q) = (IF b + 1 <= Len(d) THEN Len(d) - (b + 1) + 1 ELSE 0) /\ \A k \in 1 .. Len(q) : q[k] = d[b + 1 + k - 1]
    BY <1>0, CutType
  <2>2. Len(q) = Len(d) - b
    BY <2>1, <1>0
  <2>3. \A k \in 1 .. Len(d) - b : b + 1 + k - 1 = b + k
    BY <1>0
  <2> QED BY <2>1, <2>2, <2>3
<1> HIDE DEF p, q
<1>3. p \o lines \in Seq(Q) /\ Len(p \o lines) = a - 1 + n
      /\ (\A k \in 1 .. a - 1 : (p \o lines)[k] = d[k]) /\ (\A k \in 1 .. n : (p \o lines)[a - 1 + k] = lines[k])
  <2>1. p \in Seq(Q) /\ lines \in Seq(Q)
    BY <1>1
  <2>2. p \o lines \in Seq(Q) /\ Len(p \o lines) = Len(p) + Len(lines)
        /\ (\A k \in 1 .. Len(p) : (p \o lines)[k] = p[k]) /\ (\A k \in 1 .. Len(lines) : (p \o lines)[Len(p) + k] = lines[k])
    BY <2>1, JoinType
  <2>3. Len(p) = a - 1 /\ Len(lines) = n
    BY <1>1
  <2> QED BY <2>2, <2>3, <1>1
<1>4. Splice(d, a, b, lines) = (p \o lines) \o q
  BY DEF Splice, p, q
<1> DEFINE r == p \o lines
           e == r \o q
<1> HIDE DEF r, n
<1>5. r \in Seq(Q) /\ Len(r) = a - 1 + n
      /\ (\A k \in 1 .. a - 1 : r[k] = d[k]) /\ (\A k \in 1 .. n : r[a - 1 + k] = lines[k])
  BY <1>3 DEF r, n
<1>6. e \in Seq(Q) /\ Len(e) = Len(r) + Len(q) /\ (\A k \in 1 .. Len(r) : e[k] = r[k]) /\ (\A k \in 1 .. Len(q) : e[Len(r) + k] = q[k])
  <2>1. r \in Seq(Q) /\ q \in Seq(Q)
    BY <1>2, <1>5
  <2> QED BY <2>1, JoinType
<1> HIDE DEF e
<1>7. Len(e) = Len(d) - (b + 1 - a) + n /\ DOMAIN e = 1 .. Len(e)
  BY <1>0, <1>2, <1>5, <1>6
<1>8. \A k \in 1 .. a - 1 : e[k] = d[k]
  <2> SUFFICES ASSUME NEW k \in 1 .. a - 1 PROVE e[k] = d[k]
    OBVIOUS
  <2>1. k \in 1 .. Len(r)
    BY <1>0, <1>5
  <2> QED BY <2>1, <1>5, <1>6
<1>9. \A k \in a .. a - 1 + n : e[k] = lines[k - a + 1]
  <2> SUFFICES ASSUME NEW k \in a .. a - 1 + n PROVE e[k] = lines[k - a + 1]
    OBVIOUS
  <2>1. k \in 1 .. Len(r) /\ k - a + 1 \in 1 .. n /\ a - 1 + (k - a + 1) = k
    BY <1>0, <1>5
  <2>2. e[k] = r[k] /\ r[a - 1 + (k - a + 1)] = lines[k - a + 1]
    BY <2>1, <1>5, <1>6
  <2> QED BY <2>1, <2>2
<1>10. \A k \in a + n .. Len(e) : e[k] = d[k - (a + n) + (b + 1)]
  <2> SUFFICES ASSUME NEW k \in a + n .. Len(e) PROVE e[k] = d[k - (a + n) + (b + 1)]
    OBVIOUS
  <2> DEFINE x == k - (a + n) + 1
  <2>1. x \in 1 .. Len(q) /\ x \in 1 .. Len(d) - b /\ Len(r) + x = k /\ b + x = k - (a + n) + (b + 1)
    BY <1>0, <1>2, <1>5, <1>7
  <2> HIDE DEF x
  <2>2. e[Len(r) + x] = q[x] /\ q[x] = d[b + x]
    BY <2>1, <1>2, <1>6
  <2> QED BY <2>1, <2>2
<1> QED BY <1>4, <1>6, <1>7, <1>8, <1>9, <1>10 DEF e, r, n

\* The lines put in are where they were put.
LEMMA SpliceMiddle ==
    ASSUME NEW Q, NEW d \in Seq(Q), NEW a \in Nat, NEW b \in Nat, a >= 1, a <= b + 1, b <= Len(d), NEW lines \in Seq(Q)
    PROVE  \A k \in a .. a - 1 + Len(lines) : Splice(d, a, b, lines)[k] = lines[k - a + 1]
<1>1. Len(d) \in Nat /\ Len(lines) \in Nat
  OBVIOUS
<1> QED BY <1>1, SpliceIs

\* One element of a sequence is removed.
LEMMA RemoveAtIs ==
    ASSUME NEW Q, NEW s \in Seq(Q), NEW i \in 1 .. Len(s)
    PROVE  /\ RemoveAt(s, i) \in Seq(Q) /\ Len(RemoveAt(s, i)) = Len(s) - 1
           /\ DOMAIN RemoveAt(s, i) = 1 .. Len(s) - 1
           /\ \A k \in 1 .. i - 1 : RemoveAt(s, i)[k] = s[k]
           /\ \A k \in i .. Len(s) - 1 : RemoveAt(s, i)[k] = s[k + 1]
<1>0. i \in Nat /\ i >= 1 /\ i <= i + 1 /\ i <= Len(s) /\ Len(s) \in Nat /\ <<>> \in Seq(Q)
  OBVIOUS
<1>1. PICK z \in Seq(Q) : z = <<>>
  BY <1>0
<1>2. Len(z) = 0
  BY <1>1
<1>a. Len(z) \in Nat
  BY <1>2
<1>3. Splice(s, i, i, z) = RemoveAt(s, i)
  <2>1. SubSeq(s, 1, i - 1) \in Seq(Q)
    BY <1>0, CutType
  <2>2. SubSeq(s, 1, i - 1) \o <<>> = SubSeq(s, 1, i - 1)
    BY <2>1
  <2> QED BY <1>1, <2>2 DEF Splice, RemoveAt
<1> DEFINE e == Splice(s, i, i, z)
<1>4. e \in Seq(Q)
  BY <1>0, SpliceIs
<1>5. DOMAIN e = 1 .. i - 1 + Len(z) + (Len(s) - i)
  BY <1>0, <1>a, SpliceIs
<1>6. \A k \in 1 .. i - 1 : e[k] = s[k]
  BY <1>0, SpliceIs
<1>7. \A k \in i + Len(z) .. Len(e) : e[k] = s[k - (i + Len(z)) + (i + 1)]
  BY <1>0, <1>a, SpliceIs
<1> HIDE DEF e
<1>8. DOMAIN e = 1 .. Len(s) - 1
  BY <1>0, <1>2, <1>5
<1>9. Len(e) = Len(s) - 1
  BY <1>0, <1>4, <1>8
<1>10. ASSUME NEW k \in i .. Len(s) - 1 PROVE e[k] = s[k + 1]
  <2>1. k \in i + Len(z) .. Len(e) /\ k - (i + Len(z)) + (i + 1) = k + 1
    BY <1>0, <1>2, <1>9
  <2> QED BY <2>1, <1>7
<1> QED BY <1>3, <1>4, <1>6, <1>8, <1>9, <1>10 DEF e

\* One element is put in.
LEMMA InsertAtIs ==
    ASSUME NEW Q, NEW s \in Seq(Q), NEW o \in 0 .. Len(s), NEW w \in Q
    PROVE  InsertAt(s, o + 1, w) \in Seq(Q) /\ Len(InsertAt(s, o + 1, w)) = Len(s) + 1
<1>0. o \in Nat /\ <<w>> \in Seq(Q) /\ o <= Len(s) /\ Len(s) \in Nat
  OBVIOUS
<1>1. PICK z \in Seq(Q) : z = <<w>>
  BY <1>0
<1>2. PICK a \in Nat : a = o + 1
  BY <1>0
<1>3. Len(z) = 1
  BY <1>1
<1>a. a >= 1 /\ a <= o + 1 /\ Len(z) \in Nat
  BY <1>0, <1>2, <1>3
<1>4. Splice(s, a, o, z) = InsertAt(s, o + 1, w)
  BY <1>0, <1>a, <1>1, <1>2 DEF Splice, InsertAt
<1> DEFINE e == Splice(s, a, o, z)
<1>5. e \in Seq(Q)
  BY <1>0, <1>a, SpliceIs
<1>6. DOMAIN e = 1 .. a - 1 + Len(z) + (Len(s) - o)
  BY <1>0, <1>a, SpliceIs
<1> HIDE DEF e
<1>7. DOMAIN e = 1 .. Len(s) + 1
  BY <1>0, <1>2, <1>3, <1>6
<1>8. Len(e) = Len(s) + 1
  BY <1>0, <1>5, <1>7
<1> QED BY <1>4, <1>5, <1>8 DEF e

---------------------------------------------------------------------------
(* Writing in a line, and deleting in one *)

\* The words of line l are others.
Rewritten(d, l, ws) == [d EXCEPT ![l].words = ws]

\* Other words in a line leave all other lines, and all kinds.
LEMMA RewrittenType ==
    ASSUME NEW d \in Documents, NEW l \in DOMAIN d, IsText(d[l]), NEW ws \in WordSeqs,
           d[l].kind = "code" => \A n \in DOMAIN ws : ws[n].marks = {},
           NEW e, e = Rewritten(d, l, ws)
    PROVE  /\ Reworked(d, e) /\ e[l].words = ws /\ e[l].kind = d[l].kind
           /\ \A k \in DOMAIN d : e[k].kind = d[k].kind /\ e[k].more = d[k].more /\ IsText(e[k]) = IsText(d[k])
           /\ \A k \in DOMAIN d : k # l => e[k] = d[k]
<1> DEFINE new == [d[l] EXCEPT !.words = ws]
<1>1. e = [k \in DOMAIN d |-> IF k = l THEN new ELSE d[k]]
  BY DEF Rewritten
<1>2. new \in Lines /\ new.kind = d[l].kind /\ new.words = ws /\ new.ref = d[l].ref /\ new.more = d[l].more /\ IsText(new) /\ Plain(new)
  BY DocumentType, WordsSet
<1> HIDE DEF new
<1>3. e = [k \in DOMAIN d |-> e[k]] /\ e[l] = new /\ \A k \in DOMAIN d : k # l => e[k] = d[k]
  BY <1>1
<1>4. \A k \in DOMAIN d : /\ e[k] \in Lines /\ Plain(e[k]) /\ e[k].kind = d[k].kind /\ e[k].ref = d[k].ref
                          /\ e[k].more = d[k].more /\ IsText(e[k]) = IsText(d[k])
  <2> SUFFICES ASSUME NEW k \in DOMAIN d
               PROVE  /\ e[k] \in Lines /\ Plain(e[k]) /\ e[k].kind = d[k].kind /\ e[k].ref = d[k].ref
                      /\ e[k].more = d[k].more /\ IsText(e[k]) = IsText(d[k])
    OBVIOUS
  <2>1. CASE k = l
    BY <2>1, <1>2, <1>3, Zenon
  <2>2. CASE k # l
    BY <2>2, <1>3, DocumentType, Zenon
  <2> QED BY <2>1, <2>2
<1>5. GoesOn(e)
  <2> SUFFICES ASSUME NEW k \in DOMAIN d, e[k].more
               PROVE  k > 1 /\ e[k].kind = e[k - 1].kind /\ e[k].kind \in Lists \cup {"quote"}
    BY <1>3 DEF GoesOn
  <2>1. k > 1 /\ d[k].kind = d[k - 1].kind /\ d[k].kind \in Lists \cup {"quote"}
    BY <1>4, DocumentType DEF GoesOn
  <2>2. k - 1 \in DOMAIN d
    BY <2>1, DocumentType
  <2> QED BY <2>1, <2>2, <1>4
<1>6. Reworked(d, e)
  <2>1. \A k \in DOMAIN d : e[k].kind = "upload" => d[k].kind = "upload" /\ e[k].ref = d[k].ref
    BY <1>4
  <2> QED BY <1>3, <1>4, <1>5, <2>1, InPlace
<1> QED BY <1>2, <1>3, <1>4, <1>6

\* What two numbers have for a least and a greatest.
LEMMA OfTwo ==
    ASSUME NEW a \in Nat, NEW b \in Nat
    PROVE  /\ Min({a, b}) \in {a, b} /\ Min({a, b}) <= a /\ Min({a, b}) <= b
           /\ Max({a, b}) \in {a, b} /\ Max({a, b}) >= a /\ Max({a, b}) >= b
<1>1. {a, b} \in SUBSET Nat /\ {a, b} # {} /\ a + b \in Nat /\ \A n \in {a, b} : n <= a + b
  OBVIOUS
<1>2. Min({a, b}) \in {a, b} /\ \A m \in {a, b} : Min({a, b}) <= m
  BY <1>1, MinOf
<1>3. Max({a, b}) \in {a, b} /\ \A m \in {a, b} : m <= Max({a, b})
  BY <1>1, MaxOf
<1> QED BY <1>2, <1>3

\* The marks at a cursor are marks, and none in a code block.
LEMMA MarksAtType ==
    ASSUME NEW d \in Documents, NEW s \in Spots(d), ~s.all
    PROVE  MarksAt(d, s) \in SUBSET Marks /\ (d[s.i].kind = "code" => MarksAt(d, s) = {})
<1> DEFINE ws == d[s.i].words
           n == Max({s.o, 1})
<1>1. s.i \in DOMAIN d /\ s.o \in Nat /\ s.o <= Len(ws) /\ Len(ws) \in Nat /\ DOMAIN ws = 1 .. Len(ws) /\ ws \in WordSeqs
  BY SpotType, DocumentType, LineType
<1>2. CASE ws = <<>>
  BY <1>2 DEF MarksAt
<1>3. CASE ws # <<>>
  <2>1. Len(ws) # 0
    BY <1>1, <1>3 DEF WordSeqs
  <2>2. n \in DOMAIN ws
    <3>1. n \in {s.o, 1} /\ n >= s.o /\ n >= 1
      BY <1>1, OfTwo
    <3> HIDE DEF n
    <3> QED BY <3>1, <2>1, <1>1
  <2>3. ws[n].marks \in SUBSET Marks
    BY <1>1, <2>2, WordMarks
  <2>4. d[s.i].kind = "code" => ws[n].marks = {}
    BY <1>1, <2>2, DocumentType DEF Plain
  <2> QED BY <1>3, <2>3, <2>4 DEF MarksAt
<1> QED BY <1>2, <1>3

\* A word put in at a cursor, and the cursor after it.
LEMMA PutWordType ==
    ASSUME NEW d \in Documents, NEW s \in Spots(d), ~s.all, NEW w \in Words \cup {Slash, Url}, NEW e,
           e = PutWord(d, s, Word(w, MarksAt(d, s)))
    PROVE  /\ e \in Documents /\ ViewsOf(e) \subseteq ViewsOf(d)
           /\ [s EXCEPT !.o = @ + 1] \in Spots(e) /\ ~[s EXCEPT !.o = @ + 1].all
<1> DEFINE R == [id : Words \cup {Slash, Url}, marks : SUBSET Marks]
           x == Word(w, MarksAt(d, s))
           ws == InsertAt(d[s.i].words, s.o + 1, x)
<1>0. PICK l \in DOMAIN d : l = s.i
  BY SpotType
<1>1. l \in DOMAIN d /\ IsText(d[l]) /\ s \in Spans /\ s.j = l /\ s.o \in Nat /\ s.o <= Len(d[l].words) /\ l \in Nat
  BY <1>0, SpotType
<1>2. d[l].words \in Seq(R) /\ Len(d[l].words) \in Nat /\ DOMAIN d[l].words = 1 .. Len(d[l].words)
  BY <1>1, DocumentType, LineType DEF WordSeqs
<1>3. x \in R /\ x.marks = MarksAt(d, s)
  BY <1>0, MarksAtType DEF Word
<1> HIDE DEF x
<1>4. s.o \in 0 .. Len(d[l].words)
  BY <1>1, <1>2
<1>5. ws \in Seq(R) /\ Len(ws) = Len(d[l].words) + 1
  <2> HIDE DEF R
  <2>1. ws \in Seq(R)
    BY <1>0, <1>2, <1>3, <1>4, InsertAtIs
  <2>2. Len(ws) = Len(d[l].words) + 1
    BY <1>0, <1>2, <1>3, <1>4, InsertAtIs
  <2> QED BY <2>1, <2>2
<1>6. ASSUME d[l].kind = "code" PROVE \A n \in DOMAIN ws : ws[n].marks = {}
  <2> DEFINE Q == {r \in R : r.marks = {}}
  <2>1. \A n \in DOMAIN d[l].words : d[l].words[n] \in Q
    <3>1. \A n \in DOMAIN d[l].words : d[l].words[n].marks = {}
      BY <1>1, <1>6, DocumentType DEF Plain
    <3>2. \A n \in DOMAIN d[l].words : d[l].words[n] \in R
      <4> HIDE DEF R
      <4> QED BY <1>2
    <3> QED BY <3>1, <3>2
  <2>2. d[l].words \in Seq(Q) /\ x \in Q
    <3>1. x \in Q
      BY <1>0, <1>3, <1>6, MarksAtType
    <3> HIDE DEF Q, R
    <3>2. d[l].words \in Seq(Q)
      BY <2>1, <1>2
    <3> QED BY <3>1, <3>2
  <2> HIDE DEF R
  <2>3. ws \in Seq(Q)
    <3> HIDE DEF Q
    <3> QED BY <1>0, <2>2, <1>4, InsertAtIs
  <2>4. \A n \in DOMAIN ws : ws[n] \in Q
    <3> HIDE DEF Q, ws
    <3> QED BY <2>3
  <2> QED BY <2>4
<1>7. ws \in WordSeqs
  BY <1>5 DEF WordSeqs
<1>8. e = Rewritten(d, l, ws)
  BY <1>0 DEF PutWord, Rewritten, x
<1> HIDE DEF ws
<1>9. Reworked(d, e) /\ e[l].words = ws /\ IsText(e[l])
  <2>1. Reworked(d, e)
    BY <1>1, <1>6, <1>7, <1>8, RewrittenType
  <2>2. e[l].words = ws
    BY <1>1, <1>6, <1>7, <1>8, RewrittenType
  <2>3. e[l].kind = d[l].kind
    BY <1>1, <1>6, <1>7, <1>8, RewrittenType
  <2> QED BY <2>1, <2>2, <2>3, <1>1 DEF IsText
<1> DEFINE t == [s EXCEPT !.o = @ + 1]
<1>10. t \in Spans /\ t.i = l /\ t.j = l /\ t.o = s.o + 1 /\ ~t.all
  BY <1>0, <1>1 DEF Spans
<1> HIDE DEF t
<1>11. t.i \in DOMAIN e /\ t.j \in t.i .. Len(e) /\ t.o <= Len(e[l].words) /\ ~(t.i < t.j)
  BY <1>1, <1>2, <1>5, <1>9, <1>10, DocumentType DEF Reworked
<1>12. t \in Spots(e)
  BY <1>9, <1>10, <1>11 DEF Spots
<1> QED BY <1>9, <1>10, <1>12 DEF t, Reworked

\* From line a of one document and line b of the other on, the lines are as long.
LEMMA StartShift ==
    ASSUME NEW d \in Seq(Lines), NEW e \in Seq(Lines), NEW a \in Nat, NEW b \in Nat, a >= 1, b >= 1,
           a <= Len(d) + 1, Len(d) + b = Len(e) + a,
           \A n \in Nat : a + n <= Len(d) => Len(e[b + n].words) = Len(d[a + n].words)
    PROVE  Total(d) + Start(e, b) = Total(e) + Start(d, a)
<1>m. PICK m \in Nat : Len(d) + 1 = a + m /\ Len(e) + 1 = b + m
  <2>1. ASSUME NEW x \in Nat, NEW y \in Nat, a <= x + 1, x + b = y + a
        PROVE  x + 1 - a \in Nat /\ x + 1 = a + (x + 1 - a) /\ y + 1 = b + (x + 1 - a)
    BY <2>1
  <2>2. Len(d) \in Nat /\ Len(e) \in Nat
    OBVIOUS
  <2>3. Len(d) + 1 - a \in Nat /\ Len(d) + 1 = a + (Len(d) + 1 - a) /\ Len(e) + 1 = b + (Len(d) + 1 - a)
    BY <2>1, <2>2
  <2> QED BY <2>3
<1> DEFINE P == {n \in Nat : n <= m => Start(d, a + n) + Start(e, b) = Start(e, b + n) + Start(d, a)}
<1>0. Len(d) \in Nat /\ Len(e) \in Nat /\ a \in 1 .. Len(d) + 1 /\ b \in 1 .. Len(e) + 1
  BY <1>m
<1>1. Start(d, a) \in Nat /\ Start(e, b) \in Nat
  BY <1>0, StartType
<1>2. 0 \in P
  <2>1. a + 0 = a /\ b + 0 = b
    OBVIOUS
  <2>2. Start(d, a + 0) + Start(e, b) = Start(e, b + 0) + Start(d, a)
    BY <2>1, <1>1
  <2> QED BY <2>2
<1>3. ASSUME NEW n \in P PROVE n + 1 \in P
  <2>1. CASE n + 1 <= m
    <3>1. PICK x \in DOMAIN d : x = a + n
      BY <2>1, <1>0, <1>m
    <3>2. PICK y \in DOMAIN e : y = b + n
      BY <2>1, <1>0, <1>m
    <3>3. n \in Nat /\ n < m /\ a + n <= Len(d) /\ x + 1 = a + (n + 1) /\ y + 1 = b + (n + 1) /\ x \in 1 .. Len(d) + 1 /\ y \in 1 .. Len(e) + 1
      BY <2>1, <3>1, <3>2, <1>0, <1>m
    <3>4. Len(e[y].words) = Len(d[x].words)
      BY <3>1, <3>2, <3>3
    <3>5. Start(d, x) + Start(e, b) = Start(e, y) + Start(d, a)
      BY <3>1, <3>2, <3>3
    <3>6. /\ Start(d, x + 1) = Start(d, x) + Len(d[x].words) + 1 /\ Start(d, x) \in Nat /\ Len(d[x].words) \in Nat
          /\ Start(e, y + 1) = Start(e, y) + Len(e[y].words) + 1 /\ Start(e, y) \in Nat
      BY <3>3, StartType, RowLength
    <3>7. Start(d, x + 1) + Start(e, b) = Start(e, y + 1) + Start(d, a)
      <4>1. PICK p \in Nat, q \in Nat, r \in Nat, t \in Nat, z \in Nat :
                p = Start(d, x) /\ q = Start(e, y) /\ r = Start(e, b) /\ t = Start(d, a) /\ z = Len(d[x].words)
        BY <3>6, <1>1
      <4>2. p + r = q + t /\ Start(d, x + 1) = p + z + 1 /\ Start(e, y + 1) = q + z + 1
        BY <4>1, <3>4, <3>5, <3>6
      <4>3. (p + z + 1) + r = (q + z + 1) + t
        BY <4>2
      <4> QED BY <4>1, <4>2, <4>3
    <3>8. Start(d, a + (n + 1)) + Start(e, b) = Start(e, b + (n + 1)) + Start(d, a)
      BY <3>3, <3>7
    <3> QED BY <3>8, <3>3
  <2> QED BY <2>1
<1>4. \A n \in Nat : n \in P
  <2>1. P \in SUBSET Nat
    OBVIOUS
  <2> HIDE DEF P
  <2> QED BY <1>2, <1>3, <2>1, Induct
<1>5. Start(d, a + m) + Start(e, b) = Start(e, b + m) + Start(d, a)
  <2>1. m \in P /\ m <= m
    BY <1>4
  <2> QED BY <2>1
<1>6. Start(d, Len(d) + 1) + Start(e, b) = Start(e, Len(e) + 1) + Start(d, a)
  BY <1>5, <1>m
<1> QED BY <1>6 DEF Total

\* One line of a document gets shorter or longer.
LEMMA TotalOfLine ==
    ASSUME NEW d \in Documents, NEW e \in Documents, Len(e) = Len(d), NEW l \in DOMAIN d,
           \A k \in DOMAIN d : k # l => Len(e[k].words) = Len(d[k].words)
    PROVE  /\ Total(d) + Len(e[l].words) = Total(e) + Len(d[l].words)
           /\ Start(e, l) = Start(d, l) /\ Start(d, l) \in Nat /\ Total(d) \in Nat /\ Total(e) \in Nat
<1>0. /\ d \in Seq(Lines) /\ e \in Seq(Lines) /\ Len(d) \in Nat /\ DOMAIN d = 1 .. Len(d) /\ DOMAIN e = DOMAIN d
      /\ l \in Nat /\ l >= 1 /\ l <= Len(d) /\ l \in 1 .. Len(d) + 1 /\ l \in DOMAIN e
  BY DocumentType
<1>1. Start(e, l) = Start(d, l)
  <2>1. \A k \in 1 .. l - 1 : k \in DOMAIN d /\ k # l
    BY <1>0
  <2>2. \A k \in 1 .. l - 1 : Len(e[k].words) = Len(d[k].words)
    BY <2>1
  <2> QED BY <2>2, <1>0, StartSame
<1>2. Total(d) + Start(e, l + 1) = Total(e) + Start(d, l + 1)
  <2>1. PICK a \in Nat : a = l + 1
    BY <1>0
  <2>2. a >= 1 /\ a <= Len(d) + 1 /\ Len(d) + a = Len(e) + a
    BY <2>1, <1>0
  <2>3. ASSUME NEW n \in Nat, a + n <= Len(d) PROVE Len(e[a + n].words) = Len(d[a + n].words)
    <3>1. PICK k \in DOMAIN d : k = a + n /\ k # l
      BY <2>1, <2>3, <1>0
    <3> QED BY <3>1
  <2>4. Total(d) + Start(e, a) = Total(e) + Start(d, a)
    BY <2>2, <2>3, <1>0, StartShift
  <2> QED BY <2>1, <2>4
<1>3. /\ Start(d, l) \in Nat /\ Start(d, l + 1) = Start(d, l) + Len(d[l].words) + 1 /\ Len(d[l].words) \in Nat
      /\ Start(e, l + 1) = Start(e, l) + Len(e[l].words) + 1 /\ Len(e[l].words) \in Nat
  BY <1>0, StartType, RowLength
<1>4. Total(d) \in Nat /\ Total(e) \in Nat
  <2>1. Len(d) + 1 \in 1 .. Len(d) + 1 /\ Len(d) + 1 \in 1 .. Len(e) + 1 /\ Len(e) + 1 = Len(d) + 1
    BY <1>0
  <2> QED BY <2>1, <1>0, StartType DEF Total
<1>5. Total(d) + Len(e[l].words) = Total(e) + Len(d[l].words)
  <2>1. PICK s \in Nat, x \in Nat, y \in Nat, p \in Nat, q \in Nat :
            s = Start(d, l) /\ x = Len(d[l].words) /\ y = Len(e[l].words) /\ p = Total(d) /\ q = Total(e)
    BY <1>3, <1>4
  <2>2. p + (s + y + 1) = q + (s + x + 1)
    BY <2>1, <1>1, <1>2, <1>3
  <2>3. p + y = q + x
    BY <2>2
  <2> QED BY <2>1, <2>3
<1> QED BY <1>1, <1>3, <1>4, <1>5

\* Line l is gone, and what followed it.
LEMMA TotalOfRemoved ==
    ASSUME NEW d \in Documents, NEW e \in Seq(Lines), NEW l \in DOMAIN d, Len(e) = Len(d) - 1,
           \A k \in 1 .. l - 1 : Len(e[k].words) = Len(d[k].words),
           \A k \in l .. Len(d) - 1 : Len(e[k].words) = Len(d[k + 1].words)
    PROVE  Total(d) = Total(e) + Len(d[l].words) + 1 /\ Total(d) \in Nat /\ Total(e) \in Nat
<1>0. /\ d \in Seq(Lines) /\ Len(d) \in Nat /\ DOMAIN d = 1 .. Len(d)
      /\ l \in Nat /\ l >= 1 /\ l <= Len(d) /\ l \in 1 .. Len(d) + 1 /\ l \in 1 .. Len(e) + 1 /\ Len(e) \in Nat
  BY DocumentType
<1>1. Start(e, l) = Start(d, l)
  BY <1>0, StartSame
<1>2. Total(d) + Start(e, l) = Total(e) + Start(d, l + 1)
  <2>1. PICK a \in Nat : a = l + 1
    BY <1>0
  <2>2. a >= 1 /\ a <= Len(d) + 1 /\ Len(d) + l = Len(e) + a
    BY <2>1, <1>0, SMTT(30)
  <2>3. ASSUME NEW n \in Nat, a + n <= Len(d) PROVE Len(e[l + n].words) = Len(d[a + n].words)
    <3>1. PICK k \in l .. Len(d) - 1 : k = l + n
      BY <2>1, <2>3, <1>0
    <3>2. k + 1 = a + n
      BY <2>1, <3>1, <1>0
    <3>3. Len(e[k].words) = Len(d[k + 1].words)
      OBVIOUS
    <3> QED BY <3>1, <3>2, <3>3
  <2>4. Total(d) + Start(e, l) = Total(e) + Start(d, a)
    BY <2>2, <2>3, <1>0, StartShift, ZenonT(40)
  <2> QED BY <2>1, <2>4
<1>3. /\ Start(d, l) \in Nat /\ Start(d, l + 1) = Start(d, l) + Len(d[l].words) + 1 /\ Len(d[l].words) \in Nat
  BY <1>0, StartType, RowLength
<1>4. Total(d) \in Nat /\ Total(e) \in Nat
  <2>1. Len(d) + 1 \in 1 .. Len(d) + 1 /\ Len(e) + 1 \in 1 .. Len(e) + 1
    BY <1>0
  <2> QED BY <2>1, <1>0, StartType DEF Total
<1>5. Total(d) = Total(e) + Len(d[l].words) + 1
  <2>1. PICK s \in Nat, x \in Nat, p \in Nat, q \in Nat :
            s = Start(d, l) /\ x = Len(d[l].words) /\ p = Total(d) /\ q = Total(e)
    BY <1>3, <1>4
  <2>2. p + s = q + (s + x + 1)
    BY <2>1, <1>1, <1>2, <1>3
  <2>3. p = q + x + 1
    BY <2>2
  <2> QED BY <2>1, <2>3
<1> QED BY <1>4, <1>5

\* Line l is removed; what followed it goes on with what was before it, if it goes on.
LEMMA RemovedType ==
    ASSUME NEW d \in Documents, Len(d) > 1, NEW l \in DOMAIN d,
           l + 1 \in DOMAIN d /\ d[l + 1].more => l > 1 /\ d[l + 1].kind = d[l - 1].kind,
           NEW e, e = RemoveAt(d, l)
    PROVE  /\ e \in Documents /\ Len(e) = Len(d) - 1 /\ ViewsOf(e) \subseteq ViewsOf(d)
           /\ \A k \in 1 .. l - 1 : e[k] = d[k]
           /\ \A k \in l .. Len(d) - 1 : e[k] = d[k + 1]
<1>0. /\ d \in Seq(Lines) /\ Len(d) \in Nat /\ DOMAIN d = 1 .. Len(d) /\ l \in 1 .. Len(d) /\ l \in Nat
  BY DocumentType
<1>1. e \in Seq(Lines) /\ Len(e) = Len(d) - 1 /\ DOMAIN e = 1 .. Len(d) - 1
  <2>1. e \in Seq(Lines)
    BY <1>0, RemoveAtIs
  <2>2. DOMAIN e = 1 .. Len(d) - 1
    BY <1>0, RemoveAtIs
  <2>3. Len(d) - 1 \in Nat
    BY <1>0
  <2>4. Len(e) = Len(d) - 1
    BY <2>1, <2>2, <2>3, LenOf
  <2> QED BY <2>1, <2>2, <2>4
<1>2. \A k \in 1 .. l - 1 : e[k] = d[k]
  BY <1>0, RemoveAtIs
<1>3. \A k \in l .. Len(d) - 1 : e[k] = d[k + 1]
  BY <1>0, RemoveAtIs
<1>4. ASSUME NEW k \in DOMAIN e
      PROVE \E x \in DOMAIN d : e[k] = d[x] /\ ((k < l /\ x = k) \/ (k >= l /\ x = k + 1))
  <2>1. CASE k < l
    <3>1. k \in 1 .. l - 1 /\ k \in DOMAIN d
      BY <2>1, <1>0, <1>1
    <3>2. e[k] = d[k]
      BY <3>1, <1>2
    <3>3. e[k] = d[k] /\ ((k < l /\ k = k) \/ (k >= l /\ k = k + 1))
      BY <2>1, <3>2
    <3> QED BY <3>1, <3>3, Zenon
  <2>2. CASE k >= l
    <3>1. k \in l .. Len(d) - 1
      BY <2>2, <1>0, <1>1
    <3>2. PICK x \in DOMAIN d : x = k + 1
      BY <3>1, <1>0, <1>1
    <3>3. e[k] = d[k + 1]
      BY <3>1, <1>3
    <3> QED BY <2>2, <3>2, <3>3
  <2> QED BY <2>1, <2>2, <1>0, <1>1
<1>5. GoesOn(e)
  <2> SUFFICES ASSUME NEW k \in DOMAIN e, e[k].more
               PROVE  k > 1 /\ e[k].kind = e[k - 1].kind /\ e[k].kind \in Lists \cup {"quote"}
    BY DEF GoesOn
  <2>1. PICK x \in DOMAIN d : e[k] = d[x] /\ ((k < l /\ x = k) \/ (k >= l /\ x = k + 1))
    BY <1>4
  <2>2. x > 1 /\ d[x].kind = d[x - 1].kind /\ d[x].kind \in Lists \cup {"quote"}
    BY <2>1, DocumentType DEF GoesOn
  <2>3. CASE k < l
    <3>1. x = k /\ k - 1 \in 1 .. l - 1
      BY <2>1, <2>2, <2>3, <1>0, <1>1
    <3>2. e[k - 1] = d[k - 1]
      BY <3>1, <1>2
    <3> QED BY <2>1, <2>2, <3>1, <3>2
  <2>4. CASE k = l
    <3>1. PICK c \in DOMAIN d : c = l + 1
      BY <2>1, <2>4, <1>0, <1>1
    <3>2. x = c /\ d[c].more
      BY <2>1, <2>4, <3>1, <1>0
    <3>3. l > 1 /\ d[c].kind = d[l - 1].kind
      BY <3>1, <3>2
    <3>4. l - 1 \in 1 .. l - 1
      BY <3>3, <1>0
    <3>5. e[l - 1] = d[l - 1]
      BY <3>4, <1>2
    <3> QED BY <2>1, <2>2, <2>4, <3>2, <3>3, <3>5
  <2>5. CASE k > l
    <3>0. x = k + 1 /\ k \in Nat /\ k <= Len(d) - 1 /\ k > 1
      BY <2>1, <2>5, <1>0, <1>1
    <3>1. PICK y \in l .. Len(d) - 1 : y = k - 1
      BY <3>0, <2>5, <1>0
    <3>a. y + 1 = x - 1
      BY <3>0, <3>1
    <3>2. e[y] = d[y + 1]
      BY <1>3
    <3> QED BY <2>1, <2>2, <3>0, <3>1, <3>a, <3>2
  <2> QED BY <2>3, <2>4, <2>5, <1>0, <1>1
<1>6. \A k \in DOMAIN e : Plain(e[k])
  BY <1>4, DocumentType
<1>7. OwnViews(e)
  <2> SUFFICES ASSUME NEW k \in DOMAIN e, NEW m \in DOMAIN e, e[k].kind = "upload", e[m].kind = "upload", e[k].ref = e[m].ref
               PROVE  k = m
    BY DEF OwnViews
  <2>1. PICK x \in DOMAIN d : e[k] = d[x] /\ ((k < l /\ x = k) \/ (k >= l /\ x = k + 1))
    BY <1>4
  <2>2. PICK y \in DOMAIN d : e[m] = d[y] /\ ((m < l /\ y = m) \/ (m >= l /\ y = m + 1))
    BY <1>4
  <2>3. x = y
    BY <2>1, <2>2, DocumentType DEF OwnViews
  <2> QED BY <2>1, <2>2, <2>3, <1>0, <1>1
<1>8. ViewsOf(e) \subseteq ViewsOf(d)
  BY <1>4 DEF ViewsOf
<1>9. e # <<>>
  <2>1. Len(e) # 0
    BY <1>0, <1>1
  <2> QED BY <2>1
<1> QED BY <1>1, <1>2, <1>3, <1>5, <1>6, <1>7, <1>8, <1>9 DEF Documents

\* One word of a line is deleted.
LEMMA CutWordType ==
    ASSUME NEW d \in Documents, NEW l \in DOMAIN d, NEW n \in 1 .. Len(d[l].words),
           NEW e, e = Rewritten(d, l, RemoveAt(d[l].words, n))
    PROVE  /\ Reworked(d, e) /\ e[l].kind = d[l].kind /\ Len(e[l].words) = Len(d[l].words) - 1
           /\ IsText(d[l]) /\ IsText(e[l]) /\ Total(d) = Total(e) + 1 /\ Total(e) \in Nat
<1> DEFINE R == [id : Words \cup {Slash, Url}, marks : SUBSET Marks]
           ws == RemoveAt(d[l].words, n)
<1>1. d[l].words \in Seq(R) /\ Len(d[l].words) \in Nat /\ DOMAIN d[l].words = 1 .. Len(d[l].words) /\ Plain(d[l])
  BY DocumentType, LineType DEF WordSeqs
<1>2. IsText(d[l])
  <2> SUFFICES ASSUME ~IsText(d[l]) PROVE FALSE
    OBVIOUS
  <2>1. d[l].words = <<>>
    BY <1>1 DEF Plain
  <2> QED BY <2>1, <1>1
<1> HIDE DEF R
<1>3. ws \in Seq(R)
  BY <1>1, RemoveAtIs
<1>4. Len(ws) = Len(d[l].words) - 1
  BY <1>1, RemoveAtIs
<1>5. ASSUME d[l].kind = "code" PROVE \A x \in DOMAIN ws : ws[x].marks = {}
  <2> DEFINE Q == {r \in R : r.marks = {}}
  <2>1. \A x \in DOMAIN d[l].words : d[l].words[x] \in R /\ d[l].words[x].marks = {}
    BY <1>1, <1>5 DEF Plain
  <2>2. \A x \in DOMAIN d[l].words : d[l].words[x] \in Q
    BY <2>1
  <2>3. d[l].words \in Seq(Q)
    <3> HIDE DEF Q
    <3> QED BY <2>2, <1>1
  <2>4. ws \in Seq(Q)
    <3> HIDE DEF Q
    <3> QED BY <2>3, RemoveAtIs
  <2>5. \A x \in DOMAIN ws : ws[x] \in Q
    <3> HIDE DEF Q, ws
    <3> QED BY <2>4
  <2> QED BY <2>5
<1>6. ws \in WordSeqs
  BY <1>3 DEF WordSeqs, R
<1>7. e = Rewritten(d, l, ws)
  OBVIOUS
<1> HIDE DEF ws
<1>8. Reworked(d, e) /\ e[l].words = ws /\ e[l].kind = d[l].kind /\ \A k \in DOMAIN d : k # l => e[k] = d[k]
  BY <1>2, <1>5, <1>6, <1>7, RewrittenType
<1>9. IsText(e[l])
  BY <1>2, <1>8 DEF IsText
<1>10. Total(d) + Len(e[l].words) = Total(e) + Len(d[l].words) /\ Total(d) \in Nat /\ Total(e) \in Nat
  <2>1. e \in Documents /\ Len(e) = Len(d) /\ \A k \in DOMAIN d : k # l => Len(e[k].words) = Len(d[k].words)
    BY <1>8 DEF Reworked
  <2> QED BY <2>1, TotalOfLine
<1>11. Total(d) = Total(e) + 1
  <2>1. PICK x \in Nat, p \in Nat, q \in Nat : x = Len(d[l].words) /\ p = Total(d) /\ q = Total(e)
    BY <1>1, <1>10
  <2>2. p + (x - 1) = q + x
    BY <2>1, <1>4, <1>8, <1>10
  <2> QED BY <2>1, <2>2
<1> QED BY <1>2, <1>4, <1>8, <1>9, <1>10, <1>11

\* A line may cease to go on.
Ended(d, c, b) == [d EXCEPT ![c].more = b]

\* A line that ceases to go on leaves a document.
LEMMA EndedType ==
    ASSUME NEW d \in Documents, NEW c \in DOMAIN d, NEW b \in BOOLEAN, b => d[c].more, NEW e, e = Ended(d, c, b)
    PROVE  /\ Reworked(d, e) /\ (e[c].more => b)
           /\ \A k \in DOMAIN d : e[k].kind = d[k].kind /\ e[k].words = d[k].words
<1> DEFINE new == [d[c] EXCEPT !.more = b]
<1>1. e = [k \in DOMAIN d |-> IF k = c THEN new ELSE d[k]]
  BY DEF Ended
<1>2. d[c] \in Lines /\ Plain(d[c])
  BY DocumentType
<1>3. new \in Lines /\ new.kind = d[c].kind /\ new.words = d[c].words /\ new.ref = d[c].ref /\ new.more = b /\ Plain(new)
  BY <1>2, MoreSet
<1> HIDE DEF new
<1>4. e = [k \in DOMAIN d |-> e[k]] /\ e[c] = new /\ \A k \in DOMAIN d : k # c => e[k] = d[k]
  BY <1>1
<1>5. \A k \in DOMAIN d : /\ e[k] \in Lines /\ Plain(e[k]) /\ e[k].kind = d[k].kind /\ e[k].ref = d[k].ref
                          /\ e[k].words = d[k].words
  <2> SUFFICES ASSUME NEW k \in DOMAIN d
               PROVE /\ e[k] \in Lines /\ Plain(e[k]) /\ e[k].kind = d[k].kind /\ e[k].ref = d[k].ref
                     /\ e[k].words = d[k].words
    OBVIOUS
  <2>1. CASE k = c
    BY <2>1, <1>3, <1>4, Zenon
  <2>2. CASE k # c
    BY <2>2, <1>4, DocumentType, Zenon
  <2> QED BY <2>1, <2>2
<1>6. \A k \in DOMAIN d : e[k].more => d[k].more
  <2> SUFFICES ASSUME NEW k \in DOMAIN d, e[k].more PROVE d[k].more
    OBVIOUS
  <2>1. CASE k = c
    BY <2>1, <1>3, <1>4
  <2>2. CASE k # c
    BY <2>2, <1>4
  <2> QED BY <2>1, <2>2
<1>7. GoesOn(e)
  <2> SUFFICES ASSUME NEW k \in DOMAIN d, e[k].more
               PROVE  k > 1 /\ e[k].kind = e[k - 1].kind /\ e[k].kind \in Lists \cup {"quote"}
    BY <1>4 DEF GoesOn
  <2>1. k > 1 /\ d[k].kind = d[k - 1].kind /\ d[k].kind \in Lists \cup {"quote"}
    BY <1>6, DocumentType DEF GoesOn
  <2>2. k - 1 \in DOMAIN d
    BY <2>1, DocumentType
  <2> QED BY <2>1, <2>2, <1>5
<1>8. Reworked(d, e)
  <2>1. \A k \in DOMAIN d : e[k].kind = "upload" => d[k].kind = "upload" /\ e[k].ref = d[k].ref
    BY <1>5
  <2> QED BY <2>1, <1>4, <1>5, <1>7, InPlace
<1> QED BY <1>3, <1>4, <1>5, <1>8

\* Two lines joined: the words of the one are appended to the other's, the line
\* after them goes on if both did, and the second is removed.
LEMMA JoinedType ==
    ASSUME NEW d \in Documents, NEW l \in DOMAIN d, NEW m \in DOMAIN d, m = l + 1, IsText(d[l]), IsText(d[m]),
           NEW j, j = Rewritten(d, l, d[l].words \o Fitting(d[l].kind, d[m].words)),
           NEW r, m + 1 \in DOMAIN d => r = Ended(j, m + 1, j[m + 1].more /\ d[m].more), m + 1 \notin DOMAIN d => r = j,
           NEW e, e = RemoveAt(r, m)
    PROVE  e \in Documents /\ ViewsOf(e) \subseteq ViewsOf(d) /\ Total(d) = Total(e) + 1 /\ Total(e) \in Nat
<1> DEFINE R == [id : Words \cup {Slash, Url}, marks : SUBSET Marks]
           fs == Fitting(d[l].kind, d[m].words)
           ws == d[l].words \o fs
<1>0. Len(d) \in Nat /\ DOMAIN d = 1 .. Len(d) /\ l \in Nat /\ l >= 1 /\ m \in Nat /\ m <= Len(d) /\ m > 1 /\ Len(d) > 1 /\ m # l
  BY DocumentType
<1>1. /\ d[l].words \in Seq(R) /\ Len(d[l].words) \in Nat /\ DOMAIN d[l].words = 1 .. Len(d[l].words)
      /\ Len(d[m].words) \in Nat /\ d[m].words \in WordSeqs
  BY DocumentType, LineType DEF WordSeqs
<1>2. fs \in Seq(R) /\ Len(fs) = Len(d[m].words) /\ (d[l].kind = "code" => \A n \in DOMAIN fs : fs[n].marks = {})
  <2>1. fs \in WordSeqs /\ Len(fs) = Len(d[m].words)
    BY <1>1, FittingType
  <2>2. d[l].kind = "code" => \A n \in DOMAIN fs : fs[n].marks = {}
    BY <1>1, FittingType
  <2> QED BY <2>1, <2>2 DEF WordSeqs
<1> HIDE DEF R, fs
<1>3. ws \in Seq(R) /\ Len(ws) = Len(d[l].words) + Len(d[m].words)
  <2>1. fs \in Seq(R) /\ Len(fs) \in Nat /\ d[l].words \in Seq(R) /\ Len(d[l].words) \in Nat
    BY <1>1, <1>2
  <2>2. ws \in Seq(R)
    BY <2>1, JoinType
  <2>3. Len(ws) = Len(d[l].words) + Len(fs)
    BY <2>1, JoinType
  <2> QED BY <2>2, <2>3, <1>2
<1>4. ASSUME d[l].kind = "code" PROVE \A x \in DOMAIN ws : ws[x].marks = {}
  <2> DEFINE Q == {u \in R : u.marks = {}}
  <2>1. \A x \in DOMAIN d[l].words : d[l].words[x] \in R /\ d[l].words[x].marks = {}
    BY <1>1, <1>4, DocumentType DEF Plain
  <2>2. \A x \in DOMAIN fs : fs[x] \in R /\ fs[x].marks = {}
    BY <1>2, <1>4
  <2>3. (\A x \in DOMAIN d[l].words : d[l].words[x] \in Q) /\ (\A x \in DOMAIN fs : fs[x] \in Q)
    BY <2>1, <2>2
  <2> HIDE DEF Q
  <2>4. d[l].words \in Seq(Q) /\ fs \in Seq(Q)
    BY <2>3, <1>1, <1>2
  <2>5. ws \in Seq(Q)
    BY <2>4, JoinType
  <2> HIDE DEF ws
  <2>6. \A x \in DOMAIN ws : ws[x] \in Q
    BY <2>5
  <2> QED BY <2>6 DEF Q
<1>5. ws \in WordSeqs
  BY <1>3 DEF WordSeqs, R
<1>6. j = Rewritten(d, l, ws)
  BY DEF fs
<1> HIDE DEF ws
<1>7. Reworked(d, j) /\ j[l].words = ws /\ j[l].kind = d[l].kind /\ \A k \in DOMAIN d : k # l => j[k] = d[k]
  BY <1>4, <1>5, <1>6, RewrittenType
<1>8. j \in Documents /\ DOMAIN j = DOMAIN d /\ Len(j) = Len(d) /\ ViewsOf(j) \subseteq ViewsOf(d)
  BY <1>7 DEF Reworked
\* The line after them.
<1>9. /\ Reworked(j, r) /\ (\A k \in DOMAIN d : r[k].kind = j[k].kind /\ r[k].words = j[k].words)
      /\ \A k \in DOMAIN d : k = m + 1 /\ r[k].more => d[k].more /\ d[m].more
  <2>1. CASE m + 1 \notin DOMAIN d
    <3>1. r = j
      BY <2>1
    <3> QED BY <2>1, <3>1, <1>8, ReworkedSame
  <2>2. CASE m + 1 \in DOMAIN d
    <3>1. PICK c \in DOMAIN d : c = m + 1
      BY <2>2
    <3>2. j[c] \in Lines /\ Plain(j[c]) /\ j[c] = d[c] /\ d[m].more \in BOOLEAN /\ j[c].more \in BOOLEAN
      <4>1. c # l
        BY <3>1, <1>0
      <4> QED BY <4>1, <1>7, <1>8, DocumentType, LineType
    <3> DEFINE b == j[c].more /\ d[m].more
    <3>3. b \in BOOLEAN /\ (b => j[c].more) /\ (b => d[c].more /\ d[m].more)
      BY <3>2
    <3>4. r = Ended(j, c, b)
      BY <3>1
    <3> HIDE DEF b
    <3>5. c \in DOMAIN j
      BY <1>8
    <3>6. Reworked(j, r) /\ (r[c].more => b) /\ \A k \in DOMAIN j : r[k].kind = j[k].kind /\ r[k].words = j[k].words
      <4>1. j \in Documents /\ b \in BOOLEAN /\ (b => j[c].more)
        BY <3>3, <1>8
      <4>2. Reworked(j, r)
        BY <4>1, <3>4, <3>5, EndedType
      <4>3. r[c].more => b
        BY <4>1, <3>4, <3>5, EndedType
      <4>4. \A k \in DOMAIN j : r[k].kind = j[k].kind /\ r[k].words = j[k].words
        BY <4>1, <3>4, <3>5, EndedType
      <4> QED BY <4>2, <4>3, <4>4
    <3>7. \A k \in DOMAIN d : k = m + 1 /\ r[k].more => d[k].more /\ d[m].more
      BY <3>1, <3>3, <3>6
    <3> QED BY <3>6, <3>7, <1>8
  <2> QED BY <2>1, <2>2
<1>10. r \in Documents /\ DOMAIN r = DOMAIN d /\ Len(r) = Len(d) /\ ViewsOf(r) \subseteq ViewsOf(d)
  BY <1>8, <1>9 DEF Reworked
<1>11. m + 1 \in DOMAIN r /\ r[m + 1].more => m > 1 /\ r[m + 1].kind = r[m - 1].kind
  <2> SUFFICES ASSUME m + 1 \in DOMAIN r, r[m + 1].more PROVE r[m + 1].kind = r[m - 1].kind
    BY <1>0
  <2>0. m + 1 \in DOMAIN d /\ m + 1 - 1 = m /\ m + 1 # l
    <3>1. m + 1 \in DOMAIN d
      BY <1>10
    <3>2. m + 1 - 1 = m /\ m + 1 # l
      BY <1>0
    <3> QED BY <3>1, <3>2
  <2> DEFINE c == m + 1
  <2>1. c \in DOMAIN d /\ c = m + 1 /\ c - 1 = m /\ c # l
    BY <2>0, <1>0
  <2> HIDE DEF c
  <2>2. d[c].more /\ d[m].more
    BY <2>1, <1>9
  <2>3. d[c].kind = d[m].kind /\ d[m].kind = d[m - 1].kind
    BY <2>1, <2>2, DocumentType DEF GoesOn
  <2>4. m - 1 = l
    BY <1>0
  <2>5. r[c].kind = d[c].kind /\ r[l].kind = d[l].kind
    <3>1. r[c].kind = j[c].kind /\ r[l].kind = j[l].kind
      BY <2>1, <1>9
    <3>2. j[c] = d[c]
      BY <2>1, <1>7
    <3> QED BY <3>1, <3>2, <1>7
  <2> QED BY <2>1, <2>3, <2>4, <2>5
<1>12. /\ e \in Documents /\ Len(e) = Len(r) - 1 /\ ViewsOf(e) \subseteq ViewsOf(r)
       /\ (\A k \in 1 .. m - 1 : e[k] = r[k]) /\ \A k \in m .. Len(r) - 1 : e[k] = r[k + 1]
  <2>1. Len(r) > 1 /\ m \in DOMAIN r
    BY <1>10, <1>0
  <2> QED BY <2>1, <1>10, <1>11, RemovedType, ZenonT(40)
<1>13. Total(r) = Total(e) + Len(r[m].words) + 1 /\ Total(r) \in Nat /\ Total(e) \in Nat
  <2>1. e \in Seq(Lines) /\ m \in DOMAIN r
    BY <1>12, <1>10, DocumentType
  <2>2. (\A k \in 1 .. m - 1 : Len(e[k].words) = Len(r[k].words)) /\ \A k \in m .. Len(r) - 1 : Len(e[k].words) = Len(r[k + 1].words)
    BY <1>12
  <2>3. r \in Documents /\ Len(e) = Len(r) - 1
    BY <1>10, <1>12
  <2> QED BY <2>1, <2>2, <2>3, TotalOfRemoved
<1>14. Total(d) + Len(r[l].words) = Total(r) + Len(d[l].words) /\ Total(d) \in Nat
  <2>1. \A k \in DOMAIN d : k # l => Len(r[k].words) = Len(d[k].words)
    BY <1>7, <1>9
  <2> QED BY <2>1, <1>10, TotalOfLine
<1>15. Len(r[l].words) = Len(d[l].words) + Len(d[m].words) /\ Len(r[m].words) = Len(d[m].words)
  BY <1>0, <1>3, <1>7, <1>9
<1>16. Total(d) = Total(e) + 1
  <2>1. PICK x \in Nat, y \in Nat, p \in Nat, q \in Nat, z \in Nat :
            x = Len(d[l].words) /\ y = Len(d[m].words) /\ p = Total(d) /\ q = Total(r) /\ z = Total(e)
    BY <1>1, <1>13, <1>14
  <2>2. p + (x + y) = q + x /\ q = z + y + 1
    BY <2>1, <1>13, <1>14, <1>15
  <2>3. p = z + 1
    BY <2>2
  <2> QED BY <2>1, <2>3
<1> QED BY <1>10, <1>12, <1>13, <1>16

\* The document that is left when all is deleted.
LEMMA EmptyType == <<Empty>> \in Documents /\ ViewsOf(<<Empty>>) = {}
<1> DEFINE e == <<Empty>>
<1>1. <<>> \in WordSeqs /\ "paragraph" \in TextKinds
  BY Kinds DEF WordSeqs
<1>2. Empty \in Lines /\ Empty.kind = "paragraph" /\ ~Empty.more /\ Empty.words = <<>> /\ IsText(Empty)
  BY <1>1, TextLineType DEF Empty
<1>3. Plain(Empty)
  BY <1>2 DEF Plain
<1>4. e \in Seq(Lines) /\ e # <<>> /\ DOMAIN e = {1} /\ e[1] = Empty
  BY <1>2
<1> HIDE DEF e
<1>5. GoesOn(e) /\ OwnViews(e) /\ ViewsOf(e) = {} /\ \A k \in DOMAIN e : Plain(e[k])
  BY <1>2, <1>3, <1>4 DEF GoesOn, OwnViews, ViewsOf
<1> QED BY <1>4, <1>5 DEF Documents, e

\* A document has a position.
LEMMA TotalType ==
    ASSUME NEW d \in Documents
    PROVE  /\ Total(d) \in Nat /\ Total(d) >= 1 /\ Start(d, 1) = 0
           /\ Total(d) = Start(d, Len(d)) + Len(d[Len(d)].words) + 1 /\ Start(d, Len(d)) \in Nat /\ Len(d[Len(d)].words) \in Nat
<1>1. d \in Seq(Lines) /\ Len(d) \in DOMAIN d /\ Len(d) \in 1 .. Len(d) + 1 /\ Len(d) + 1 \in 1 .. Len(d) + 1
  BY DocumentType
<1>2. /\ Start(d, Len(d) + 1) = Start(d, Len(d)) + Len(d[Len(d)].words) + 1
      /\ Start(d, Len(d)) \in Nat /\ Start(d, Len(d) + 1) \in Nat /\ Len(d[Len(d)].words) \in Nat
  BY <1>1, StartType, RowLength
<1> DEFINE x == Start(d, Len(d))
           y == Len(d[Len(d)].words)
<1>3. Total(d) = x + y + 1 /\ x \in Nat /\ y \in Nat /\ Total(d) \in Nat
  BY <1>2 DEF Total
<1> HIDE DEF x, y
<1>4. Total(d) >= 1
  BY <1>3
<1> QED BY <1>3, <1>4, StartFirst DEF x, y

\* Deleting one position, in a line or between two, leaves a document with no
\* new view, which is at most one position shorter.
LEMMA DeleteAtType ==
    ASSUME NEW d \in Documents, NEW p \in Nat, NEW e, e = DeleteAt(d, p)
    PROVE  e \in Documents /\ ViewsOf(e) \subseteq ViewsOf(d) /\ Total(d) <= Total(e) + 1 /\ Total(e) \in Nat /\ Total(d) \in Nat
<1>0. PICK l \in DOMAIN d : l = LineAt(d, p) /\ Start(d, l) \in Nat /\ Start(d, l) <= p
  <2>1. d \in Seq(Lines) /\ d # <<>>
    BY DocumentType
  <2> QED BY <2>1, LineAtType
<1>1. PICK o \in Nat : o = p - Start(d, l)
  BY <1>0
<1>2. Len(d) \in Nat /\ DOMAIN d = 1 .. Len(d) /\ l \in Nat /\ l >= 1 /\ l <= Len(d) /\ Total(d) \in Nat
  BY DocumentType, TotalType
<1>3. Len(d[l].words) \in Nat /\ DOMAIN d[l].words = 1 .. Len(d[l].words)
  BY DocumentType, LineType
<1> DEFINE j == [d EXCEPT ![l].words = @ \o Fitting(d[l].kind, d[l + 1].words)]
           r == IF l + 2 \in DOMAIN d THEN [j EXCEPT ![l + 2].more = @ /\ d[l + 1].more] ELSE j
<1>4. e = IF o < Len(d[l].words) THEN [d EXCEPT ![l].words = RemoveAt(@, o + 1)]
          ELSE IF ~IsText(d[l]) THEN (IF Len(d) = 1 THEN <<Empty>> ELSE RemoveAt(d, l))
          ELSE IF l = Len(d) \/ ~IsText(d[l + 1]) THEN d ELSE RemoveAt(r, l + 1)
  BY <1>0, <1>1 DEF DeleteAt
<1>5. CASE o < Len(d[l].words)
  <2>1. e = Rewritten(d, l, RemoveAt(d[l].words, o + 1))
    BY <1>4, <1>5 DEF Rewritten
  <2>2. PICK n \in 1 .. Len(d[l].words) : n = o + 1
    BY <1>3, <1>5
  <2> HIDE DEF j, r
  <2>3. e = Rewritten(d, l, RemoveAt(d[l].words, n))
    BY <2>1, <2>2
  <2>4. Reworked(d, e) /\ Total(d) = Total(e) + 1 /\ Total(e) \in Nat
    BY <2>3, CutWordType
  <2> QED BY <2>4, <1>2 DEF Reworked
<1>6. CASE ~(o < Len(d[l].words)) /\ ~IsText(d[l]) /\ Len(d) = 1
  <2>1. e = <<Empty>>
    BY <1>4, <1>6
  <2>2. e \in Documents /\ ViewsOf(e) = {}
    BY <2>1, EmptyType
  <2>3. Total(e) \in Nat
    BY <2>2, TotalType
  <2>4. d[Len(d)].words = <<>> /\ Start(d, Len(d)) = 0
    <3>1. l = Len(d) /\ Len(d) = 1
      BY <1>2, <1>6
    <3>2. d[l].words = <<>>
      BY <1>6, DocumentType DEF Plain
    <3>3. Start(d, 1) = 0
      BY TotalType
    <3> QED BY <3>1, <3>2, <3>3
  <2>5. Total(d) = 0 + 0 + 1
    <3>1. Total(d) = Start(d, Len(d)) + Len(d[Len(d)].words) + 1
      BY TotalType
    <3>2. Len(<<>>) = 0
      OBVIOUS
    <3> QED BY <3>1, <3>2, <2>4
  <2> QED BY <2>2, <2>3, <2>5
<1>7. CASE ~(o < Len(d[l].words)) /\ ~IsText(d[l]) /\ Len(d) # 1
  <2>1. e = RemoveAt(d, l)
    BY <1>4, <1>7
  <2>2. Len(d) > 1 /\ d[l].words = <<>>
    BY <1>2, <1>7, DocumentType DEF Plain
  <2>3. ASSUME l + 1 \in DOMAIN d, d[l + 1].more PROVE FALSE
    <3>1. PICK c \in DOMAIN d : c = l + 1 /\ c - 1 = l
      BY <2>3, <1>2
    <3>2. d[c].kind = d[l].kind /\ d[c].kind \in Lists \cup {"quote"}
      BY <3>1, <2>3, DocumentType DEF GoesOn
    <3> QED BY <3>2, <1>7, Kinds DEF IsText
  <2> HIDE DEF j, r
  <2>4. /\ e \in Documents /\ Len(e) = Len(d) - 1 /\ ViewsOf(e) \subseteq ViewsOf(d)
        /\ (\A k \in 1 .. l - 1 : e[k] = d[k]) /\ \A k \in l .. Len(d) - 1 : e[k] = d[k + 1]
    BY <2>1, <2>2, <2>3, RemovedType
  <2>5. Total(d) = Total(e) + Len(d[l].words) + 1 /\ Total(e) \in Nat
    <3>1. e \in Seq(Lines)
      BY <2>4, DocumentType
    <3>2. (\A k \in 1 .. l - 1 : Len(e[k].words) = Len(d[k].words)) /\ \A k \in l .. Len(d) - 1 : Len(e[k].words) = Len(d[k + 1].words)
      BY <2>4
    <3> QED BY <2>4, <3>1, <3>2, TotalOfRemoved
  <2>6. Total(d) = Total(e) + 1
    BY <2>2, <2>5
  <2> QED BY <2>4, <2>5, <2>6, <1>2
<1>8. CASE ~(o < Len(d[l].words)) /\ IsText(d[l]) /\ (l = Len(d) \/ ~IsText(d[l + 1]))
  <2>1. e = d
    BY <1>4, <1>8
  <2> QED BY <2>1, <1>2
<1>9. CASE ~(o < Len(d[l].words)) /\ IsText(d[l]) /\ ~(l = Len(d) \/ ~IsText(d[l + 1]))
  <2>1. e = RemoveAt(r, l + 1)
    BY <1>4, <1>9
  <2>2. PICK m \in DOMAIN d : m = l + 1 /\ m + 1 = l + 2
    BY <1>2, <1>9
  <2>3. j = Rewritten(d, l, d[l].words \o Fitting(d[l].kind, d[m].words))
    BY <2>2 DEF Rewritten
  <2>4. m + 1 \in DOMAIN d => r = Ended(j, m + 1, j[m + 1].more /\ d[m].more)
    <3> HIDE DEF j
    <3> QED BY <2>2 DEF Ended
  <2>5. m + 1 \notin DOMAIN d => r = j
    BY <2>2
  <2> HIDE DEF j, r
  <2>6. e = RemoveAt(r, m) /\ IsText(d[m])
    BY <2>1, <2>2, <1>9
  <2>7. e \in Documents /\ ViewsOf(e) \subseteq ViewsOf(d) /\ Total(d) = Total(e) + 1 /\ Total(e) \in Nat
    BY <2>2, <2>3, <2>4, <2>5, <2>6, <1>9, JoinedType
  <2> QED BY <2>7, <1>2
<1> HIDE DEF j, r
<1> QED BY <1>5, <1>6, <1>7, <1>8, <1>9

\* What is at a position before the end: a cursor, or an atom.
LEMMA AtType ==
    ASSUME NEW d \in Documents, NEW p \in Nat, p < Total(d)
    PROVE  At(d, p) \in Spots(d)
<1>0. PICK l \in DOMAIN d : /\ l = LineAt(d, p) /\ Start(d, l) \in Nat /\ Start(d, l) <= p
                            /\ \A k \in DOMAIN d : Start(d, k) <= p => k <= l
  <2>1. d \in Seq(Lines) /\ d # <<>>
    BY DocumentType
  <2> QED BY <2>1, LineAtType
<1>1. PICK o \in Nat : o = p - Start(d, l)
  BY <1>0
<1>2. d \in Seq(Lines) /\ Len(d) \in Nat /\ DOMAIN d = 1 .. Len(d) /\ l \in Nat /\ l >= 1 /\ l <= Len(d) /\ Len(d[l].words) \in Nat
  BY DocumentType, LineType
<1>3. p < Start(d, l) + Len(d[l].words) + 1
  <2>1. CASE l = Len(d)
    BY <2>1, TotalType
  <2>2. CASE l # Len(d)
    <3>1. PICK c \in DOMAIN d : c = l + 1
      BY <2>2, <1>2
    <3>2. ~(Start(d, c) <= p)
      BY <3>1, <1>0, <1>2
    <3>3. Start(d, c) = Start(d, l) + Len(d[l].words) + 1
      BY <3>1, <1>2, StartType
    <3>4. Start(d, c) \in Nat
      <4>1. c \in 1 .. Len(d) + 1
        BY <1>2
      <4> QED BY <4>1, <1>2, StartType
    <3>5. p < Start(d, c)
      BY <3>2, <3>4
    <3> QED BY <3>3, <3>5
  <2> QED BY <2>1, <2>2
<1>4. o <= Len(d[l].words)
  <2>1. ASSUME NEW s \in Nat, NEW n \in Nat, p < s + n + 1 PROVE p - s <= n
    BY <2>1
  <2> QED BY <2>1, <1>0, <1>1, <1>2, <1>3
<1>5. At(d, p) = IF IsText(d[l]) THEN Cursor(l, o) ELSE Whole(l, l)
  BY <1>0, <1>1 DEF At
<1> QED BY <1>4, <1>5, CursorSpot, WholeLine

\* A spot is a position.
LEMMA SpotPosition ==
    ASSUME NEW d \in Documents, NEW s \in Spots(d), ~s.all
    PROVE  Start(d, s.i) + s.o \in Nat /\ Start(d, s.i) + s.o < Total(d)
<1>0. PICK l \in DOMAIN d : l = s.i
  BY SpotType
<1>1. d \in Seq(Lines) /\ Len(d) \in Nat /\ DOMAIN d = 1 .. Len(d) /\ l \in Nat /\ l >= 1 /\ l <= Len(d) /\ Len(d[l].words) \in Nat
  BY DocumentType, LineType
<1>2. s.o \in Nat /\ s.o <= Len(d[l].words)
  BY <1>0, SpotType
<1>3. Start(d, l) \in Nat
  <2>1. l \in 1 .. Len(d) + 1
    BY <1>1
  <2> QED BY <2>1, <1>1, StartType
<1>4. Start(d, l) + Len(d[l].words) + 1 <= Total(d)
  <2>1. CASE l = Len(d)
    BY <2>1, TotalType
  <2>2. CASE l # Len(d)
    <3>1. Start(d, l) + Len(d[l].words) + 1 <= Start(d, Len(d))
      <4>1. l < Len(d) /\ Len(d) \in DOMAIN d
        BY <2>2, <1>1
      <4> QED BY <4>1, <1>1, StartLater
    <3>2. Total(d) = Start(d, Len(d)) + Len(d[Len(d)].words) + 1 /\ Start(d, Len(d)) \in Nat /\ Len(d[Len(d)].words) \in Nat
      BY TotalType
    <3>3. ASSUME NEW a \in Nat, NEW b \in Nat, NEW c \in Nat, a <= b PROVE a <= b + c + 1
      BY <3>3
    <3>4. Start(d, l) + Len(d[l].words) + 1 \in Nat
      BY <1>1, <1>3
    <3> QED BY <3>1, <3>2, <3>3, <3>4
  <2> QED BY <2>1, <2>2
<1>5. Start(d, l) + s.o < Total(d)
  <2>1. PICK a \in Nat, b \in Nat, c \in Nat, t \in Nat : a = Start(d, l) /\ b = Len(d[l].words) /\ c = s.o /\ t = Total(d)
    BY <1>1, <1>2, <1>3, TotalType
  <2>2. a + b + 1 <= t /\ c <= b
    BY <2>1, <1>2, <1>4
  <2>3. a + c < t
    BY <2>2
  <2> QED BY <2>1, <2>3
<1> QED BY <1>0, <1>2, <1>3, <1>5

\* The cursor after a position before the last was deleted.
LEMMA MovedByType ==
    ASSUME NEW d \in Documents, NEW s \in Spots(d), ~s.all, NEW p \in Nat, p < Total(d) - 1
    PROVE  MovedBy(d, s, p) \in Spots(DeleteAt(d, p))
<1>1. PICK q \in Nat : q = Start(d, s.i) + s.o /\ q < Total(d)
  BY SpotPosition
<1> DEFINE e == DeleteAt(d, p)
           r == IF q > p THEN q - 1 ELSE q
<1>2. e \in Documents /\ Total(d) <= Total(e) + 1 /\ Total(e) \in Nat /\ Total(d) \in Nat
  BY DeleteAtType
<1>3. MovedBy(d, s, p) = At(e, r)
  BY <1>1 DEF MovedBy
<1> HIDE DEF e
<1>4. r \in Nat /\ r < Total(e)
  BY <1>1, <1>2
<1> HIDE DEF r
<1>5. At(e, r) \in Spots(e)
  BY <1>2, <1>4, AtType
<1> QED BY <1>3, <1>5 DEF e

---------------------------------------------------------------------------
(* Slash commands *)

\* The slash before the cursor is deleted, and the cursor goes back with it.
LEMMA SlashedType ==
    ASSUME NEW d \in Documents, NEW s \in Spots(d), ~s.all, s.o > 0, NEW e, e = DeleteAt(d, Here(d, s)),
           NEW t, t = [s EXCEPT !.o = @ - 1]
    PROVE  /\ Reworked(d, e) /\ t \in Spots(e) /\ ~t.all /\ t.i = s.i /\ t.j = s.i
           /\ s.i \in DOMAIN e /\ IsText(e[s.i]) /\ t.o \in Nat /\ t.o <= Len(e[s.i].words)
<1>0. PICK l \in DOMAIN d : l = s.i
  BY SpotType
<1>1. /\ d \in Seq(Lines) /\ s \in Spans /\ s.j = l /\ s.o \in Nat /\ s.o <= Len(d[l].words)
      /\ Len(d[l].words) \in Nat /\ DOMAIN d[l].words = 1 .. Len(d[l].words) /\ l \in Nat
  BY <1>0, SpotType, DocumentType, LineType
<1>2. PICK n \in 1 .. Len(d[l].words) : n = s.o
  BY <1>1
<1>3. PICK m \in 0 .. Len(d[l].words) : m = n - 1 /\ m + 1 = n /\ m < Len(d[l].words)
  BY <1>1, <1>2
<1>4. LineAt(d, Start(d, l) + m) = l /\ Start(d, l) + m \in Nat /\ Start(d, l) \in Nat
  BY <1>1, LineAtHere
<1>5. Here(d, s) = Start(d, l) + m /\ Start(d, l) + m - Start(d, l) = m
  <2>1. PICK x \in Nat : x = Start(d, l)
    BY <1>4
  <2>2. Here(d, s) = x + n - 1
    BY <1>0, <1>2, <2>1 DEF Here
  <2>3. x + n - 1 = x + m /\ x + m - x = m
    BY <1>1, <1>3
  <2> QED BY <2>1, <2>2, <2>3
<1>6. e = Rewritten(d, l, RemoveAt(d[l].words, n))
  <2>1. PICK p \in Nat : p = Start(d, l) + m
    BY <1>4
  <2>2. LineAt(d, p) = l /\ p - Start(d, l) = m /\ e = DeleteAt(d, p)
    BY <2>1, <1>4, <1>5
  <2>3. e = IF m < Len(d[l].words) THEN [d EXCEPT ![l].words = RemoveAt(@, m + 1)] ELSE e
    BY <2>2, <1>3 DEF DeleteAt
  <2>4. e = [d EXCEPT ![l].words = RemoveAt(@, m + 1)]
    BY <2>3, <1>3
  <2> QED BY <2>4, <1>3 DEF Rewritten
<1>7. Reworked(d, e) /\ Len(e[l].words) = Len(d[l].words) - 1 /\ IsText(e[l])
  <2>1. Reworked(d, e)
    BY <1>6, CutWordType
  <2>2. Len(e[l].words) = Len(d[l].words) - 1
    BY <1>6, CutWordType
  <2>3. IsText(e[l])
    BY <1>6, CutWordType
  <2> QED BY <2>1, <2>2, <2>3
<1>8. t \in Spans /\ t.i = l /\ t.j = l /\ t.o = m /\ ~t.all
  <2>1. s.o - 1 \in Nat /\ s.o - 1 = m
    BY <1>1, <1>2, <1>3
  <2> QED BY <2>1, <1>0, <1>1 DEF Spans
<1>9. t.i \in DOMAIN e /\ t.j \in t.i .. Len(e) /\ t.o <= Len(e[l].words) /\ ~(t.i < t.j)
  BY <1>1, <1>3, <1>7, <1>8, DocumentType DEF Reworked
<1>10. t \in Spots(e)
  BY <1>7, <1>8, <1>9 DEF Spots, Reworked
<1> QED BY <1>0, <1>3, <1>7, <1>8, <1>9, <1>10 DEF Reworked

\* The lines of a document are other texts of the same lengths.
Reshaped(d, e) ==
    Reworked(d, e) /\ \A k \in DOMAIN d : (IsText(d[k]) => IsText(e[k])) /\ Len(e[k].words) = Len(d[k].words)

LEMMA ReshapedAgain ==
    ASSUME NEW d, NEW e, NEW f, Reshaped(d, e), Reshaped(e, f) PROVE Reshaped(d, f)
<1>1. Reworked(d, f) /\ DOMAIN e = DOMAIN d
  BY ReworkedAgain DEF Reshaped, Reworked
<1> QED BY <1>1 DEF Reshaped

LEMMA ReshapedSame == ASSUME NEW d \in Documents PROVE Reshaped(d, d)
BY ReworkedSame DEF Reshaped

\* A cursor stays one when lines are reshaped.
LEMMA ReshapedSpot ==
    ASSUME NEW d \in Documents, NEW e, Reshaped(d, e), NEW s \in Spots(d), ~s.all PROVE s \in Spots(e)
<1>1. DOMAIN e = DOMAIN d /\ Len(e) = Len(d)
  BY DEF Reshaped, Reworked
<1>2. s \in Spans /\ s.i \in DOMAIN d /\ s.j \in s.i .. Len(d) /\ s.j = s.i /\ IsText(d[s.i]) /\ s.o <= Len(d[s.i].words) /\ s.i \in Nat
  BY SpotType DEF Spots
<1>3. IsText(e[s.i]) /\ Len(e[s.i].words) = Len(d[s.i].words) /\ ~(s.i < s.j)
  BY <1>2 DEF Reshaped
<1> QED BY <1>1, <1>2, <1>3 DEF Spots

LEMMA OneLine == ASSUME NEW d \in Documents, NEW l \in DOMAIN d PROVE l .. l = {l} /\ l \in Nat /\ l <= l /\ l + 1 - 1 = l
BY DocumentType

\* One line that is cleared can be toggled.
LEMMA ClearedLine ==
    ASSUME NEW d \in Documents, NEW l \in DOMAIN d, IsText(d[l]), NEW e, e = Cleared(d, {l})
    PROVE  Reshaped(d, e) /\ Closed(e, l, l)
<1>1. \A k \in {l} \cap DOMAIN d : IsText(d[k])
  OBVIOUS
<1>2. Reworked(d, e)
  BY <1>1, ClearedType
<1>3. \A k \in DOMAIN d : IsText(e[k]) = IsText(d[k])
  BY <1>1, ClearedType
<1>4. \A k \in DOMAIN d : k - 1 \in {l} => ~e[k].more
  BY <1>1, ClearedType
<1>5. \A k \in DOMAIN d : e[k].words = d[k].words
  BY <1>1, ClearedType
<1>6. ASSUME l + 1 \in DOMAIN d PROVE ~e[l + 1].more
  <2>1. PICK x \in DOMAIN d : x = l + 1 /\ x - 1 = l
    BY <1>6, OneLine
  <2> QED BY <2>1, <1>4
<1>7. DOMAIN e = DOMAIN d
  BY <1>2 DEF Reworked
<1>8. Reshaped(d, e)
  BY <1>2, <1>3, <1>5 DEF Reshaped
<1>9. Closed(e, l, l)
  <2>1. IsText(e[l])
    BY <1>3
  <2> QED BY <2>1, <1>6, <1>7, OneLine DEF Closed
<1> QED BY <1>8, <1>9

\* No list and no quote goes on after a paragraph, a heading or a code block.
LEMMA TopClosed ==
    ASSUME NEW d \in Documents, NEW l \in DOMAIN d, IsTop(d[l]) PROVE Closed(d, l, l)
<1>1. IsText(d[l])
  BY Kinds DEF IsText, IsTop
<1>2. ASSUME l + 1 \in DOMAIN d, d[l + 1].more PROVE FALSE
  <2>1. PICK c \in DOMAIN d : c = l + 1 /\ c - 1 = l
    BY <1>2, OneLine
  <2>2. d[c].kind = d[l].kind /\ d[c].kind \in Lists \cup {"quote"}
    BY <2>1, <1>2, DocumentType DEF GoesOn
  <2> QED BY <2>2, Kinds DEF IsTop
<1> QED BY <1>1, <1>2, OneLine DEF Closed

\* setNode, lists and quotes reshape.
LEMMA SetNodeReshapes ==
    ASSUME NEW d \in Documents, NEW a, NEW b, Closed(d, a, b), NEW kind \in {"paragraph", "code"} \cup Levels
    PROVE  Reshaped(d, SetNode(d, a .. b, kind))
BY SetNodeType DEF Reshaped
LEMMA WrapReshapes ==
    ASSUME NEW d \in Documents, NEW a, NEW b, Closed(d, a, b), NEW kind \in Lists \cup {"quote"}
    PROVE  Reshaped(d, Wrap(d, a .. b, kind))
BY WrapType DEF Reshaped

\* Every command on the line leaves the words of every line.
LEMMA BlockCommandType ==
    ASSUME NEW d \in Documents, NEW l \in DOMAIN d, IsText(d[l]), NEW kind \in Levels \cup {"code"}
    PROVE  Reshaped(d, BlockCommand(d, l, kind))
<1> DEFINE c == Cleared(d, {l})
<1>1. BlockCommand(d, l, kind) = IF d[l].kind = "quote" THEN d ELSE SetNode(IF d[l].kind \in Lists THEN c ELSE d, {l}, kind)
  BY DEF BlockCommand
<1>2. Reshaped(d, c) /\ Closed(c, l, l) /\ c \in Documents
  <2>1. Reshaped(d, c) /\ Closed(c, l, l)
    BY ClearedLine
  <2> QED BY <2>1 DEF Reshaped, Reworked
<1> HIDE DEF c
<1>3. CASE d[l].kind = "quote"
  BY <1>1, <1>3, ReshapedSame
<1>4. CASE d[l].kind \in Lists /\ d[l].kind # "quote"
  <2>1. Reshaped(c, SetNode(c, {l}, kind))
    <3>1. Reshaped(c, SetNode(c, l .. l, kind))
      BY <1>2, SetNodeReshapes
    <3> QED BY <3>1, OneLine
  <2>2. BlockCommand(d, l, kind) = SetNode(c, {l}, kind)
    BY <1>1, <1>4
  <2> QED BY <1>2, <2>1, <2>2, ReshapedAgain
<1>5. CASE d[l].kind \notin Lists /\ d[l].kind # "quote"
  <2>1. Closed(d, l, l)
    <3>1. IsTop(d[l])
      BY <1>5 DEF IsText, IsTop, TextKinds
    <3> QED BY <3>1, TopClosed
  <2>2. BlockCommand(d, l, kind) = SetNode(d, {l}, kind)
    BY <1>1, <1>5
  <2>3. Reshaped(d, SetNode(d, {l}, kind))
    BY <2>1, OneLine, SetNodeReshapes
  <2> QED BY <2>2, <2>3
<1> QED BY <1>3, <1>4, <1>5

LEMMA WrappedLine ==
    ASSUME NEW d \in Documents, NEW l \in DOMAIN d, Closed(d, l, l), NEW kind \in Lists
    PROVE  Reshaped(d, WrapInList(d, {l}, kind))
<1> DEFINE c == Cleared(d, {l})
<1>1. IsText(d[l])
  BY OneLine DEF Closed
<1>2. Reshaped(d, c) /\ Closed(c, l, l) /\ c \in Documents
  <2>1. Reshaped(d, c) /\ Closed(c, l, l)
    BY <1>1, ClearedLine
  <2> QED BY <2>1 DEF Reshaped, Reworked
<1>3. WrapInList(d, {l}, kind) = Wrap(IF d[Min({l})].kind = "paragraph" THEN d ELSE c, {l}, kind)
  BY DEF WrapInList
<1> HIDE DEF c
<1>4. Reshaped(c, Wrap(c, {l}, kind))
  <2>1. Reshaped(c, Wrap(c, l .. l, kind))
    BY <1>2, WrapReshapes
  <2> QED BY <2>1, OneLine
<1>5. Reshaped(d, Wrap(c, {l}, kind))
  BY <1>2, <1>4, ReshapedAgain
<1>6. Reshaped(d, Wrap(d, {l}, kind))
  BY OneLine, WrapReshapes
<1> QED BY <1>3, <1>5, <1>6

\* A list, and a quote, of the slash menu.
LEMMA ListCommandType ==
    ASSUME NEW d \in Documents, NEW l \in DOMAIN d, IsText(d[l]), NEW type \in Lists
    PROVE  Reshaped(d, ListCommand(d, l, type))
<1> DEFINE c == Cleared(d, {l})
           old == d[l].kind
           t == ListCommand(d, l, type)
           same == (old = "task") = (type = "task")
<1>1. t = IF old = "quote" THEN d ELSE IF old = type THEN c
          ELSE IF old \in Lists /\ same THEN Wrap(d, BlockOf(d, l), type)
          ELSE WrapInList(IF old \in Lists THEN c ELSE d, {l}, type)
  BY DEF ListCommand
<1>2. Reshaped(d, c) /\ Closed(c, l, l) /\ c \in Documents
  <2>1. Reshaped(d, c) /\ Closed(c, l, l)
    BY ClearedLine
  <2> QED BY <2>1 DEF Reshaped, Reworked
<1> SUFFICES Reshaped(d, t)
  OBVIOUS
<1> HIDE DEF c, t, same
<1>3. CASE t = d
  BY <1>3, ReshapedSame
<1>4. CASE t = c
  BY <1>2, <1>4
<1>5. CASE t = Wrap(d, BlockOf(d, l), type)
  <2>1. PICK a \in DOMAIN d, b \in DOMAIN d :
          /\ a <= l /\ l <= b /\ BlockOf(d, l) = a .. b
          /\ \A k \in a .. b : d[k].kind = d[l].kind
          /\ b + 1 \in DOMAIN d => ~d[b + 1].more
    BY BlockIs
  <2>2. \A k \in a .. b : IsText(d[k])
    BY <2>1 DEF IsText
  <2>3. a <= b
    BY <2>1, DocumentType
  <2>4. Closed(d, a, b)
    BY <2>1, <2>2, <2>3 DEF Closed
  <2>5. Reshaped(d, Wrap(d, a .. b, type))
    BY <2>4, WrapReshapes
  <2> QED BY <1>5, <2>1, <2>5, Zenon
<1>6. CASE old \in Lists /\ t = WrapInList(c, {l}, type)
  <2>1. l \in DOMAIN c
    BY <1>2 DEF Closed
  <2>2. Reshaped(c, WrapInList(c, {l}, type))
    BY <1>2, <2>1, WrappedLine
  <2> QED BY <1>2, <1>6, <2>2, ReshapedAgain
<1>7. CASE old \notin Lists /\ old # "quote" /\ t = WrapInList(d, {l}, type)
  <2>1. IsTop(d[l])
    BY <1>7 DEF IsText, IsTop, TextKinds
  <2>2. Closed(d, l, l)
    BY <2>1, TopClosed
  <2> QED BY <1>7, <2>2, WrappedLine
<1> HIDE DEF old
<1>8. t = d \/ t = c \/ t = Wrap(d, BlockOf(d, l), type) \/ (old \in Lists /\ t = WrapInList(c, {l}, type))
      \/ (old \notin Lists /\ old # "quote" /\ t = WrapInList(d, {l}, type))
  BY <1>1
<1> QED BY <1>3, <1>4, <1>5, <1>6, <1>7, <1>8 DEF old

LEMMA QuoteCommandType ==
    ASSUME NEW d \in Documents, NEW l \in DOMAIN d
    PROVE  Reshaped(d, QuoteCommand(d, l))
<1>1. CASE IsTop(d[l])
  <2>1. Reshaped(d, Wrap(d, {l}, "quote"))
    BY <1>1, TopClosed, OneLine, WrapReshapes
  <2> QED BY <1>1, <2>1 DEF QuoteCommand
<1>2. CASE ~IsTop(d[l])
  BY <1>2, ReshapedSame DEF QuoteCommand
<1> QED BY <1>1, <1>2

---------------------------------------------------------------------------
(* Lines put in *)

\* Lines that go on from nothing take the place of the lines a .. b.
Fresh(lines) ==
    /\ lines \in Seq(Lines) /\ Len(lines) >= 1 /\ OwnViews(lines)
    /\ \A k \in DOMAIN lines : Plain(lines[k]) /\ ~lines[k].more

\* Every line is an old one, of outside, or one of the new ones.
Mixed(d, e, a, b, lines) ==
    \A k \in DOMAIN e : (\E x \in DOMAIN d : (x < a \/ x > b) /\ e[k] = d[x]) \/ \E y \in DOMAIN lines : e[k] = lines[y]

\* New lines in place of whole blocks: the document has the lines it had outside
\* of these, and the new ones, with their views.
LEMMA SplicedType ==
    ASSUME NEW d \in Documents, NEW a \in Nat, NEW b \in Nat, a \in DOMAIN d, b \in DOMAIN d, a <= b, b + 1 \in DOMAIN d => ~d[b + 1].more,
           NEW lines, Fresh(lines), ViewsOf(lines) \cap ViewsOf(d) = {},
           NEW e, e = Splice(d, a, b, lines)
    PROVE  /\ e \in Documents /\ ViewsOf(e) \subseteq ViewsOf(d) \cup ViewsOf(lines)
           /\ Len(e) = Len(d) - (b + 1 - a) + Len(lines)
           /\ \A k \in a .. a - 1 + Len(lines) : k \in DOMAIN e /\ e[k] = lines[k - a + 1]
           /\ Mixed(d, e, a, b, lines)
<1>0. /\ d \in Seq(Lines) /\ Len(d) \in Nat /\ DOMAIN d = 1 .. Len(d) /\ a \in Nat /\ b \in Nat
      /\ a >= 1 /\ a <= b + 1 /\ b <= Len(d)
  BY DocumentType
<1>1. /\ lines \in Seq(Lines) /\ Len(lines) \in Nat /\ Len(lines) >= 1 /\ DOMAIN lines = 1 .. Len(lines)
      /\ \A k \in DOMAIN lines : Plain(lines[k]) /\ ~lines[k].more
  BY DEF Fresh
<1>2. e \in Seq(Lines)
  BY <1>0, <1>1, SpliceIs
<1>3. DOMAIN e = 1 .. Len(d) - (b + 1 - a) + Len(lines)
  BY <1>0, <1>1, SpliceIs
<1>4. \A k \in 1 .. a - 1 : e[k] = d[k]
  BY <1>0, <1>1, SpliceIs
<1>5. \A k \in a .. a - 1 + Len(lines) : e[k] = lines[k - a + 1]
  <2>1. lines \in Seq(Lines) /\ Len(lines) \in Nat
    BY <1>1
  <2>2. ASSUME NEW k \in a .. a - 1 + Len(lines) PROVE Splice(d, a, b, lines)[k] = lines[k - a + 1]
    BY <1>0, <2>1, SpliceMiddle
  <2> QED BY <2>2
<1>6. \A k \in a + Len(lines) .. Len(e) : e[k] = d[k - (a + Len(lines)) + (b + 1)]
  BY <1>0, <1>1, SpliceIs
<1>c. PICK c \in Nat : c = a + Len(lines)
  BY <1>1
<1>n. PICK N \in Nat : N = Len(d) - (b + 1 - a) + Len(lines)
  <2>1. ASSUME NEW x \in Nat, NEW y \in Nat, b <= x PROVE x - (b + 1 - a) + y \in Nat
    BY <2>1, <1>0
  <2>2. Len(d) - (b + 1 - a) + Len(lines) \in Nat
    BY <2>1, <1>0, <1>1
  <2> QED BY <2>2
<1>7. c > a /\ N = Len(d) + c - (b + 1) /\ c <= N + 1 /\ a - 1 + Len(lines) = c - 1
  BY <1>0, <1>1, <1>c, <1>n
<1>8. DOMAIN e = 1 .. N
  BY <1>3, <1>n
<1>9. (\A k \in a .. c - 1 : e[k] = lines[k - a + 1]) /\ \A k \in c .. Len(e) : e[k] = d[k - c + (b + 1)]
  BY <1>5, <1>6, <1>7, <1>c
<1>10. Len(e) = N
  BY <1>2, <1>8, LenOf
\* Where a line comes from.
<1> DEFINE Old(k, x) == e[k] = d[x] /\ ((k < a /\ x = k) \/ (k >= c /\ x = k - c + (b + 1)))
           New(k, y) == e[k] = lines[y] /\ k >= a /\ k < c /\ y = k - a + 1
<1>11. ASSUME NEW k \in DOMAIN e
       PROVE  (\E x \in DOMAIN d : Old(k, x)) \/ \E y \in DOMAIN lines : New(k, y)
  <2>0. k \in Nat /\ k >= 1 /\ k <= N
    BY <1>7, <1>8
  <2>1. CASE k < a
    <3>1. k \in 1 .. a - 1 /\ k \in DOMAIN d
      BY <2>0, <2>1, <1>0
    <3>2. e[k] = d[k]
      BY <3>1, <1>4
    <3>3. Old(k, k)
      BY <2>1, <3>2
    <3> QED BY <3>1, <3>3
  <2>2. CASE k >= a /\ k < c
    <3>0. k \in a .. c - 1
      BY <2>0, <2>2, <1>0, <1>7
    <3>1. k - a + 1 \in DOMAIN lines
      <4>1. ASSUME NEW n \in Nat, k < a + n PROVE k - a + 1 \in 1 .. n
        BY <4>1, <2>0, <2>2, <1>0
      <4> QED BY <4>1, <1>1, <2>2, <1>c
    <3>2. New(k, k - a + 1)
      BY <2>2, <3>0, <3>1, <1>9
    <3> QED BY <3>1, <3>2
  <2>3. CASE k >= c
    <3>1. k \in c .. Len(e)
      BY <2>0, <2>3, <1>7, <1>10
    <3>2. k - c + (b + 1) \in DOMAIN d
      BY <2>0, <2>3, <1>0, <1>7
    <3>3. Old(k, k - c + (b + 1))
      BY <2>3, <3>1, <1>9
    <3> QED BY <3>2, <3>3
  <2> QED BY <2>0, <2>1, <2>2, <2>3, <1>0, <1>7
<1>12. GoesOn(e)
  <2> SUFFICES ASSUME NEW k \in DOMAIN e, e[k].more
               PROVE  k > 1 /\ e[k].kind = e[k - 1].kind /\ e[k].kind \in Lists \cup {"quote"}
    BY DEF GoesOn
  <2>0. k \in Nat /\ k >= 1 /\ k <= N
    BY <1>7, <1>8
  <2>1. PICK x \in DOMAIN d : Old(k, x)
    BY <1>1, <1>11
  <2>2. x \in Nat /\ x > 1 /\ d[x].more /\ d[x].kind = d[x - 1].kind /\ d[x].kind \in Lists \cup {"quote"}
    BY <2>1, DocumentType DEF GoesOn
  <2>3. CASE k < a /\ x = k
    <3>1. k - 1 \in 1 .. a - 1
      BY <2>0, <2>2, <2>3, <1>0
    <3>2. e[k - 1] = d[k - 1]
      BY <3>1, <1>4
    <3> QED BY <2>1, <2>2, <2>3, <3>2
  <2>4. CASE k = c /\ x = b + 1
    BY <2>2, <2>4
  <2>5. CASE k > c /\ x = k - c + (b + 1)
    <3>0. k - 1 \in c .. Len(e)
      BY <2>0, <2>5, <1>10
    <3>1. PICK y \in c .. Len(e) : y = k - 1
      BY <3>0
    <3>2. y - c + (b + 1) = x - 1 /\ k > 1
      <4>1. ASSUME NEW u \in Nat, NEW v \in Nat, NEW w \in Nat PROVE (u - 1) - v + (w + 1) = (u - v + (w + 1)) - 1
        OBVIOUS
      <4>2. (k - 1) - c + (b + 1) = (k - c + (b + 1)) - 1
        BY <4>1, <2>0, <1>0, <1>7
      <4>3. k > 1
        BY <2>0, <2>5, <1>0, <1>7
      <4> QED BY <4>2, <4>3, <3>1, <2>5
    <3>3. e[y] = d[y - c + (b + 1)]
      BY <1>9
    <3> QED BY <2>1, <2>2, <3>1, <3>2, <3>3
  <2>6. (k < a /\ x = k) \/ (k = c /\ x = b + 1) \/ (k > c /\ x = k - c + (b + 1))
    BY <2>0, <2>1, <1>0, <1>7
  <2> QED BY <2>3, <2>4, <2>5, <2>6
<1>13. \A k \in DOMAIN e : Plain(e[k])
  <2> SUFFICES ASSUME NEW k \in DOMAIN e PROVE Plain(e[k])
    OBVIOUS
  <2>1. (\E x \in DOMAIN d : e[k] = d[x]) \/ \E y \in DOMAIN lines : e[k] = lines[y]
    BY <1>11
  <2> QED BY <2>1, <1>1, DocumentType
<1>14. ViewsOf(e) \subseteq ViewsOf(d) \cup ViewsOf(lines)
  <2> SUFFICES ASSUME NEW k \in DOMAIN e, e[k].kind = "upload" PROVE e[k].ref \in ViewsOf(d) \cup ViewsOf(lines)
    BY DEF ViewsOf
  <2>1. (\E x \in DOMAIN d : e[k] = d[x]) \/ \E y \in DOMAIN lines : e[k] = lines[y]
    BY <1>11
  <2> QED BY <2>1 DEF ViewsOf
<1>15. OwnViews(e)
  <2> SUFFICES ASSUME NEW k \in DOMAIN e, NEW m \in DOMAIN e, e[k].kind = "upload", e[m].kind = "upload", e[k].ref = e[m].ref
               PROVE  k = m
    BY DEF OwnViews
  <2>0. k \in Nat /\ m \in Nat
    BY <1>8
  <2>1. CASE \E x, y \in DOMAIN d : Old(k, x) /\ Old(m, y)
    <3>1. PICK x \in DOMAIN d, y \in DOMAIN d : Old(k, x) /\ Old(m, y)
      BY <2>1
    <3>2. x = y
      BY <3>1, DocumentType DEF OwnViews
    <3>4. x \in Nat
      BY <1>0
    <3>5. (k < a /\ x = k) \/ (k >= c /\ x = k - c + (b + 1))
      BY <3>1
    <3>6. (m < a /\ x = m) \/ (m >= c /\ x = m - c + (b + 1))
      BY <3>1, <3>2
    <3>7. CASE k < a /\ x = k
      <4>1. ~(m >= c /\ x = m - c + (b + 1))
        BY <3>7, <2>0, <1>0, <1>7
      <4> QED BY <3>6, <3>7, <4>1
    <3>8. CASE k >= c /\ x = k - c + (b + 1)
      <4>1. ~(m < a /\ x = m)
        BY <3>8, <2>0, <1>0, <1>7
      <4>2. x = m - c + (b + 1)
        BY <3>6, <4>1
      <4>3. PICK u \in Nat, v \in Nat : u = k /\ v = m
        BY <2>0
      <4>4. u - c + (b + 1) = v - c + (b + 1)
        BY <3>8, <4>2, <4>3
      <4>5. u = v
        BY <4>4
      <4> QED BY <4>3, <4>5
    <3> QED BY <3>5, <3>7, <3>8
  <2>2. CASE \E x, y \in DOMAIN lines : New(k, x) /\ New(m, y)
    <3>1. PICK x \in DOMAIN lines, y \in DOMAIN lines : New(k, x) /\ New(m, y)
      BY <2>2
    <3>2. x = y
      BY <3>1 DEF OwnViews, Fresh
    <3> QED BY <2>0, <3>1, <3>2, <1>0
  <2>3. ASSUME NEW x \in DOMAIN d, NEW y \in DOMAIN lines, d[x].kind = "upload", lines[y].kind = "upload", d[x].ref = lines[y].ref
        PROVE  FALSE
    <3>1. d[x].ref \in ViewsOf(d) /\ lines[y].ref \in ViewsOf(lines)
      BY <2>3 DEF ViewsOf
    <3> QED BY <2>3, <3>1
  <2>4. ~(\E x \in DOMAIN d, y \in DOMAIN lines : Old(k, x) /\ New(m, y))
    BY <2>3
  <2>5. ~(\E x \in DOMAIN d, y \in DOMAIN lines : Old(m, x) /\ New(k, y))
    BY <2>3
  <2> HIDE DEF Old, New
  <2> QED BY <2>1, <2>2, <2>4, <2>5, <1>11
<1>16. e # <<>>
  <2>1. Len(e) # 0
    BY <1>0, <1>1, <1>7, <1>10
  <2> QED BY <2>1
<1>17. \A k \in a .. a - 1 + Len(lines) : k \in DOMAIN e
  BY <1>0, <1>1, <1>7, <1>8
<1>18. e \in Documents
  BY <1>2, <1>12, <1>13, <1>15, <1>16 DEF Documents
<1>19. Len(e) = Len(d) - (b + 1 - a) + Len(lines)
  BY <1>10, <1>n
<1>20. ASSUME NEW k \in DOMAIN e
       PROVE  (\E x \in DOMAIN d : (x < a \/ x > b) /\ e[k] = d[x]) \/ \E y \in DOMAIN lines : e[k] = lines[y]
  <2>1. CASE \E x \in DOMAIN d : Old(k, x)
    <3>1. PICK x \in DOMAIN d : Old(k, x)
      BY <2>1
    <3>2. k \in Nat /\ x \in Nat
      BY <1>0, <1>8
    <3>3. x < a \/ x > b
      BY <3>1, <3>2, <1>0
    <3> QED BY <3>1, <3>3
  <2>2. CASE \E y \in DOMAIN lines : New(k, y)
    BY <2>2
  <2> HIDE DEF Old, New
  <2> QED BY <2>1, <2>2, <1>11
<1> HIDE DEF Old, New
<1>21. Mixed(d, e, a, b, lines)
  BY <1>20 DEF Mixed
<1> QED BY <1>5, <1>14, <1>17, <1>18, <1>19, <1>21

\* No line goes on after an atom or a text of no list.
LEMMA NotAfterTop ==
    ASSUME NEW d \in Documents, NEW l \in DOMAIN d, d[l].kind \notin Lists \cup {"quote"}, l + 1 \in DOMAIN d
    PROVE  ~d[l + 1].more
<1> SUFFICES ASSUME d[l + 1].more PROVE FALSE
  OBVIOUS
<1>1. PICK c \in DOMAIN d : c = l + 1 /\ c - 1 = l
  BY OneLine
<1>2. d[c].kind = d[l].kind /\ d[c].kind \in Lists \cup {"quote"}
  BY <1>1, DocumentType DEF GoesOn
<1> QED BY <1>2

\* Part of a line's words.
LEMMA PartType ==
    ASSUME NEW d \in Documents, NEW l \in DOMAIN d, NEW m \in Nat, NEW n \in Nat, m >= 1, n <= Len(d[l].words),
           NEW ws, ws = SubSeq(d[l].words, m, n) \/ ws = <<>>
    PROVE  ws \in WordSeqs /\ (d[l].kind = "code" => \A x \in DOMAIN ws : ws[x].marks = {})
<1> DEFINE R == [id : Words \cup {Slash, Url}, marks : SUBSET Marks]
           old == d[l].words
<1>1. old \in Seq(R) /\ Len(old) \in Nat /\ DOMAIN old = 1 .. Len(old) /\ Plain(d[l])
  BY DocumentType, LineType DEF WordSeqs
<1> HIDE DEF old, R
<1>2. ASSUME NEW Q, old \in Seq(Q) PROVE ws \in Seq(Q)
  <2>1. SubSeq(old, m, n) \in Seq(Q)
    BY <1>2, CutType DEF old
  <2>2. <<>> \in Seq(Q)
    OBVIOUS
  <2> QED BY <2>1, <2>2 DEF old
<1>3. ws \in Seq(R)
  BY <1>1, <1>2
<1>4. ASSUME d[l].kind = "code" PROVE \A x \in DOMAIN ws : ws[x].marks = {}
  <2> DEFINE Q == {r \in R : r.marks = {}}
  <2>1. \A x \in DOMAIN old : old[x] \in R /\ old[x].marks = {}
    BY <1>1, <1>4 DEF Plain, old
  <2>2. \A x \in DOMAIN old : old[x] \in Q
    BY <2>1
  <2> HIDE DEF Q
  <2>3. old \in Seq(Q)
    BY <2>2, <1>1
  <2>4. ws \in Seq(Q)
    BY <2>3, <1>2
  <2>5. \A x \in DOMAIN ws : ws[x] \in Q
    BY <2>4
  <2> QED BY <2>5 DEF Q
<1> QED BY <1>3, <1>4 DEF WordSeqs, R

\* The line of a text with part of its words.
LEMMA PartLine ==
    ASSUME NEW d \in Documents, NEW l \in DOMAIN d, IsTop(d[l]), NEW m \in Nat, NEW n \in Nat, m >= 1, n <= Len(d[l].words),
           NEW ws, ws = SubSeq(d[l].words, m, n) \/ ws = <<>>, NEW x, x = [d[l] EXCEPT !.words = ws]
    PROVE  x \in Lines /\ Plain(x) /\ ~x.more /\ IsText(x) /\ x.kind # "upload"
<1>1. ws \in WordSeqs /\ (d[l].kind = "code" => \A y \in DOMAIN ws : ws[y].marks = {})
  BY PartType
<1>2. d[l] \in Lines /\ IsText(d[l]) /\ d[l].kind # "upload"
  BY DocumentType, Kinds DEF IsText, IsTop
<1>3. x \in Lines /\ x.kind = d[l].kind /\ x.more = d[l].more /\ IsText(x) /\ Plain(x)
  BY <1>1, <1>2, WordsSet
<1>4. ~d[l].more
  <2> SUFFICES ASSUME d[l].more PROVE FALSE
    OBVIOUS
  <2>1. d[l].kind \in Lists \cup {"quote"}
    BY DocumentType DEF GoesOn
  <2> QED BY <2>1, Kinds DEF IsTop
<1>5. ~x.more
  BY <1>3, <1>4
<1> QED BY <1>2, <1>3, <1>5

\* An atom in place of the selection, in a document of which it has no view.
LEMMA InsertedType ==
    ASSUME NEW d \in Documents, NEW s \in Spots(d), NEW kind \in Atoms, NEW r \in Nat, kind = "upload" => r \notin ViewsOf(d),
           (s.all /\ OnAtom(d, s)) \/ \A k \in Selected(s) : IsTop(d[k]),
           NEW e, e = Inserted(d, s, Atom(kind, r)), NEW t, t = AfterInsert(d, s)
    PROVE  /\ e \in Documents /\ t \in Spots(e)
           /\ \A v \in ViewsOf(e) : v \in ViewsOf(d) \/ (kind = "upload" /\ v = r)
           /\ (IF Replaced(d, s) THEN s.i ELSE s.i + 1) \in DOMAIN e
<1>0. PICK a \in Nat, b \in Nat : a = s.i /\ b = s.j /\ a \in DOMAIN d /\ b \in DOMAIN d /\ a <= b /\ a >= 1
  BY SpotType
<1>1. PICK atom \in Lines : /\ atom = Atom(kind, r) /\ atom.kind = kind /\ atom.ref = r
                            /\ ~atom.more /\ Plain(atom)
  BY AtomType
<1>2. CASE Replaced(d, s)
  <2> DEFINE lines == <<atom>>
  <2>1. lines \in Seq(Lines) /\ Len(lines) = 1 /\ DOMAIN lines = {1} /\ lines[1] = atom
    OBVIOUS
  <2>2. e = Splice(d, a, a, lines) /\ t = Whole(a, a)
    BY <1>0, <1>1, <1>2 DEF Inserted, AfterInsert
  <2> HIDE DEF lines
  <2>3. Fresh(lines)
    BY <2>1, <1>1 DEF Fresh, OwnViews
  <2>4. \A v \in ViewsOf(lines) : kind = "upload" /\ v = r
    BY <2>1, <1>1 DEF ViewsOf
  <2>5. d[a].kind \notin Lists \cup {"quote"}
    <3>1. CASE s.all /\ OnAtom(d, s)
      BY <3>1, <1>0, Kinds DEF OnAtom, IsText
    <3>2. CASE \A k \in Selected(s) : IsTop(d[k])
      <4>1. a \in Selected(s)
        BY <1>0 DEF Selected
      <4> QED BY <4>1, <3>2, Kinds DEF IsTop
    <3> QED BY <3>1, <3>2
  <2>6. a + 1 \in DOMAIN d => ~d[a + 1].more
    BY <2>5, <1>0, NotAfterTop
  <2>7. ViewsOf(lines) \cap ViewsOf(d) = {}
    BY <2>4
  <2>8. /\ e \in Documents /\ ViewsOf(e) \subseteq ViewsOf(d) \cup ViewsOf(lines)
        /\ \A k \in a .. a - 1 + Len(lines) : k \in DOMAIN e /\ e[k] = lines[k - a + 1]
    <3>1. a <= a /\ a \in DOMAIN d
      BY <1>0
    <3>2. e \in Documents
      BY <3>1, <2>2, <2>3, <2>6, <2>7, SplicedType
    <3>3. ViewsOf(e) \subseteq ViewsOf(d) \cup ViewsOf(lines)
      BY <3>1, <2>2, <2>3, <2>6, <2>7, SplicedType
    <3>4. \A k \in a .. a - 1 + Len(lines) : k \in DOMAIN e /\ e[k] = lines[k - a + 1]
      BY <3>1, <2>2, <2>3, <2>6, <2>7, SplicedType
    <3> QED BY <3>2, <3>3, <3>4
  <2>9. a \in DOMAIN e
    <3>1. a \in a .. a - 1 + Len(lines)
      BY <2>1
    <3> QED BY <3>1, <2>8
  <2>10. t \in Spots(e)
    BY <2>2, <2>8, <2>9, WholeLine
  <2> QED BY <2>4, <2>8, <2>9, <2>10, <1>0, <1>2
<1>3. CASE ~Replaced(d, s)
  <2>1. \A k \in Selected(s) : IsTop(d[k])
    BY <1>3 DEF Replaced
  <2>2. IsTop(d[a]) /\ IsTop(d[b])
    <3>1. a \in Selected(s) /\ b \in Selected(s)
      BY <1>0 DEF Selected
    <3> QED BY <3>1, <2>1
  <2> DEFINE before == IF s.all THEN <<>> ELSE SubSeq(d[a].words, 1, s.o)
             after == IF s.all THEN <<>> ELSE SubSeq(d[b].words, s.o + 1, Len(d[b].words))
             x == [d[a] EXCEPT !.words = before]
             y == [d[b] EXCEPT !.words = after]
             lines == <<x, atom, y>>
  <2>3. e = Splice(d, a, b, lines) /\ t = Cursor(a + 2, 0)
    BY <1>0, <1>1, <1>3 DEF Inserted, AfterInsert
  <2>4. x \in Lines /\ Plain(x) /\ ~x.more /\ IsText(x) /\ x.kind # "upload"
    <3>1. PICK n \in Nat : n = (IF s.all THEN 0 ELSE s.o) /\ n <= Len(d[a].words)
      <4>1. Len(d[a].words) \in Nat
        BY <1>0, DocumentType, LineType
      <4> QED BY <4>1, <1>0, SpotType
    <3>2. PICK m \in Nat : m = 1 /\ m >= 1
      OBVIOUS
    <3>3. before = SubSeq(d[a].words, m, n) \/ before = <<>>
      BY <3>1, <3>2
    <3> HIDE DEF before
    <3> QED BY <3>1, <3>2, <3>3, <2>2, <1>0, PartLine
  <2>5. y \in Lines /\ Plain(y) /\ ~y.more /\ IsText(y) /\ y.kind # "upload"
    <3>1. PICK m \in Nat, n \in Nat : m = s.o + 1 /\ n = Len(d[b].words) /\ m >= 1 /\ n <= Len(d[b].words)
      <4>1. Len(d[b].words) \in Nat /\ s.o \in Nat
        BY <1>0, DocumentType, LineType, SpotType
      <4>2. s.o + 1 \in Nat /\ s.o + 1 >= 1 /\ Len(d[b].words) <= Len(d[b].words)
        BY <4>1
      <4> QED BY <4>1, <4>2
    <3>2. after = SubSeq(d[b].words, m, n) \/ after = <<>>
      BY <3>1
    <3> HIDE DEF after
    <3> QED BY <3>1, <3>2, <2>2, <1>0, PartLine
  <2> HIDE DEF x, y, before, after
  <2>6. lines \in Seq(Lines) /\ Len(lines) = 3 /\ DOMAIN lines = 1 .. 3 /\ lines[1] = x /\ lines[2] = atom /\ lines[3] = y
    BY <2>4, <2>5
  <2> HIDE DEF lines
  <2>7. Fresh(lines)
    <3>1. \A k \in 1 .. 3 : k = 1 \/ k = 2 \/ k = 3
      OBVIOUS
    <3>2. \A k \in DOMAIN lines : Plain(lines[k]) /\ ~lines[k].more
      BY <3>1, <2>4, <2>5, <2>6, <1>1
    <3>3. OwnViews(lines)
      BY <3>1, <2>4, <2>5, <2>6 DEF OwnViews
    <3>4. Len(lines) >= 1
      BY <2>6
    <3> QED BY <3>2, <3>3, <3>4, <2>6 DEF Fresh
  <2>8. \A v \in ViewsOf(lines) : kind = "upload" /\ v = r
    <3>1. \A k \in DOMAIN lines : k = 1 \/ k = 2 \/ k = 3
      BY <2>6
    <3>2. \A k \in DOMAIN lines : lines[k].kind = "upload" => lines[k] = atom
      BY <3>1, <2>4, <2>5, <2>6
    <3> QED BY <3>2, <1>1 DEF ViewsOf
  <2>9. b + 1 \in DOMAIN d => ~d[b + 1].more
    <3>1. d[b].kind \notin Lists \cup {"quote"}
      BY <2>2, Kinds DEF IsTop
    <3> QED BY <3>1, <1>0, NotAfterTop
  <2>10. ViewsOf(lines) \cap ViewsOf(d) = {}
    BY <2>8
  <2>11. /\ e \in Documents /\ ViewsOf(e) \subseteq ViewsOf(d) \cup ViewsOf(lines)
         /\ \A k \in a .. a - 1 + Len(lines) : k \in DOMAIN e /\ e[k] = lines[k - a + 1]
    <3>1. a <= b /\ a \in DOMAIN d /\ b \in DOMAIN d
      BY <1>0
    <3>2. e \in Documents
      BY <3>1, <2>3, <2>7, <2>9, <2>10, SplicedType
    <3>3. ViewsOf(e) \subseteq ViewsOf(d) \cup ViewsOf(lines)
      BY <3>1, <2>3, <2>7, <2>9, <2>10, SplicedType
    <3>4. \A k \in a .. a - 1 + Len(lines) : k \in DOMAIN e /\ e[k] = lines[k - a + 1]
      BY <3>1, <2>3, <2>7, <2>9, <2>10, SplicedType
    <3> QED BY <3>2, <3>3, <3>4
  <2>12. a + 1 \in DOMAIN e /\ a + 2 \in DOMAIN e /\ e[a + 2] = y
    <3>1. PICK m \in Nat, n \in Nat : m = a + 1 /\ n = a + 2
      OBVIOUS
    <3>2. m \in a .. a - 1 + Len(lines) /\ n \in a .. a - 1 + Len(lines) /\ n - a + 1 = 3
      BY <3>1, <2>6
    <3>3. m \in DOMAIN e /\ n \in DOMAIN e /\ e[n] = lines[n - a + 1]
      BY <3>2, <2>11
    <3> QED BY <3>1, <3>2, <3>3, <2>6
  <2>13. t \in Spots(e)
    <3>1. Len(e[a + 2].words) \in Nat
      BY <2>11, <2>12, DocumentType, LineType
    <3>2. 0 \in Nat /\ 0 <= Len(e[a + 2].words) /\ IsText(e[a + 2])
      BY <3>1, <2>5, <2>12
    <3> QED BY <2>3, <2>11, <2>12, <3>2, CursorSpot
  <2> QED BY <2>8, <2>11, <2>12, <2>13, <1>0, <1>3
<1> QED BY <1>2, <1>3

\* A paragraph at the end.
LEMMA AppendedType ==
    ASSUME NEW d \in Documents, NEW e, e = Append(d, Empty)
    PROVE  /\ e \in Documents /\ ViewsOf(e) \subseteq ViewsOf(d) /\ Len(e) = Len(d) + 1
           /\ Len(d) + 1 \in DOMAIN e /\ IsText(e[Len(d) + 1]) /\ \A k \in DOMAIN d : e[k] = d[k]
<1>1. Empty \in Lines /\ Empty.kind = "paragraph" /\ ~Empty.more /\ IsText(Empty) /\ Plain(Empty)
  <2>1. <<>> \in WordSeqs /\ "paragraph" \in TextKinds
    BY Kinds DEF WordSeqs
  <2>2. Empty \in Lines /\ Empty.kind = "paragraph" /\ ~Empty.more /\ Empty.words = <<>> /\ IsText(Empty)
    BY <2>1, TextLineType DEF Empty
  <2> QED BY <2>2 DEF Plain
<1>2. PICK n \in Nat : n = Len(d) /\ DOMAIN d = 1 .. n /\ d \in Seq(Lines)
  BY DocumentType
<1>3. /\ e \in Seq(Lines) /\ Len(e) = n + 1 /\ DOMAIN e = 1 .. n + 1 /\ e[n + 1] = Empty /\ e # <<>>
      /\ \A k \in 1 .. n : e[k] = d[k]
  BY <1>1, <1>2
<1>4. \A k \in DOMAIN e : (k \in DOMAIN d /\ e[k] = d[k]) \/ e[k] = Empty
  BY <1>2, <1>3
<1>5. \A k \in DOMAIN e : Plain(e[k])
  BY <1>1, <1>4, DocumentType
<1>6. GoesOn(e)
  <2> SUFFICES ASSUME NEW k \in DOMAIN e, e[k].more
               PROVE  k > 1 /\ e[k].kind = e[k - 1].kind /\ e[k].kind \in Lists \cup {"quote"}
    BY DEF GoesOn
  <2>1. k \in DOMAIN d /\ e[k] = d[k]
    BY <1>1, <1>4
  <2>2. k > 1 /\ d[k].kind = d[k - 1].kind /\ d[k].kind \in Lists \cup {"quote"}
    BY <2>1, DocumentType DEF GoesOn
  <2>3. k - 1 \in 1 .. n
    BY <2>1, <2>2, <1>2
  <2>4. e[k - 1] = d[k - 1]
    BY <2>3, <1>3
  <2> QED BY <2>1, <2>2, <2>4
<1>7. OwnViews(e)
  BY <1>1, <1>4, DocumentType DEF OwnViews
<1>8. ViewsOf(e) \subseteq ViewsOf(d)
  BY <1>1, <1>4 DEF ViewsOf
<1>9. e \in Documents
  BY <1>3, <1>5, <1>6, <1>7 DEF Documents
<1> QED BY <1>1, <1>2, <1>3, <1>8, <1>9

LEMMA TextStart ==
    ASSUME NEW d \in Documents, NEW l \in DOMAIN d, IsText(d[l]) PROVE Cursor(l, 0) \in Spots(d)
<1>1. 0 \in Nat /\ 0 <= Len(d[l].words)
  BY DocumentType, LineType
<1> QED BY <1>1, CursorSpot

\* The cursor after a rule.
LEMMA AfterRuleType ==
    ASSUME NEW d \in Documents, NEW l \in DOMAIN d, NEW e, e = AfterRule(d, l)[1], NEW t, t = AfterRule(d, l)[2]
    PROVE  e \in Documents /\ ViewsOf(e) \subseteq ViewsOf(d) /\ t \in Spots(e)
<1>1. CASE l = Len(d)
  <2>1. e = Append(d, Empty) /\ t = Cursor(Len(d) + 1, 0)
    BY <1>1 DEF AfterRule
  <2>2. e \in Documents /\ ViewsOf(e) \subseteq ViewsOf(d) /\ Len(d) + 1 \in DOMAIN e /\ IsText(e[Len(d) + 1])
    BY <2>1, AppendedType
  <2> QED BY <2>1, <2>2, TextStart
<1>2. CASE l # Len(d)
  <2>1. e = d /\ t = IF IsText(d[l + 1]) THEN Cursor(l + 1, 0) ELSE Whole(l + 1, l + 1)
    BY <1>2 DEF AfterRule
  <2>2. PICK c \in DOMAIN d : c = l + 1
    BY <1>2, DocumentType
  <2> QED BY <2>1, <2>2, TextStart, WholeLine
<1> QED BY <1>1, <1>2

\* The cursor after the images of an upload.
LEMMA WithNextType ==
    ASSUME NEW d \in Documents, NEW l \in Nat, NEW e, e = WithNext(d, l), NEW t, t = AfterLine(d, l)
    PROVE  e \in Documents /\ ViewsOf(e) \subseteq ViewsOf(d) /\ t \in Spots(e)
<1>1. CASE NextText(d, l) = {}
  <2>1. e = Append(d, Empty) /\ t = Cursor(Len(d) + 1, 0)
    BY <1>1 DEF WithNext, AfterLine
  <2>2. e \in Documents /\ ViewsOf(e) \subseteq ViewsOf(d) /\ Len(d) + 1 \in DOMAIN e /\ IsText(e[Len(d) + 1])
    BY <2>1, AppendedType
  <2> QED BY <2>1, <2>2, TextStart
<1>2. CASE NextText(d, l) # {}
  <2> DEFINE S == NextText(d, l)
  <2>1. e = d /\ t = Cursor(Min(S), 0)
    BY <1>2 DEF WithNext, AfterLine
  <2>2. S \in SUBSET Nat /\ \A k \in S : k \in DOMAIN d /\ IsText(d[k])
    BY DocumentType DEF NextText
  <2>3. Min(S) \in S
    <3> HIDE DEF S
    <3> QED BY <1>2, <2>2, MinOf DEF S
  <2> QED BY <2>1, <2>2, <2>3, TextStart
<1> QED BY <1>1, <1>2

\* An upload block gives way to images, and with it goes its view.
LEMMA ImagesType ==
    ASSUME NEW d \in Documents, NEW l \in DOMAIN d, d[l].kind = "upload", NEW n \in Nat, n # 0,
           NEW e, e = Splice(d, l, l, [m \in 1 .. n |-> Atom("image", 0)])
    PROVE  e \in Documents /\ ViewsOf(e) \subseteq ViewsOf(d) /\ d[l].ref \notin ViewsOf(e)
<1> DEFINE lines == [m \in 1 .. n |-> Atom("image", 0)]
<1>1. Atom("image", 0) \in Lines /\ Atom("image", 0).kind = "image" /\ ~Atom("image", 0).more /\ Plain(Atom("image", 0))
  <2>1. "image" \in Atoms /\ 0 \in Nat
    BY DEF Atoms
  <2> QED BY <2>1, AtomType
<1>2. lines \in Seq(Lines) /\ DOMAIN lines = 1 .. n /\ \A k \in 1 .. n : lines[k] = Atom("image", 0)
  BY <1>1
<1> HIDE DEF lines
<1>3. Len(lines) = n
  BY <1>2, LenOf
<1>4. Fresh(lines)
  BY <1>1, <1>2, <1>3 DEF Fresh, OwnViews
<1>5. ViewsOf(lines) = {}
  BY <1>1, <1>2 DEF ViewsOf
<1>6. PICK a \in Nat : a = l /\ a \in DOMAIN d /\ a <= a
  BY OneLine
<1>7. a + 1 \in DOMAIN d => ~d[a + 1].more
  <2>1. d[a].kind \notin Lists \cup {"quote"}
    BY <1>6, KindsAssumption
  <2> QED BY <2>1, <1>6, NotAfterTop
<1>8. e = Splice(d, a, a, lines) /\ ViewsOf(lines) \cap ViewsOf(d) = {}
  BY <1>5, <1>6 DEF lines
<1>9. e \in Documents
  BY <1>4, <1>6, <1>7, <1>8, SplicedType
<1>10. ViewsOf(e) \subseteq ViewsOf(d) \cup ViewsOf(lines)
  BY <1>4, <1>6, <1>7, <1>8, SplicedType
<1>11. Mixed(d, e, a, a, lines)
  BY <1>4, <1>6, <1>7, <1>8, SplicedType
<1>12. ASSUME NEW k \in DOMAIN e, e[k].kind = "upload" PROVE e[k].ref # d[l].ref
  <2>1. PICK x \in DOMAIN d : (x < a \/ x > a) /\ e[k] = d[x]
    BY <1>1, <1>2, <1>11, <1>12 DEF Mixed
  <2>2. x # l
    BY <2>1, <1>6
  <2> QED BY <1>12, <2>1, <2>2, DocumentType DEF OwnViews
<1> QED BY <1>5, <1>9, <1>10, <1>12 DEF ViewsOf

\* An address put in at a cursor, in place of the link the cursor is in.
LEMMA LinkRangeType ==
    ASSUME NEW d \in Documents, NEW s \in Spots(d), ~s.all,
           NEW a, a = (IF LinkRange(d, s) = {} THEN s.o + 1 ELSE Min(LinkRange(d, s))),
           NEW b, b = (IF LinkRange(d, s) = {} THEN s.o ELSE Max(LinkRange(d, s)))
    PROVE  a \in Nat /\ b \in Nat /\ a >= 1 /\ a <= b + 1 /\ b <= Len(d[s.i].words)
<1> DEFINE R == LinkRange(d, s)
<1>1. PICK n \in Nat : n = Len(d[s.i].words) /\ DOMAIN d[s.i].words = 1 .. n
  BY SpotType, DocumentType, LineType
<1>2. s.o \in Nat /\ s.o <= n
  BY <1>1, SpotType
<1>3. R \in SUBSET Nat /\ \A x \in R : x >= 1 /\ x <= n
  <2>1. R \subseteq DOMAIN d[s.i].words
    BY Zenon DEF LinkRange
  <2> HIDE DEF R
  <2> QED BY <1>1, <2>1
<1>4. CASE R = {}
  BY <1>1, <1>2, <1>4
<1>5. CASE R # {}
  <2> HIDE DEF R
  <2>1. Min(R) \in R /\ \A x \in R : Min(R) <= x
    BY <1>3, <1>5, MinOf
  <2>2. Max(R) \in R
    BY <1>3, <1>5, MaxOf
  <2>3. a = Min(R) /\ b = Max(R)
    BY <1>5 DEF R
  <2>4. a \in R /\ b \in R /\ a <= b
    BY <2>1, <2>2, <2>3
  <2>5. a \in Nat /\ b \in Nat /\ a >= 1 /\ b <= n
    BY <2>4, <1>3
  <2> QED BY <2>4, <2>5, <1>1
<1> QED BY <1>4, <1>5

\* A word in place of some words.
LEMMA SpliceAll ==
    ASSUME NEW Q, NEW s \in Seq(Q), NEW a \in Nat, NEW b \in Nat, a >= 1, a <= b + 1, b <= Len(s), NEW w \in Q
    PROVE  Splice(s, a, b, <<w>>) \in Seq(Q) /\ Len(Splice(s, a, b, <<w>>)) >= a
<1>0. <<w>> \in Seq(Q) /\ Len(<<w>>) = 1
  OBVIOUS
<1>1. PICK one \in Seq(Q) : one = <<w>> /\ Len(one) = 1
  BY <1>0
<1>2. Splice(s, a, b, one) \in Seq(Q)
  BY SpliceIs
<1>3. Len(Splice(s, a, b, one)) = Len(s) - (b + 1 - a) + Len(one)
  BY SpliceIs
<1>4. Len(s) \in Nat
  OBVIOUS
<1>5. Len(Splice(s, a, b, one)) >= a
  BY <1>1, <1>3, <1>4
<1> QED BY <1>1, <1>2, <1>5

\* The address as a text, in place of the link's text or at the cursor.
LEMMA AddressType ==
    ASSUME NEW d \in Documents, NEW l \in DOMAIN d, IsText(d[l]), NEW a \in Nat, NEW b \in Nat,
           a >= 1, a <= b + 1, b <= Len(d[l].words),
           NEW ms \in SUBSET Marks, d[l].kind = "code" => ms = {},
           NEW e, e = Rewritten(d, l, Splice(d[l].words, a, b, <<Word(Url, ms)>>))
    PROVE  Reworked(d, e) /\ Cursor(l, a) \in Spots(e)
<1> DEFINE R == [id : Words \cup {Slash, Url}, marks : SUBSET Marks]
           ws == Splice(d[l].words, a, b, <<Word(Url, ms)>>)
<1>1. d[l].words \in Seq(R) /\ Word(Url, ms) \in R /\ Word(Url, ms).marks = ms
  BY DocumentType, LineType DEF WordSeqs, Word
<1>2. ws \in Seq(R) /\ Len(ws) >= a
  <2> HIDE DEF R
  <2>1. ws \in Seq(R)
    BY <1>1, SpliceAll
  <2>2. Len(ws) >= a
    BY <1>1, SpliceAll
  <2> QED BY <2>1, <2>2
<1>3. ASSUME d[l].kind = "code" PROVE \A n \in DOMAIN ws : ws[n].marks = {}
  <2> DEFINE Q == {r \in R : r.marks = {}}
  <2>1. \A n \in DOMAIN d[l].words : d[l].words[n] \in Q
    <3>1. \A n \in DOMAIN d[l].words : d[l].words[n].marks = {}
      BY <1>3, DocumentType DEF Plain
    <3>2. \A n \in DOMAIN d[l].words : d[l].words[n] \in R
      <4> HIDE DEF R
      <4> QED BY <1>1
    <3> QED BY <3>1, <3>2
  <2>2. d[l].words \in Seq(Q) /\ Word(Url, ms) \in Q
    <3>1. Word(Url, ms) \in Q
      BY <1>1, <1>3
    <3> HIDE DEF Q, R
    <3>2. d[l].words \in Seq(Q)
      BY <2>1, <1>1
    <3> QED BY <3>1, <3>2
  <2> HIDE DEF R
  <2>3. ws \in Seq(Q)
    <3> HIDE DEF Q
    <3> QED BY <2>2, SpliceAll
  <2>4. \A n \in DOMAIN ws : ws[n] \in Q
    <3> HIDE DEF Q, ws
    <3> QED BY <2>3
  <2> QED BY <2>4
<1>4. ws \in WordSeqs
  BY <1>2 DEF WordSeqs
<1>5. e = Rewritten(d, l, ws)
  OBVIOUS
<1> HIDE DEF ws
<1>6. Reworked(d, e)
  BY <1>3, <1>4, <1>5, RewrittenType
<1>7. e[l].words = ws
  BY <1>3, <1>4, <1>5, RewrittenType
<1>8. e[l].kind = d[l].kind
  BY <1>3, <1>4, <1>5, RewrittenType
<1>9. Cursor(l, a) \in Spots(e)
  <2>1. e \in Documents /\ l \in DOMAIN e /\ IsText(e[l]) /\ a <= Len(e[l].words)
    BY <1>2, <1>6, <1>7, <1>8 DEF Reworked, IsText
  <2> QED BY <2>1, CursorSpot
<1> QED BY <1>6, <1>9

\* A link set on the selection or at the cursor.
LEMMA WithLinkType ==
    ASSUME doc \in Documents, sel \in Spots(doc)
    PROVE  WithLink \in Documents /\ ViewsOf(WithLink) \subseteq ViewsOf(doc) /\ AfterLink \in Spots(WithLink)
<1>1. CASE sel.all
  <2>1. Repainted(doc, WithLink)
    <3>1. "link" \in Marks
      BY DEF Marks
    <3> QED BY <1>1, <3>1, SetMarkType DEF WithLink
  <2>2. AfterLink \in Spots(WithLink)
    BY <1>1, <2>1, RepaintedSpots DEF AfterLink
  <2> QED BY <2>1, <2>2 DEF Repainted, Reworked
<1>2. CASE ~sel.all
  <2> DEFINE R == LinkRange(doc, sel)
             ms == IF doc[sel.i].kind = "code" THEN {} ELSE MarksAt(doc, sel) \cup {"link"}
             a == IF R = {} THEN sel.o + 1 ELSE Min(R)
             b == IF R = {} THEN sel.o ELSE Max(R)
  <2>1. PICK l \in DOMAIN doc : l = sel.i /\ IsText(doc[l])
    BY <1>2, SpotType
  <2>2. a \in Nat /\ b \in Nat /\ a >= 1 /\ a <= b + 1 /\ b <= Len(doc[l].words)
    <3>1. a \in Nat /\ b \in Nat /\ a >= 1 /\ a <= b + 1 /\ b <= Len(doc[sel.i].words)
      <4> HIDE DEF a, b
      <4> QED BY <1>2, LinkRangeType DEF a, b
    <3> QED BY <2>1, <3>1
  <2>3. ms \in SUBSET Marks /\ (doc[l].kind = "code" => ms = {})
    BY <1>2, <2>1, MarksAtType DEF Marks
  <2>4. WithLink = Rewritten(doc, l, Splice(doc[l].words, a, b, <<Word(Url, ms)>>))
    BY <1>2, <2>1 DEF WithLink, Rewritten, Splice
  <2>5. AfterLink = Cursor(l, a)
    BY <1>2, <2>1 DEF AfterLink
  <2> HIDE DEF a, b, ms
  <2>6. Reworked(doc, WithLink)
    BY <2>1, <2>2, <2>3, <2>4, AddressType
  <2>7. Cursor(l, a) \in Spots(WithLink)
    BY <2>1, <2>2, <2>3, <2>4, AddressType
  <2> QED BY <2>5, <2>6, <2>7 DEF Reworked
<1> QED BY <1>1, <1>2

---------------------------------------------------------------------------
(* What undo and redo put back *)

\* A set of lines numbered in their order.
Numbered(D, k) == Cardinality({x \in D : x < k})
\* Numbers given out in order are different, and as many as there are lines.
LEMMA NumberedType ==
    ASSUME NEW D \in SUBSET Nat, IsFiniteSet(D), NEW k \in D
    PROVE  /\ Numbered(D, k) \in Nat /\ Numbered(D, k) < Cardinality(D) /\ Cardinality(D) \in Nat
           /\ \A l \in D : k < l => Numbered(D, k) < Numbered(D, l)
<1> DEFINE B(l) == {x \in D : x < l}
<1>1. \A S \in SUBSET D : IsFiniteSet(S) /\ Cardinality(S) \in Nat
  <2> TAKE S \in SUBSET D
  <2>1. IsFiniteSet(S)
    BY FS_Subset
  <2> QED BY <2>1, FS_CardinalityType
<1>2. ASSUME NEW S \in SUBSET D, NEW R \in SUBSET S, NEW x \in S, x \notin R
      PROVE  Cardinality(R) < Cardinality(S)
  <2>1. IsFiniteSet(S) /\ Cardinality(S) \in Nat /\ Cardinality(R) \in Nat
    BY <1>1, <1>2
  <2>2. Cardinality(R) <= Cardinality(S)
    BY <1>2, <2>1, FS_Subset
  <2>3. Cardinality(S) # Cardinality(R)
    BY <1>2, <2>1, FS_Subset
  <2> QED BY <2>1, <2>2, <2>3
<1>3. B(k) \in SUBSET D /\ k \notin B(k)
  OBVIOUS
<1>4. Cardinality(B(k)) < Cardinality(D)
  BY <1>2, <1>3
<1>5. ASSUME NEW l \in D, k < l PROVE Cardinality(B(k)) < Cardinality(B(l))
  <2>1. B(l) \in SUBSET D /\ B(k) \in SUBSET B(l) /\ k \in B(l)
    <3>1. ASSUME NEW x \in D, x < k PROVE x < l
      <4>1. x \in Nat /\ k \in Nat /\ l \in Nat
        BY <3>1
      <4> QED BY <4>1, <3>1, <1>5
    <3> QED BY <3>1, <1>5
  <2> HIDE DEF B
  <2> QED BY <1>2, <1>3, <2>1
<1> QED BY <1>1, <1>3, <1>4, <1>5 DEF Numbered

LEMMA NumbersType ==
    ASSUME NEW D \in SUBSET Nat, IsFiniteSet(D), NEW v \in Nat, NEW T, T = {v + Numbered(D, k) : k \in D}
    PROVE  IsFiniteSet(T) /\ Cardinality(T) = Cardinality(D)
<1> DEFINE f == [k \in D |-> v + Numbered(D, k)]
<1>1. \A k \in D : Numbered(D, k) \in Nat
  BY NumberedType
<1>2. ASSUME NEW k \in D, NEW l \in D, k # l PROVE v + Numbered(D, k) # v + Numbered(D, l)
  <2>1. k < l \/ l < k
    BY <1>2
  <2>2. Numbered(D, k) < Numbered(D, l) \/ Numbered(D, l) < Numbered(D, k)
    BY <2>1, NumberedType
  <2> QED BY <2>2, <1>1
<1>3. f \in [D -> T] /\ \A k \in D : f[k] = v + Numbered(D, k)
  OBVIOUS
<1>4. f \in Injection(D, T)
  <2>1. \A k, l \in D : f[k] = f[l] => k = l
    BY <1>2, <1>3
  <2> HIDE DEF f
  <2> QED BY <1>3, <2>1 DEF Injection, IsInjective
<1>5. f \in Surjection(D, T)
  BY <1>3 DEF Surjection
<1> HIDE DEF f
<1>6. ExistsBijection(D, T)
  BY <1>4, <1>5 DEF ExistsBijection, Bijection
<1> QED BY <1>6, FS_Bijection

\* The lines of a document are finitely many.
LEMMA LinesFinite ==
    ASSUME NEW d \in Documents, NEW S \in SUBSET DOMAIN d
    PROVE  IsFiniteSet(S) /\ S \in SUBSET Nat /\ Cardinality(S) \in Nat
<1>1. DOMAIN d = 1 .. Len(d) /\ Len(d) \in Nat
  BY DocumentType
<1>2. IsFiniteSet(1 .. Len(d))
  BY <1>1, FS_Interval
<1>3. IsFiniteSet(S) /\ S \in SUBSET Nat
  BY <1>1, <1>2, FS_Subset
<1> QED BY <1>3, FS_CardinalityType

\* What is put back is a document, in which the selection is what it was and
\* whose views are all below the next one.
LEMMA RevivedType ==
    ASSUME doc \in Documents, views \in Nat, \A v \in ViewsOf(doc) : v < views,
           NEW d \in Documents, \A v \in ViewsOf(d) : v < views, NEW e, e = Revived(d),
           NEW n, n = views + Cardinality(ViewsOf(e) \ ViewsOf(doc))
    PROVE  /\ e \in Documents /\ n \in Nat /\ n >= views /\ \A v \in ViewsOf(e) : v < n
           /\ \A s \in Spots(d) : s \in Spots(e)
<1> DEFINE D == {k \in DOMAIN d : d[k].kind = "upload" /\ d[k].ref \notin ViewsOf(doc)}
           New(k) == views + Numbered(D, k)
           C == Cardinality(D)
<1>1. D \in SUBSET DOMAIN d /\ D \in SUBSET Nat /\ IsFiniteSet(D) /\ C \in Nat
  BY LinesFinite
<1>2. \A k \in D : New(k) \in Nat /\ New(k) >= views /\ New(k) < views + C
  <2> TAKE k \in D
  <2> HIDE DEF D
  <2>1. PICK m \in Nat : m = Numbered(D, k)
    BY <1>1, NumberedType
  <2>2. PICK c \in Nat : c = C
    BY <1>1
  <2>3. m < c
    BY <1>1, <2>1, <2>2, NumberedType
  <2> QED BY <2>1, <2>2, <2>3
<1>3. \A k, l \in D : New(k) = New(l) => k = l
  <2> SUFFICES ASSUME NEW k \in D, NEW l \in D, k # l PROVE New(k) # New(l)
    OBVIOUS
  <2> HIDE DEF D
  <2>1. k < l \/ l < k
    BY <1>1
  <2>2. Numbered(D, k) < Numbered(D, l) \/ Numbered(D, l) < Numbered(D, k)
    BY <1>1, <2>1, NumberedType
  <2>3. Numbered(D, k) \in Nat /\ Numbered(D, l) \in Nat
    BY <1>1, NumberedType
  <2> QED BY <2>2, <2>3
<1>4. e = [k \in DOMAIN d |-> IF k \in D THEN [d[k] EXCEPT !.ref = New(k)] ELSE d[k]]
  BY DEF Revived, Numbered
<1>5. Len(d) \in Nat /\ DOMAIN d = 1 .. Len(d) /\ Len(d) >= 1
  BY DocumentType
<1>6. \A k \in D : New(k) \in Nat /\ k \in DOMAIN d
  BY <1>1, <1>2
<1>7. ASSUME NEW k \in DOMAIN d
      PROVE  /\ e[k] \in Lines /\ Plain(e[k]) /\ e[k].kind = d[k].kind /\ e[k].more = d[k].more /\ e[k].words = d[k].words
             /\ k \in D => e[k].ref = New(k)
             /\ k \notin D => e[k].ref = d[k].ref
  <2> HIDE DEF D, New
  <2>1. PICK line \in Lines : line = d[k] /\ Plain(line)
    BY DocumentType
  <2>2. CASE k \in D
    <3>1. PICK r \in Nat : r = New(k)
      BY <2>2, <1>6
    <3>2. e[k] = [line EXCEPT !.ref = r]
      BY <1>4, <2>1, <2>2, <3>1
    <3>3. e[k] \in Lines /\ e[k].kind = line.kind /\ e[k].more = line.more /\ e[k].words = line.words /\ e[k].ref = r
      BY <3>2 DEF Lines
    <3>4. Plain(e[k])
      BY <2>1, <3>3 DEF Plain, IsText
    <3> QED BY <2>1, <2>2, <3>1, <3>3, <3>4
  <2>3. CASE k \notin D
    <3>1. e[k] = line
      BY <1>4, <2>1, <2>3
    <3> QED BY <2>1, <2>3, <3>1
  <2> QED BY <2>2, <2>3
<1>8. e \in Seq(Lines) /\ Len(e) = Len(d) /\ DOMAIN e = DOMAIN d /\ e # <<>>
  <2> HIDE DEF D, New
  <2>1. e \in [1 .. Len(d) -> Lines]
    BY <1>4, <1>5, <1>7
  <2> QED BY <2>1, <1>5
<1>9. GoesOn(e)
  <2> SUFFICES ASSUME NEW k \in DOMAIN e, e[k].more
               PROVE  k > 1 /\ e[k].kind = e[k - 1].kind /\ e[k].kind \in Lists \cup {"quote"}
    BY DEF GoesOn
  <2> HIDE DEF D, New
  <2>1. k \in DOMAIN d /\ d[k].more
    BY <1>7, <1>8
  <2>2. k > 1 /\ d[k].kind = d[k - 1].kind /\ d[k].kind \in Lists \cup {"quote"}
    BY <2>1, DocumentType DEF GoesOn
  <2>3. k - 1 \in DOMAIN d
    BY <2>1, <2>2, <1>5
  <2> QED BY <2>1, <2>2, <2>3, <1>7
<1>10. \A k \in DOMAIN d : (d[k].kind = "upload" /\ k \notin D) => d[k].ref \in ViewsOf(doc) /\ d[k].ref < views
  OBVIOUS
<1>11. OwnViews(e)
  <2> SUFFICES ASSUME NEW k \in DOMAIN d, NEW l \in DOMAIN d, e[k].kind = "upload", e[l].kind = "upload", e[k].ref = e[l].ref
               PROVE  k = l
    BY <1>8 DEF OwnViews
  <2>0. d[k].kind = "upload" /\ d[l].kind = "upload"
    BY <1>7
  <2>1. CASE k \in D /\ l \in D
    <3>1. New(k) = New(l)
      <4> HIDE DEF New, D
      <4> QED BY <2>1, <1>7
    <3> HIDE DEF New, D
    <3> QED BY <2>1, <3>1, <1>3
  <2>2. CASE k \notin D /\ l \notin D
    <3>1. d[k].ref = d[l].ref
      BY <2>2, <1>7
    <3> QED BY <3>1, <2>0, DocumentType DEF OwnViews
  <2> DEFINE Apart(x, y) == x \in D /\ y \notin D
  <2>3. ASSUME NEW x \in D, NEW y \in DOMAIN d, y \notin D, d[y].kind = "upload" PROVE e[x].ref # e[y].ref
    <3>1. e[x].ref = New(x) /\ New(x) \in Nat /\ New(x) >= views
      BY <1>6, <1>7, <1>2
    <3>2. e[y].ref = d[y].ref /\ d[y].ref < views /\ d[y].ref \in Nat
      BY <2>3, <1>7, <1>10, DocumentType, LineType
    <3> HIDE DEF New
    <3> QED BY <3>1, <3>2
  <2> QED BY <2>0, <2>1, <2>2, <2>3
<1>12. e \in Documents
  BY <1>7, <1>8, <1>9, <1>11 DEF Documents
<1>13. ViewsOf(e) \ ViewsOf(doc) = {New(k) : k \in D}
  <2>1. ASSUME NEW v \in ViewsOf(e), v \notin ViewsOf(doc) PROVE \E k \in D : v = New(k)
    <3>1. PICK k \in DOMAIN d : e[k].kind = "upload" /\ v = e[k].ref
      BY <1>8 DEF ViewsOf
    <3>2. d[k].kind = "upload"
      BY <3>1, <1>7
    <3>3. k \in D
      BY <2>1, <3>1, <3>2, <1>7, <1>10
    <3> QED BY <3>1, <3>3, <1>7
  <2>2. ASSUME NEW k \in D PROVE New(k) \in ViewsOf(e) /\ New(k) \notin ViewsOf(doc)
    <3>1. k \in DOMAIN e /\ e[k].kind = "upload" /\ e[k].ref = New(k)
      BY <1>7, <1>8
    <3>2. New(k) \in Nat /\ New(k) >= views
      BY <1>2
    <3>3. New(k) \notin ViewsOf(doc)
      <4> HIDE DEF New
      <4> QED BY <3>2
    <3> QED BY <3>1, <3>3 DEF ViewsOf
  <2> HIDE DEF New, D
  <2> QED BY <2>1, <2>2
<1>14. Cardinality(ViewsOf(e) \ ViewsOf(doc)) = C
  <2> HIDE DEF D
  <2> QED BY <1>1, <1>13, NumbersType
<1>15. n = views + C /\ n \in Nat /\ n >= views
  <2> HIDE DEF C
  <2> QED BY <1>1, <1>14
<1>16. \A v \in ViewsOf(e) : v < n
  <2>1. ASSUME NEW v \in ViewsOf(doc) PROVE v < n
    <3>1. \A k \in DOMAIN doc : doc[k].ref \in Nat
      BY DocumentType, LineType
    <3>2. v \in Nat /\ v < views
      BY <3>1 DEF ViewsOf
    <3> QED BY <3>2, <1>15
  <2>2. ASSUME NEW v \in ViewsOf(e), v \notin ViewsOf(doc) PROVE v < n
    <3>1. PICK k \in D : v = New(k)
      BY <2>2, <1>13
    <3> HIDE DEF New, D, C
    <3> QED BY <3>1, <1>2, <1>15
  <2> QED BY <2>1, <2>2
<1>17. \A s \in Spots(d) : s \in Spots(e)
  <2>1. \A k \in DOMAIN d : e[k].kind = d[k].kind /\ e[k].more = d[k].more /\ Len(e[k].words) = Len(d[k].words)
    BY <1>7
  <2> HIDE DEF D, New, C
  <2> QED BY <2>1, <1>8, <1>12, AlikeSpots
<1> QED BY <1>12, <1>15, <1>16, <1>17

---------------------------------------------------------------------------
(* The invariant, part by part, and what a transaction keeps of it *)

TextOK == doc \in Documents /\ sel \in Spots(doc) /\ views \in Nat /\ \A v \in ViewsOf(doc) : v < views
PastOK == undo \in Seq(Pasts(views)) /\ redo \in Seq(Pasts(views))
ItemsOK == items \in SUBSET Files /\ \A it \in items : it.view \in ViewsOf(doc)
MenuOK ==
    /\ popup \in [mode : {"none", "commands"} \cup Submenus, at : Nat]
    /\ popup.mode = "commands" => Suggesting(doc, sel)
    /\ orphans \in SUBSET [mode : Submenus, at : Nat]
Links == [open : BOOLEAN, url : {"null", "empty", "href", "typed"}]

\* What a block shows is at work: its upload is its own, has the file, and
\* neither gave the file up nor was told to.
Working ==
    \A it \in items :
        LET u == uploads[it.set]
        IN  u.view = it.view /\ it.n \in DOMAIN u.res /\ it.n \notin u.aborted /\ u.res[it.n] # "null"
Inv == TypeOK /\ Working

\* The type invariant by parts, now and after a step.
LEMMA Parts ==
    TypeOK <=> /\ TextOK /\ PastOK /\ ItemsOK /\ MenuOK
               /\ uploads \in [Sets -> Uploads] /\ link \in Links /\ pending \in BOOLEAN /\ acts \in 0 .. MaxActs
BY DEF TypeOK, TextOK, PastOK, ItemsOK, MenuOK, Links

LEMMA PartsNext ==
    ASSUME TextOK', PastOK', ItemsOK', MenuOK', (uploads \in [Sets -> Uploads])', (link \in Links)',
           (pending \in BOOLEAN)', (acts \in 0 .. MaxActs)'
    PROVE  TypeOK'
BY DEF TypeOK, TextOK, PastOK, ItemsOK, MenuOK, Links

\* The history.
LEMMA LaterPasts ==
    ASSUME NEW v \in Nat, NEW w \in Nat, v <= w PROVE Pasts(v) \subseteq Pasts(w)
<1> SUFFICES ASSUME NEW h \in Pasts(v) PROVE h \in Pasts(w)
  OBVIOUS
<1>1. h \in [doc : Documents, sel : Spans] /\ h.sel \in Spots(h.doc) /\ \A x \in ViewsOf(h.doc) : x < v
  BY DEF Pasts
<1>2. \A x \in ViewsOf(h.doc) : x \in Nat
  <2>1. \A k \in DOMAIN h.doc : h.doc[k].ref \in Nat
    BY <1>1, DocumentType, LineType
  <2> QED BY <2>1 DEF ViewsOf
<1>3. \A x \in ViewsOf(h.doc) : x < w
  BY <1>1, <1>2
<1> QED BY <1>1, <1>3 DEF Pasts

LEMMA MoreSeq == ASSUME NEW P, NEW Q, P \subseteq Q, NEW s \in Seq(P) PROVE s \in Seq(Q)
OBVIOUS

\* A history that forgets its oldest document.
LEMMA RecentType ==
    ASSUME NEW P, NEW s \in Seq(P), NEW h \in P PROVE Recent(Append(s, h)) \in Seq(P)
<1>1. Append(s, h) \in Seq(P) /\ Append(s, h) # <<>>
  <2>1. Append(s, h) \in Seq(P) /\ Len(Append(s, h)) = Len(s) + 1 /\ Len(s) \in Nat
    OBVIOUS
  <2>2. Len(Append(s, h)) # 0
    BY <2>1
  <2>3. Len(<<>>) = 0
    OBVIOUS
  <2>4. Append(s, h) # <<>>
    BY <2>2, <2>3, Zenon
  <2> QED BY <2>1, <2>4
<1>2. Tail(Append(s, h)) \in Seq(P)
  BY <1>1
<1> QED BY <1>1, <1>2 DEF Recent

\* The present goes into the history.
LEMMA NowPast == ASSUME TextOK PROVE [doc |-> doc, sel |-> sel] \in Pasts(views)
BY DEF TextOK, Pasts, Spots

LEMMA RememberKeeps ==
    ASSUME TextOK, PastOK, NEW d, Remember(d), views' \in Nat, views <= views' PROVE PastOK'
<1>1. views \in Nat /\ Pasts(views) \subseteq Pasts(views')
  BY LaterPasts DEF TextOK
<1>2. [doc |-> doc, sel |-> sel] \in Pasts(views)
  BY NowPast
<1>3. Recent(Append(undo, [doc |-> doc, sel |-> sel])) \in Seq(Pasts(views)) /\ <<>> \in Seq(Pasts(views))
  BY <1>2, RecentType DEF PastOK
<1>4. undo' \in Seq(Pasts(views)) /\ redo' \in Seq(Pasts(views))
  BY <1>3 DEF Remember, PastOK
<1>5. undo' \in Seq(Pasts(views')) /\ redo' \in Seq(Pasts(views'))
  BY <1>1, <1>4, MoreSeq
<1> QED BY <1>5 DEF PastOK, Pasts

\* Blocks that left the document show no files.
LEMMA BecomesKeeps ==
    ASSUME ItemsOK, NEW d \in Documents, NEW s \in Spots(d), Becomes(d, s), views' \in Nat, \A v \in ViewsOf(d) : v < views'
    PROVE  TextOK' /\ ItemsOK' /\ items' \subseteq items
<1>1. doc' = d /\ sel' = s /\ items' = {it \in items : it.view \in ViewsOf(d)}
  BY DEF Becomes, Mounted
<1>2. TextOK'
  BY <1>1 DEF TextOK
<1> QED BY <1>1, <1>2 DEF ItemsOK

\* The popup follows the cursor: while it lists commands there is a slash before it.
LEMMA SuggestKeeps ==
    ASSUME MenuOK, NEW d, NEW s, doc' = d, sel' = s, Suggest(d, s)
    PROVE  MenuOK'
<1>1. Starts(d, s) => Suggesting(d, s)
  BY DEF Starts
<1>2. ~Stops(d, s) /\ popup.mode = "commands" => Suggesting(d, s)
  BY DEF Stops, MenuOK
<1>3. popup' \in [mode : {"none", "commands"} \cup Submenus, at : Nat]
  BY DEF Suggest, Popup, NoPopup, MenuOK
<1>4. popup'.mode = "commands" => Suggesting(d, s)
  BY <1>1, <1>2 DEF Suggest, Popup, NoPopup
<1>5. orphans' \in SUBSET [mode : Submenus, at : Nat]
  <2>1. popup.mode \in Submenus => popup \in [mode : Submenus, at : Nat]
    BY DEF MenuOK
  <2> QED BY <2>1 DEF Suggest, Orphaned, MenuOK
<1>6. Suggesting(doc, sel)' <=> Suggesting(d, s)
  BY DEF Suggesting
<1> QED BY <1>3, <1>4, <1>5, <1>6 DEF MenuOK

\* The address the popover takes is one it may have.
LEMMA ListenedType == ASSUME link \in Links, NEW d, NEW s PROVE Listened(d, s) \in Links
<1>2. (IsLinkActive(d, s) /\ ~IsLinkActive(doc, sel)) \in BOOLEAN
  BY Zenon
<1>3. LinkOf(d, s) \in {"null", "empty", "href", "typed"} /\ link.url \in {"null", "empty", "href", "typed"}
  BY DEF LinkOf, Links
<1> QED BY <1>2, <1>3 DEF Listened, Links

\* Files that are no longer shown need no upload.
LEMMA WorkingKept ==
    ASSUME Working, items' \subseteq items, uploads' = uploads PROVE Working'
BY DEF Working

\* A transaction keeps the invariant when it makes a document and a selection in it.
LEMMA TransactKeeps ==
    ASSUME Inv, NEW d \in Documents, NEW s \in Spots(d), Transact(d, s), views' \in Nat, views <= views',
           \A v \in ViewsOf(d) : v < views', uploads' = uploads,
           link' \in Links, pending' \in BOOLEAN, acts' \in 0 .. MaxActs
    PROVE  Inv'
<1>1. TextOK /\ PastOK /\ ItemsOK /\ MenuOK /\ uploads \in [Sets -> Uploads] /\ Working
  BY Parts DEF Inv
<1>2. Becomes(d, s) /\ Remember(d) /\ Suggest(d, s) /\ doc' = d /\ sel' = s
  BY DEF Transact, Becomes
<1>3. TextOK' /\ ItemsOK' /\ items' \subseteq items
  BY <1>1, <1>2, BecomesKeeps
<1>4. PastOK'
  BY <1>1, <1>2, RememberKeeps
<1>5. MenuOK'
  BY <1>1, <1>2, SuggestKeeps
<1>6. Working'
  BY <1>1, <1>3, WorkingKept
<1>7. (uploads \in [Sets -> Uploads])'
  BY <1>1
<1>8. TypeOK'
  BY <1>3, <1>4, <1>5, <1>7, PartsNext DEF Links
<1> QED BY <1>6, <1>8 DEF Inv

LEMMA ChainKeeps ==
    ASSUME Inv, NEW d \in Documents, NEW s \in Spots(d), Chain(d, s), ViewsOf(d) \subseteq ViewsOf(doc),
           acts' \in 0 .. MaxActs
    PROVE  Inv'
<1>1. TextOK /\ link \in Links /\ pending \in BOOLEAN
  BY Parts DEF Inv
<1>2. Transact(d, s) /\ link' = Listened(d, s) /\ views' = views /\ uploads' = uploads /\ pending' = pending
  BY DEF Chain
<1>3. link' \in Links
  BY <1>1, <1>2, ListenedType
<1>4. views' \in Nat /\ views <= views' /\ \A v \in ViewsOf(d) : v < views'
  BY <1>1, <1>2 DEF TextOK
<1> QED BY <1>1, <1>2, <1>3, <1>4, TransactKeeps

\* The user's acts are counted.
LEMMA ActKeeps == ASSUME Inv, Act PROVE acts' \in 0 .. MaxActs /\ pending = FALSE
<1>1. acts \in 0 .. MaxActs /\ MaxActs \in Nat /\ pending \in BOOLEAN
  BY EditorAssumption, Parts DEF Inv
<1> QED BY <1>1 DEF Act

LEMMA InvText == ASSUME Inv PROVE doc \in Documents /\ sel \in Spots(doc) /\ views \in Nat /\ \A v \in ViewsOf(doc) : v < views
BY Parts DEF Inv, TextOK

\* What the user does in the text.
LEMMA SelectionsAreSpots == ASSUME NEW d \in Documents, NEW s \in Selections(d) PROVE s \in Spots(d)
<1>1. \A l \in DOMAIN d : Len(d[l].words) \in Nat /\ Len(d[l].words) <= Len(d[l].words) /\ l \in Nat
  BY DocumentType, LineType
<1>2. ASSUME NEW l \in DOMAIN d, IsText(d[l])
      PROVE  Cursor(l, 0) \in Spots(d) /\ Cursor(l, Len(d[l].words)) \in Spots(d)
  BY <1>1, <1>2, TextStart, CursorSpot
<1>3. ASSUME NEW a \in DOMAIN d, NEW b \in DOMAIN d, a < b, Together(d, a, b) PROVE Whole(a, b) \in Spots(d)
  <2>1. a <= b
    BY <1>1, <1>3
  <2> QED BY <1>3, <2>1, WholeSpot
<1>4. CASE \E l \in DOMAIN d : IsText(d[l]) /\ (s = Cursor(l, 0) \/ s = Cursor(l, Len(d[l].words)))
  BY <1>2, <1>4
<1>5. CASE \E l \in DOMAIN d : s = Whole(l, l)
  BY <1>5, WholeLine
<1>6. CASE \E a, b \in DOMAIN d : a < b /\ Together(d, a, b) /\ s = Whole(a, b)
  BY <1>3, <1>6
<1> QED BY <1>4, <1>5, <1>6 DEF Selections

LEMMA SelectKeeps == ASSUME Inv, Select PROVE Inv'
<1>1. PICK s \in Selections(doc) : Act /\ Chain(doc, s)
  BY DEF Select
<1>2. doc \in Documents /\ s \in Spots(doc)
  BY InvText, SelectionsAreSpots
<1> QED BY <1>1, <1>2, ActKeeps, ChainKeeps

LEMMA PutKeeps == ASSUME Inv, Act, ~sel.all, NEW w \in Words \cup {Slash, Url}, Put(w) PROVE Inv'
<1>1. PICK d : d = PutWord(doc, sel, Word(w, MarksAt(doc, sel)))
  OBVIOUS
<1>2. d \in Documents /\ ViewsOf(d) \subseteq ViewsOf(doc) /\ [sel EXCEPT !.o = @ + 1] \in Spots(d)
  <2>1. doc \in Documents /\ sel \in Spots(doc)
    BY InvText
  <2> QED BY <1>1, <2>1, PutWordType
<1>3. Chain(d, [sel EXCEPT !.o = @ + 1])
  BY <1>1 DEF Put
<1> QED BY <1>2, <1>3, ActKeeps, ChainKeeps

LEMMA TypeWordKeeps == ASSUME Inv, TypeWord PROVE Inv'
<1> DEFINE free == {w \in Words : \A k \in DOMAIN doc : \A n \in DOMAIN doc[k].words : doc[k].words[n].id # w}
<1>1. ~sel.all /\ free # {} /\ Act /\ Put(CHOOSE w \in free : TRUE)
  BY DEF TypeWord
<1>2. (CHOOSE w \in free : TRUE) \in free
  BY <1>1
<1>3. (CHOOSE w \in free : TRUE) \in Words \cup {Slash, Url}
  BY <1>2
<1> QED BY <1>1, <1>3, PutKeeps

LEMMA TypeSlashKeeps == ASSUME Inv, TypeSlash PROVE Inv'
<1>1. ~sel.all /\ Act /\ Put(Slash)
  BY DEF TypeSlash
<1> QED BY <1>1, PutKeeps

LEMMA DeleteNodeKeeps == ASSUME Inv, DeleteNode PROVE Inv'
<1>1. doc \in Documents /\ sel \in Spots(doc) /\ Act
  BY InvText DEF DeleteNode
<1>2. PICK p \in Nat : p = Start(doc, sel.i)
  BY <1>1, SpotType, DocumentType, StartType
<1>3. PICK d : d = DeleteAt(doc, p)
  OBVIOUS
<1>4. d \in Documents /\ ViewsOf(d) \subseteq ViewsOf(doc)
  BY <1>1, <1>3, DeleteAtType
<1>5. Total(d) \in Nat /\ Total(d) >= 1
  BY <1>4, TotalType
<1>6. PICK q \in Nat : q = Total(d) - 1 /\ q < Total(d)
  BY <1>5
<1>7. Min({p, q}) \in Nat /\ Min({p, q}) <= q
  BY OfTwo
<1>8. PICK m \in Nat : m = Min({p, q}) /\ m < Total(d)
  BY <1>5, <1>6, <1>7
<1>9. At(d, m) \in Spots(d)
  BY <1>4, <1>8, AtType
<1>10. Chain(d, At(d, m))
  BY <1>2, <1>3, <1>6, <1>8 DEF DeleteNode
<1> QED BY <1>1, <1>4, <1>9, <1>10, ActKeeps, ChainKeeps

\* The toolbar.
LEMMA TurnToKeeps ==
    ASSUME Inv, Act, CanTurn, NEW d, Turned(doc, d, LastTurned(doc, sel)), TurnTo(d) PROVE Inv'
<1>1. doc \in Documents
  BY InvText
<1>2. d \in Documents /\ AfterTurn(doc, sel, d) \in Spots(d) /\ ViewsOf(d) \subseteq ViewsOf(doc)
  BY <1>1, TurnedSpot DEF AfterTurn, LastTurned
<1> QED BY <1>2, ActKeeps, ChainKeeps DEF TurnTo

LEMMA HeadingKeeps == ASSUME Inv, HeadingDropdownMenu PROVE Inv'
<1>1. PICK level \in Levels : Act /\ CanTurn /\ TurnTo(TurnedHeading(doc, sel, level))
  BY DEF HeadingDropdownMenu, HeadingButton, UseHeading, CanHeading
<1>2. doc \in Documents /\ sel \in Spots(doc) /\ ~(sel.all /\ OnAtom(doc, sel))
  BY <1>1, InvText DEF CanTurn
<1>3. Turned(doc, TurnedHeading(doc, sel, level), LastTurned(doc, sel))
  BY <1>2, TurnedHeadingType
<1> QED BY <1>1, <1>3, TurnToKeeps

LEMMA ListKeeps == ASSUME Inv, ListDropdownMenu PROVE Inv'
<1>1. PICK type \in Lists : Act /\ CanTurn /\ TurnTo(TurnedList(doc, sel, type))
  BY DEF ListDropdownMenu, ListButton, UseList, CanToggleList
<1>2. doc \in Documents /\ sel \in Spots(doc) /\ ~(sel.all /\ OnAtom(doc, sel))
  BY <1>1, InvText DEF CanTurn
<1>3. Turned(doc, TurnedList(doc, sel, type), LastTurned(doc, sel))
  BY <1>2, TurnedListType
<1> QED BY <1>1, <1>3, TurnToKeeps

LEMMA CodeKeeps == ASSUME Inv, CodeBlockButton PROVE Inv'
<1>1. Act /\ CanTurn /\ TurnTo(TurnedCode(doc, sel))
  BY DEF CodeBlockButton, UseCodeBlock, CanCodeBlock
<1>2. doc \in Documents /\ sel \in Spots(doc) /\ ~(sel.all /\ OnAtom(doc, sel))
  BY <1>1, InvText DEF CanTurn
<1>3. Turned(doc, TurnedCode(doc, sel), LastTurned(doc, sel))
  BY <1>2, TurnedCodeType
<1> QED BY <1>1, <1>3, TurnToKeeps

LEMMA BlockquoteKeeps == ASSUME Inv, BlockquoteButton PROVE Inv'
<1>1. Act /\ CanTurn /\ TurnTo(TurnedQuote(doc, sel))
  BY DEF BlockquoteButton, UseBlockquote, CanBlockquote
<1>2. doc \in Documents /\ sel \in Spots(doc) /\ ~(sel.all /\ OnAtom(doc, sel))
  BY <1>1, InvText DEF CanTurn
<1>3. Turned(doc, TurnedQuote(doc, sel), LastTurned(doc, sel))
  BY <1>2, TurnedQuoteType
<1> QED BY <1>1, <1>3, TurnToKeeps

LEMMA RepaintKeeps ==
    ASSUME Inv, NEW d, Repainted(doc, d), Chain(d, sel), acts' \in 0 .. MaxActs PROVE Inv'
<1>1. doc \in Documents /\ sel \in Spots(doc)
  BY InvText
<1>2. d \in Documents /\ ViewsOf(d) \subseteq ViewsOf(doc)
  BY DEF Repainted, Reworked
<1>3. sel \in Spots(d)
  BY <1>1, RepaintedSpots
<1> QED BY <1>2, <1>3, ChainKeeps

LEMMA MarkNames == "bold" \in Marks /\ "link" \in Marks /\ "highlight" \in Marks
BY DEF Marks

LEMMA MarkKeeps == ASSUME Inv, MarkButton PROVE Inv'
<1>1. Act /\ Chain(ToggledMark(doc, sel, "bold"), sel)
  BY DEF MarkButton, UseMark
<1>2. Repainted(doc, ToggledMark(doc, sel, "bold"))
  BY InvText, MarkNames, ToggledMarkType
<1> QED BY <1>1, <1>2, ActKeeps, RepaintKeeps

LEMMA AlignKeeps == ASSUME Inv, TextAlignButton PROVE Inv'
<1> DEFINE d == AlterLines(doc, Selected(sel),
                    LAMBDA line : IF line.kind = "code" THEN line ELSE [line EXCEPT !.align = "center"])
<1>1. Act /\ Chain(d, sel)
  BY DEF TextAlignButton, UseTextAlign, SetTextAlign
<1>2. Repainted(doc, d)
  BY InvText, AlignedType
<1> HIDE DEF d
<1> QED BY <1>1, <1>2, ActKeeps, RepaintKeeps

\* What leaves the text alone.
LEMMA TextStays ==
    ASSUME Inv, UNCHANGED textVars, UNCHANGED uploadVars, (link \in Links)', (pending \in BOOLEAN)', acts' \in 0 .. MaxActs,
           popup' = popup \/ (popup' \in [mode : {"none"} \cup Submenus, at : Nat]), orphans' = orphans
    PROVE  Inv'
<1>1. TextOK /\ PastOK /\ ItemsOK /\ MenuOK /\ uploads \in [Sets -> Uploads] /\ Working
  BY Parts DEF Inv
<1>2. doc' = doc /\ sel' = sel /\ undo' = undo /\ redo' = redo /\ views' = views /\ items' = items /\ uploads' = uploads
  BY DEF textVars, uploadVars
<1>3. TextOK' /\ PastOK' /\ ItemsOK' /\ (uploads \in [Sets -> Uploads])'
  BY <1>1, <1>2 DEF TextOK, PastOK, ItemsOK
<1>4. MenuOK'
  <2>1. Suggesting(doc, sel)' <=> Suggesting(doc, sel)
    BY <1>2 DEF Suggesting
  <2>2. CASE popup' = popup
    BY <1>1, <2>1, <2>2 DEF MenuOK
  <2>3. CASE popup' \in [mode : {"none"} \cup Submenus, at : Nat]
    BY <1>1, <2>3 DEF MenuOK, Submenus
  <2> QED BY <2>2, <2>3
<1>5. Working'
  BY <1>1, <1>2, WorkingKept
<1>6. TypeOK'
  BY <1>3, <1>4, PartsNext
<1> QED BY <1>5, <1>6 DEF Inv

LEMMA LinkPending == ASSUME Inv PROVE link \in Links /\ pending \in BOOLEAN /\ acts \in 0 .. MaxActs
BY Parts DEF Inv

LEMMA HighlightKeeps == ASSUME Inv, ColorHighlightPopover PROVE Inv'
<1>1. CASE ColorHighlightButton
  <2>1. Act /\ pending' = TRUE /\ UNCHANGED <<textVars, uploadVars, menuVars, link>>
    BY <1>1 DEF ColorHighlightButton, UseColorHighlight
  <2>2. UNCHANGED textVars /\ UNCHANGED uploadVars /\ popup' = popup /\ orphans' = orphans /\ link' = link
    BY <2>1 DEF menuVars
  <2>3. (link \in Links)' /\ (pending \in BOOLEAN)'
    BY <2>1, <2>2, LinkPending DEF Links
  <2> QED BY <2>1, <2>2, <2>3, ActKeeps, TextStays
<1>2. CASE RemoveHighlight
  <2>1. Act /\ Chain(UnsetMark(doc, Selected(sel), "highlight"), sel)
    BY <1>2 DEF RemoveHighlight
  <2>2. Repainted(doc, UnsetMark(doc, Selected(sel), "highlight"))
    BY InvText, MarkNames, UnsetMarkType
  <2> QED BY <2>1, <2>2, ActKeeps, RepaintKeeps
<1> QED BY <1>1, <1>2 DEF ColorHighlightPopover

LEMMA RepaintedSame == ASSUME NEW d \in Documents PROVE Repainted(d, d)
<1>1. Reworked(d, d)
  BY ReworkedSame
<1>2. \A k \in DOMAIN d : Painted(d[k], d[k])
  BY PaintedSame
<1> QED BY <1>1, <1>2 DEF Repainted

LEMMA FiresKeeps == ASSUME Inv, HighlightFires PROVE Inv'
<1>1. PICK d : /\ d = (IF sel.all THEN ToggledMark(doc, sel, "highlight") ELSE doc)
               /\ Transact(d, sel) /\ link' = Listened(d, sel)
  BY DEF HighlightFires
<1>2. doc \in Documents /\ sel \in Spots(doc) /\ views \in Nat /\ \A v \in ViewsOf(doc) : v < views
  BY InvText
<1>3. Repainted(doc, d)
  BY <1>1, <1>2, MarkNames, ToggledMarkType, RepaintedSame
<1>4. d \in Documents /\ ViewsOf(d) \subseteq ViewsOf(doc) /\ sel \in Spots(d)
  BY <1>2, <1>3, RepaintedSpots DEF Repainted, Reworked
<1>5. views' = views /\ uploads' = uploads /\ acts' = acts /\ pending' = FALSE
  BY DEF HighlightFires
<1>6. link' \in Links /\ acts' \in 0 .. MaxActs /\ pending' \in BOOLEAN
  BY <1>1, <1>5, LinkPending, ListenedType
<1>7. views' \in Nat /\ views <= views' /\ \A v \in ViewsOf(d) : v < views'
  BY <1>2, <1>4, <1>5
<1> QED BY <1>1, <1>4, <1>5, <1>6, <1>7, TransactKeeps

\* Undo and redo.
LEMMA RestoreKeeps ==
    ASSUME Inv, Act, NEW old \in Pasts(views), Restore(old),
           undo' \in Seq(Pasts(views)), redo' \in Seq(Pasts(views))
    PROVE  Inv'
<1>1. TextOK /\ PastOK /\ ItemsOK /\ MenuOK /\ uploads \in [Sets -> Uploads] /\ Working
  BY Parts DEF Inv
<1>2. old.doc \in Documents /\ old.sel \in Spots(old.doc) /\ \A v \in ViewsOf(old.doc) : v < views
  BY DEF Pasts
<1>3. PICK d : d = Revived(old.doc)
  OBVIOUS
<1>4. /\ Becomes(d, old.sel) /\ Suggest(d, old.sel) /\ link' = Listened(d, old.sel)
      /\ views' = views + Cardinality(ViewsOf(d) \ ViewsOf(doc)) /\ uploads' = uploads /\ pending' = pending
  BY <1>3 DEF Restore
<1>5. doc \in Documents /\ views \in Nat /\ \A v \in ViewsOf(doc) : v < views
  BY InvText
<1>6. d \in Documents
  BY <1>2, <1>3, <1>5, RevivedType
<1>7. views' \in Nat /\ views' >= views
  BY <1>2, <1>3, <1>4, <1>5, RevivedType
<1>8. \A v \in ViewsOf(d) : v < views'
  BY <1>2, <1>3, <1>4, <1>5, RevivedType
<1>9. old.sel \in Spots(d)
  BY <1>2, <1>3, <1>5, RevivedType
<1>10. TextOK' /\ ItemsOK' /\ items' \subseteq items
  BY <1>1, <1>4, <1>6, <1>7, <1>8, <1>9, BecomesKeeps
<1>11. PastOK'
  <2>1. Pasts(views) \subseteq Pasts(views')
    BY <1>5, <1>7, LaterPasts
  <2>2. undo' \in Seq(Pasts(views')) /\ redo' \in Seq(Pasts(views'))
    BY <2>1, MoreSeq
  <2> QED BY <2>2 DEF PastOK, Pasts
<1>12. MenuOK'
  <2>1. doc' = d /\ sel' = old.sel
    BY <1>4 DEF Becomes
  <2> QED BY <1>1, <1>4, <2>1, SuggestKeeps
<1>13. Working' /\ (uploads \in [Sets -> Uploads])'
  BY <1>1, <1>4, <1>10, WorkingKept
<1>14. link' \in Links /\ pending' \in BOOLEAN /\ acts' \in 0 .. MaxActs
  BY <1>4, LinkPending, ActKeeps, ListenedType
<1>15. TypeOK'
  BY <1>10, <1>11, <1>12, <1>13, <1>14, PartsNext DEF Links
<1> QED BY <1>13, <1>15 DEF Inv

\* What is left of the history.
LEMMA PrefixType ==
    ASSUME NEW P, NEW s \in Seq(P), NEW k \in DOMAIN s PROVE s[k] \in P /\ SubSeq(s, 1, k - 1) \in Seq(P)
<1>1. k \in 1 .. Len(s) /\ Len(s) \in Nat
  OBVIOUS
<1>2. PICK m \in Nat : m = k - 1 /\ m <= Len(s)
  BY <1>1
<1>3. SubSeq(s, 1, m) \in Seq(P)
  BY <1>2, CutType
<1> QED BY <1>2, <1>3

LEMMA UndoRedoKeeps == ASSUME Inv, UndoRedoButton PROVE Inv'
<1>1. undo \in Seq(Pasts(views)) /\ redo \in Seq(Pasts(views)) /\ TextOK
  BY Parts DEF Inv, PastOK
<1>2. [doc |-> doc, sel |-> sel] \in Pasts(views)
  BY <1>1, NowPast
<1>3. CASE Act /\ Undo
  <2>1. PICK k \in DOMAIN undo :
          Restore(undo[k]) /\ undo' = SubSeq(undo, 1, k - 1) /\ redo' = Recent(Append(redo, [doc |-> doc, sel |-> sel]))
    BY <1>3 DEF Undo
  <2>2. undo[k] \in Pasts(views) /\ undo' \in Seq(Pasts(views))
    BY <1>1, <2>1, PrefixType
  <2>3. redo' \in Seq(Pasts(views))
    BY <1>1, <1>2, <2>1, RecentType
  <2> QED BY <1>3, <2>1, <2>2, <2>3, RestoreKeeps
<1>4. CASE Act /\ Redo
  <2>1. redo # <<>> /\ Restore(Last(redo)) /\ redo' = Front(redo) /\ undo' = Recent(Append(undo, [doc |-> doc, sel |-> sel]))
    BY <1>4 DEF Redo
  <2>2. PICK k \in DOMAIN redo : k = Len(redo)
    BY <1>1, <2>1
  <2>3. Last(redo) = redo[k] /\ Front(redo) = SubSeq(redo, 1, k - 1)
    BY <2>2 DEF Last, Front
  <2>4. redo[k] \in Pasts(views) /\ redo' \in Seq(Pasts(views))
    BY <1>1, <2>1, <2>3, PrefixType
  <2>5. undo' \in Seq(Pasts(views))
    BY <1>1, <1>2, <2>1, RecentType
  <2>6. Restore(redo[k])
    BY <2>1, <2>3
  <2> QED BY <1>4, <2>4, <2>5, <2>6, RestoreKeeps
<1> QED BY <1>3, <1>4 DEF UndoRedoButton, UseUndoRedo

\* The link popover.
LEMMA LinkKeeps == ASSUME Inv, LinkPopover PROVE Inv'
<1>1. CASE ClickLink \/ TypeUrl
  <2>1. Act /\ UNCHANGED textVars /\ UNCHANGED uploadVars /\ UNCHANGED menuVars /\ pending' = pending
    BY <1>1 DEF ClickLink, TypeUrl
  <2>2. link \in Links /\ pending \in BOOLEAN
    BY LinkPending
  <2>3. link' = [link EXCEPT !.open = ~link.open] \/ link' = [link EXCEPT !.url = "typed"]
    BY <1>1 DEF ClickLink, TypeUrl
  <2>4. link' \in Links
    BY <2>2, <2>3 DEF Links
  <2>5. (link \in Links)' /\ (pending \in BOOLEAN)' /\ popup' = popup /\ orphans' = orphans
    BY <2>1, <2>2, <2>4 DEF Links, menuVars
  <2> QED BY <2>1, <2>5, ActKeeps, TextStays
<1>2. CASE SetLink
  <2>1. /\ Act /\ Transact(WithLink, AfterLink) /\ views' = views /\ uploads' = uploads /\ pending' = pending
        /\ link' = [open |-> FALSE, url |-> IF IsLinkActive(WithLink, AfterLink) THEN "href" ELSE "null"]
    BY <1>2 DEF SetLink
  <2>2. doc \in Documents /\ sel \in Spots(doc) /\ views \in Nat /\ \A v \in ViewsOf(doc) : v < views
    BY InvText
  <2>3. PICK d, s : /\ d = WithLink /\ s = AfterLink
                    /\ d \in Documents /\ s \in Spots(d) /\ ViewsOf(d) \subseteq ViewsOf(doc)
    BY <2>2, WithLinkType
  <2>4. link' \in Links
    BY <2>1 DEF Links
  <2>5. views' \in Nat /\ views <= views' /\ \A v \in ViewsOf(d) : v < views'
    BY <2>1, <2>2, <2>3
  <2>6. Transact(d, s) /\ uploads' = uploads /\ pending' \in BOOLEAN /\ acts' \in 0 .. MaxActs
    BY <2>1, <2>3, ActKeeps, LinkPending
  <2> QED BY <2>3, <2>4, <2>5, <2>6, TransactKeeps
<1>3. CASE RemoveLink
  <2>1. /\ Act /\ Transact(UnsetMark(doc, Selected(sel), "link"), sel) /\ views' = views /\ uploads' = uploads /\ pending' = pending
        /\ link' = [open |-> FALSE, url |-> "empty"]
    BY <1>3 DEF RemoveLink
  <2>2. doc \in Documents /\ sel \in Spots(doc) /\ views \in Nat /\ \A v \in ViewsOf(doc) : v < views
    BY InvText
  <2>3. PICK d : d = UnsetMark(doc, Selected(sel), "link")
    OBVIOUS
  <2>4. Repainted(doc, d)
    BY <2>2, <2>3, MarkNames, UnsetMarkType
  <2>5. d \in Documents /\ ViewsOf(d) \subseteq ViewsOf(doc) /\ sel \in Spots(d)
    BY <2>2, <2>4, RepaintedSpots DEF Repainted, Reworked
  <2>6. link' \in Links
    BY <2>1 DEF Links
  <2>7. views' \in Nat /\ views <= views' /\ \A v \in ViewsOf(d) : v < views'
    BY <2>1, <2>2, <2>5
  <2>8. Transact(d, sel) /\ uploads' = uploads /\ pending' \in BOOLEAN /\ acts' \in 0 .. MaxActs
    BY <2>1, <2>3, ActKeeps, LinkPending
  <2> QED BY <2>5, <2>6, <2>7, <2>8, TransactKeeps
<1> QED BY <1>1, <1>2, <1>3 DEF LinkPopover

\* A block put in: an upload block has the next view.
LEMMA UploadKeeps ==
    ASSUME Inv, NEW b \in Documents, NEW t \in Spots(b), ViewsOf(b) \subseteq ViewsOf(doc), CanInsert(b, t), Act,
           Transact(Inserted(b, t, NewUpload), AfterInsert(b, t)),
           link' = Listened(Inserted(b, t, NewUpload), AfterInsert(b, t)),
           views' = views + 1, uploads' = uploads, pending' = pending
    PROVE  Inv'
<1>1. doc \in Documents /\ views \in Nat /\ \A v \in ViewsOf(doc) : v < views
  BY InvText
<1>2. views \notin ViewsOf(b) /\ "upload" \in Atoms
  BY <1>1 DEF Atoms
<1>3. (t.all /\ OnAtom(b, t)) \/ \A k \in Selected(t) : IsTop(b[k])
  BY DEF CanInsert
<1>4. PICK d, s : d = Inserted(b, t, Atom("upload", views)) /\ s = AfterInsert(b, t)
  OBVIOUS
<1>5. d \in Documents
  BY <1>1, <1>2, <1>3, <1>4, InsertedType
<1>6. s \in Spots(d)
  BY <1>1, <1>2, <1>3, <1>4, InsertedType
<1>7. \A v \in ViewsOf(d) : v \in ViewsOf(b) \/ v = views
  BY <1>1, <1>2, <1>3, <1>4, InsertedType
<1>8. Transact(d, s) /\ link' = Listened(d, s)
  BY <1>4 DEF NewUpload
<1>9. link' \in Links /\ pending' \in BOOLEAN /\ acts' \in 0 .. MaxActs
  BY <1>8, ActKeeps, LinkPending, ListenedType
<1>10. views' \in Nat /\ views <= views'
  BY <1>1
<1>11. \A v \in ViewsOf(d) : v < views'
  <2> TAKE v \in ViewsOf(d)
  <2>1. v = views \/ v \in ViewsOf(doc)
    BY <1>7
  <2>2. \A k \in DOMAIN doc : doc[k].ref \in Nat
    BY <1>1, DocumentType, LineType
  <2>3. v \in Nat /\ v <= views
    BY <2>1, <2>2, <1>1 DEF ViewsOf
  <2> QED BY <2>3, <1>1
<1> QED BY <1>5, <1>6, <1>8, <1>9, <1>10, <1>11, TransactKeeps

\* A frame or a rule put in has no view.
LEMMA OtherInserted ==
    ASSUME NEW b \in Documents, NEW t \in Spots(b), CanInsert(b, t), NEW kind \in {"frame", "rule"},
           NEW e, e = Inserted(b, t, Atom(kind, 0))
    PROVE  /\ e \in Documents /\ AfterInsert(b, t) \in Spots(e) /\ ViewsOf(e) \subseteq ViewsOf(b)
           /\ (IF Replaced(b, t) THEN t.i ELSE t.i + 1) \in DOMAIN e
<1>1. kind \in Atoms /\ kind # "upload" /\ 0 \in Nat
  BY DEF Atoms
<1>2. (t.all /\ OnAtom(b, t)) \/ \A k \in Selected(t) : IsTop(b[k])
  BY DEF CanInsert
<1>3. PICK s : s = AfterInsert(b, t)
  OBVIOUS
<1>4. e \in Documents
  BY <1>1, <1>2, <1>3, InsertedType
<1>5. s \in Spots(e)
  BY <1>1, <1>2, <1>3, InsertedType
<1>6. \A v \in ViewsOf(e) : v \in ViewsOf(b)
  BY <1>1, <1>2, <1>3, InsertedType
<1>7. (IF Replaced(b, t) THEN t.i ELSE t.i + 1) \in DOMAIN e
  BY <1>1, <1>2, <1>3, InsertedType
<1> QED BY <1>3, <1>4, <1>5, <1>6, <1>7

LEMMA ImageButtonKeeps == ASSUME Inv, ImageUploadButton PROVE Inv'
<1>1. doc \in Documents /\ sel \in Spots(doc) /\ ViewsOf(doc) \subseteq ViewsOf(doc)
  BY InvText
<1>2. /\ Act /\ CanInsert(doc, sel) /\ Transact(Inserted(doc, sel, NewUpload), AfterInsert(doc, sel))
      /\ link' = Listened(Inserted(doc, sel, NewUpload), AfterInsert(doc, sel))
      /\ views' = views + 1 /\ uploads' = uploads /\ pending' = pending
  BY DEF ImageUploadButton, InsertImage
<1> QED BY <1>1, <1>2, UploadKeeps

LEMMA BoardButtonKeeps == ASSUME Inv, WhiteboardEmbedButton PROVE Inv'
<1>1. doc \in Documents /\ sel \in Spots(doc)
  BY InvText
<1>2. PICK d : d = Inserted(doc, sel, Atom("frame", 0))
  OBVIOUS
<1>3. Act /\ CanInsert(doc, sel) /\ Chain(d, AfterInsert(doc, sel))
  BY <1>2 DEF WhiteboardEmbedButton
<1>4. d \in Documents
  BY <1>1, <1>2, <1>3, OtherInserted
<1>5. AfterInsert(doc, sel) \in Spots(d)
  BY <1>1, <1>2, <1>3, OtherInserted
<1>6. ViewsOf(d) \subseteq ViewsOf(doc)
  BY <1>1, <1>2, <1>3, OtherInserted
<1> QED BY <1>3, <1>4, <1>5, <1>6, ActKeeps, ChainKeeps

\* Slash commands.
LEMMA ChoosingType ==
    ASSUME Inv, Choosing
    PROVE  /\ Act /\ Reworked(doc, Slashed) /\ Back \in Spots(Slashed) /\ ~Back.all /\ Back.i = sel.i
           /\ sel.i \in DOMAIN Slashed /\ IsText(Slashed[sel.i])
<1>1. Act /\ Suggesting(doc, sel)
  BY Parts DEF Choosing, Inv, MenuOK
<1>2. doc \in Documents /\ sel \in Spots(doc) /\ ~sel.all /\ sel.o > 0
  BY <1>1, InvText DEF Suggesting
<1>3. PICK e, t : e = DeleteAt(doc, Here(doc, sel)) /\ t = [sel EXCEPT !.o = @ - 1]
  OBVIOUS
<1>4. Reworked(doc, e) /\ t \in Spots(e)
  <2>1. Reworked(doc, e)
    BY <1>2, <1>3, SlashedType
  <2>2. t \in Spots(e)
    BY <1>2, <1>3, SlashedType
  <2> QED BY <2>1, <2>2
<1>5. ~t.all /\ t.i = sel.i /\ sel.i \in DOMAIN e /\ IsText(e[sel.i])
  BY <1>2, <1>3, SlashedType
<1> QED BY <1>1, <1>3, <1>4, <1>5 DEF Slashed, Back

LEMMA LineKeeps ==
    ASSUME Inv, Choosing, NEW d, Reshaped(Slashed, d), Chain(d, Back) PROVE Inv'
<1>1. Act /\ Reworked(doc, Slashed) /\ Back \in Spots(Slashed) /\ ~Back.all
  BY ChoosingType
<1>2. Slashed \in Documents /\ ViewsOf(Slashed) \subseteq ViewsOf(doc)
  BY <1>1 DEF Reworked
<1>3. d \in Documents /\ ViewsOf(d) \subseteq ViewsOf(doc)
  BY <1>2 DEF Reshaped, Reworked
<1>4. Back \in Spots(d)
  BY <1>1, <1>2, ReshapedSpot
<1> QED BY <1>1, <1>3, <1>4, ActKeeps, ChainKeeps

LEMMA TextCommandsKeeps == ASSUME Inv, TextCommands PROVE Inv'
<1>0. Choosing
  BY DEF TextCommands
<1>1. Slashed \in Documents /\ sel.i \in DOMAIN Slashed /\ IsText(Slashed[sel.i])
  BY <1>0, ChoosingType DEF Reworked
<1>2. CASE \E kind \in Levels \cup {"code"} : LineCommand(BlockCommand(Slashed, sel.i, kind))
  BY <1>0, <1>1, <1>2, BlockCommandType, LineKeeps DEF LineCommand
<1>3. CASE \E type \in Lists : LineCommand(ListCommand(Slashed, sel.i, type))
  BY <1>0, <1>1, <1>3, ListCommandType, LineKeeps DEF LineCommand
<1>4. CASE LineCommand(QuoteCommand(Slashed, sel.i))
  BY <1>0, <1>1, <1>4, QuoteCommandType, LineKeeps DEF LineCommand
<1>5. CASE LineCommand(Slashed)
  BY <1>0, <1>1, <1>5, ReshapedSame, LineKeeps DEF LineCommand
<1> QED BY <1>2, <1>3, <1>4, <1>5 DEF TextCommands

LEMMA RuleCommandKeeps == ASSUME Inv, RuleCommand PROVE Inv'
<1>1. /\ Act /\ Reworked(doc, Slashed) /\ Back \in Spots(Slashed) /\ ~Back.all /\ Back.i = sel.i
      /\ CanInsert(Slashed, Back)
  BY ChoosingType DEF RuleCommand
<1>2. Slashed \in Documents /\ ViewsOf(Slashed) \subseteq ViewsOf(doc)
  BY <1>1 DEF Reworked
<1>3. PICK d, l : d = Inserted(Slashed, Back, Atom("rule", 0)) /\ l = (IF Replaced(Slashed, Back) THEN Back.i ELSE Back.i + 1)
  OBVIOUS
<1>4. Chain(AfterRule(d, l)[1], AfterRule(d, l)[2])
  BY <1>1, <1>3 DEF RuleCommand
<1>5. d \in Documents
  BY <1>1, <1>2, <1>3, OtherInserted
<1>6. ViewsOf(d) \subseteq ViewsOf(Slashed)
  BY <1>1, <1>2, <1>3, OtherInserted
<1>7. l \in DOMAIN d
  BY <1>1, <1>2, <1>3, OtherInserted
<1>8. PICK e, t : e = AfterRule(d, l)[1] /\ t = AfterRule(d, l)[2]
  OBVIOUS
<1>9. e \in Documents /\ ViewsOf(e) \subseteq ViewsOf(d) /\ t \in Spots(e)
  BY <1>5, <1>7, <1>8, AfterRuleType
<1>10. Chain(e, t) /\ ViewsOf(e) \subseteq ViewsOf(doc)
  BY <1>2, <1>4, <1>6, <1>8, <1>9
<1> QED BY <1>1, <1>9, <1>10, ActKeeps, ChainKeeps

LEMMA ImageCommandKeeps == ASSUME Inv, ImageCommand PROVE Inv'
<1>1. Choosing /\ CanInsert(Slashed, Back)
  BY DEF ImageCommand
<1>2. Act /\ Slashed \in Documents /\ ViewsOf(Slashed) \subseteq ViewsOf(doc) /\ Back \in Spots(Slashed)
  BY <1>1, ChoosingType DEF Reworked
<1>3. /\ Transact(Inserted(Slashed, Back, NewUpload), AfterInsert(Slashed, Back))
      /\ link' = Listened(Inserted(Slashed, Back, NewUpload), AfterInsert(Slashed, Back))
      /\ views' = views + 1 /\ uploads' = uploads /\ pending' = pending
  BY DEF ImageCommand
<1> QED BY <1>1, <1>2, <1>3, UploadKeeps

LEMMA SubmenuKeeps == ASSUME Inv, OpenSubmenu PROVE Inv'
<1>1. PICK m \in Submenus :
        /\ popup' = [mode |-> m, at |-> Here(doc, sel)] /\ orphans' = orphans
        /\ UNCHANGED textVars /\ UNCHANGED uploadVars /\ link' = link /\ pending' = pending
  BY DEF OpenSubmenu
<1>2. Act /\ Suggesting(doc, sel)
  BY Parts DEF OpenSubmenu, Choosing, Inv, MenuOK
<1>3. doc \in Documents /\ sel \in Spots(doc) /\ ~sel.all /\ sel.o > 0
  BY <1>2, InvText DEF Suggesting
<1>4. Here(doc, sel) \in Nat
  <2>1. Start(doc, sel.i) \in Nat /\ sel.o \in Nat
    BY <1>3, SpotType, DocumentType, StartType
  <2> QED BY <2>1, <1>3 DEF Here
<1>5. popup' \in [mode : {"none"} \cup Submenus, at : Nat]
  BY <1>1, <1>4
<1>6. (link \in Links)' /\ (pending \in BOOLEAN)'
  BY <1>1, LinkPending DEF Links
<1> QED BY <1>1, <1>2, <1>5, <1>6, ActKeeps, TextStays

LEMMA DismissKeeps == ASSUME Inv, Dismiss PROVE Inv'
<1>1. /\ popup' = NoPopup /\ orphans' = orphans /\ Act
      /\ UNCHANGED textVars /\ UNCHANGED uploadVars /\ link' = link /\ pending' = pending
  BY DEF Dismiss
<1>2. popup' \in [mode : {"none"} \cup Submenus, at : Nat]
  BY <1>1 DEF NoPopup
<1>3. (link \in Links)' /\ (pending \in BOOLEAN)'
  BY <1>1, LinkPending DEF Links
<1> QED BY <1>1, <1>2, <1>3, ActKeeps, TextStays

LEMMA AnswerKeeps ==
    ASSUME Inv, NEW p, NEW d \in Documents, NEW s \in Spots(d), ViewsOf(d) \subseteq ViewsOf(doc), Answer(p, d, s), Act
    PROVE  Inv'
<1>1. TextOK /\ PastOK /\ ItemsOK /\ MenuOK /\ uploads \in [Sets -> Uploads] /\ Working
  BY Parts DEF Inv
<1>2. /\ Becomes(d, s) /\ Remember(d) /\ popup' = NoPopup /\ orphans' = Orphaned(d, s) /\ link' = Listened(d, s)
      /\ views' = views /\ uploads' = uploads /\ pending' = pending
  BY DEF Answer
<1>3. views' \in Nat /\ views <= views' /\ \A v \in ViewsOf(d) : v < views'
  BY <1>1, <1>2 DEF TextOK
<1>4. TextOK' /\ ItemsOK' /\ items' \subseteq items
  BY <1>1, <1>2, <1>3, BecomesKeeps
<1>5. PastOK'
  BY <1>1, <1>2, <1>3, RememberKeeps
<1>6. MenuOK'
  <2>1. popup.mode \in Submenus => popup \in [mode : Submenus, at : Nat]
    BY <1>1 DEF MenuOK
  <2>2. orphans' \in SUBSET [mode : Submenus, at : Nat]
    BY <1>1, <1>2, <2>1 DEF Orphaned, MenuOK
  <2> QED BY <1>2, <2>2 DEF MenuOK, NoPopup
<1>7. Working' /\ (uploads \in [Sets -> Uploads])'
  BY <1>1, <1>2, <1>4, WorkingKept
<1>8. link' \in Links /\ pending' \in BOOLEAN /\ acts' \in 0 .. MaxActs
  BY <1>2, LinkPending, ActKeeps, ListenedType
<1>9. TypeOK'
  BY <1>4, <1>5, <1>6, <1>7, <1>8, PartsNext DEF Links
<1> QED BY <1>7, <1>9 DEF Inv

LEMMA AnswerSubmenuKeeps == ASSUME Inv, AnswerSubmenu PROVE Inv'
<1>1. PICK p \in {popup} \cup orphans : SelectBoard(p) \/ SubmitUrl(p)
  BY DEF AnswerSubmenu
<1>2. p.at \in Nat
  BY Parts DEF Inv, MenuOK
<1>3. PICK b, t : b = DeleteAt(doc, p.at) /\ t = MovedBy(doc, sel, p.at)
  OBVIOUS
<1>4. /\ Act /\ ~sel.all /\ p.at < Total(doc) - 1 /\ CanInsert(b, t)
      /\ (Answer(p, Inserted(b, t, Atom("frame", 0)), AfterInsert(b, t)) \/ Answer(p, b, t))
  BY <1>1, <1>3 DEF SelectBoard, SubmitUrl, Ready
<1>5. doc \in Documents /\ sel \in Spots(doc)
  BY InvText
<1>6. b \in Documents /\ ViewsOf(b) \subseteq ViewsOf(doc)
  BY <1>2, <1>3, <1>5, DeleteAtType
<1>7. t \in Spots(b)
  BY <1>2, <1>3, <1>4, <1>5, MovedByType
<1>8. CASE Answer(p, b, t)
  BY <1>4, <1>6, <1>7, <1>8, AnswerKeeps
<1>9. CASE Answer(p, Inserted(b, t, Atom("frame", 0)), AfterInsert(b, t))
  <2>1. PICK d, s : d = Inserted(b, t, Atom("frame", 0)) /\ s = AfterInsert(b, t)
    OBVIOUS
  <2>2. d \in Documents
    BY <1>4, <1>6, <1>7, <2>1, OtherInserted
  <2>3. s \in Spots(d)
    BY <1>4, <1>6, <1>7, <2>1, OtherInserted
  <2>4. ViewsOf(d) \subseteq ViewsOf(b)
    BY <1>4, <1>6, <1>7, <2>1, OtherInserted
  <2>5. ViewsOf(d) \subseteq ViewsOf(doc) /\ Answer(p, d, s)
    BY <1>6, <1>9, <2>1, <2>4
  <2> QED BY <1>4, <2>2, <2>3, <2>5, AnswerKeeps
<1> QED BY <1>4, <1>8, <1>9

---------------------------------------------------------------------------
(* Uploads *)

\* What an upload is, and what a file shown is while its block is at work.
LEMMA UploadType ==
    ASSUME Inv, NEW n \in Sets
    PROVE  LET u == uploads[n]
           IN  /\ u \in Uploads /\ u.view \in Nat /\ u.aborted \in SUBSET Nat
               /\ u.res \in Seq({"pending", "null", "url"}) /\ DOMAIN u.res = 1 .. Len(u.res) /\ Len(u.res) \in Nat
<1>1. uploads[n] \in Uploads
  BY Parts DEF Inv
<1> QED BY <1>1 DEF Uploads

LEMMA ItemType ==
    ASSUME Inv, NEW it \in items
    PROVE  /\ it.set \in Sets /\ it.n \in Nat /\ it.view \in Nat /\ it.view \in ViewsOf(doc)
           /\ it = [set |-> it.set, n |-> it.n, view |-> it.view]
           /\ uploads[it.set].view = it.view /\ it.n \in DOMAIN uploads[it.set].res
           /\ it.n \notin uploads[it.set].aborted /\ uploads[it.set].res[it.n] # "null"
<1>1. it \in Files /\ it.view \in ViewsOf(doc)
  BY Parts DEF Inv, ItemsOK
<1>2. it.set \in Sets /\ it.n \in Nat /\ it.view \in Nat /\ it = [set |-> it.set, n |-> it.n, view |-> it.view]
  BY <1>1 DEF Files
<1> QED BY <1>1, <1>2 DEF Inv, Working

\* What becomes of the files while the text stays as it is.
LEMMA FilesKeep ==
    ASSUME Inv, UNCHANGED textVars, UNCHANGED menuVars, UNCHANGED <<link, pending>>, acts' \in 0 .. MaxActs,
           (uploads \in [Sets -> Uploads])', items' \in SUBSET Files, \A it \in items' : it.view \in ViewsOf(doc), Working'
    PROVE  Inv'
<1>1. TextOK /\ PastOK /\ MenuOK /\ link \in Links /\ pending \in BOOLEAN
  BY Parts DEF Inv
<1>2. doc' = doc /\ sel' = sel /\ undo' = undo /\ redo' = redo /\ views' = views /\ popup' = popup /\ orphans' = orphans
  BY DEF textVars, menuVars
<1>3. TextOK' /\ PastOK'
  BY <1>1, <1>2 DEF TextOK, PastOK
<1>4. MenuOK'
  <2>1. Suggesting(doc, sel)' <=> Suggesting(doc, sel)
    BY <1>2 DEF Suggesting
  <2> QED BY <1>1, <1>2, <2>1 DEF MenuOK
<1>5. ItemsOK'
  BY <1>2 DEF ItemsOK, Files
<1>6. (link \in Links)' /\ (pending \in BOOLEAN)'
  BY <1>1 DEF Links
<1>7. TypeOK'
  BY <1>3, <1>4, <1>5, <1>6, PartsNext
<1> QED BY <1>7 DEF Inv

\* The least free slot is taken, and the block shows the files that are not too big.
LEMMA PickFilesKeeps == ASSUME Inv, PickFiles PROVE Inv'
<1>1. PICK v \in ViewsOf(doc), res \in Picks, n \in Sets :
        /\ Idle(n)
        /\ uploads' = [uploads EXCEPT ![n] = [view |-> v, res |-> res, aborted |-> {}]]
        /\ items' = items \cup {[set |-> n, n |-> k, view |-> v] : k \in {k \in DOMAIN res : res[k] = "pending"}}
  BY DEF PickFiles
<1>2. Act /\ UNCHANGED textVars /\ UNCHANGED menuVars /\ UNCHANGED <<link, pending>>
  BY DEF PickFiles
<1>3. v \in Nat
  <2>1. \A k \in DOMAIN doc : doc[k].ref \in Nat
    BY InvText, DocumentType, LineType
  <2> QED BY <2>1 DEF ViewsOf
<1>4. res \in Seq({"pending", "null", "url"}) /\ DOMAIN res \subseteq Nat
  <2>1. PICK m \in 1 .. Limit : res \in [1 .. m -> {"pending", "null"}]
    BY DEF Picks
  <2>2. m \in Nat
    BY <2>1, EditorAssumption
  <2> QED BY <2>1, <2>2
<1> DEFINE new == [view |-> v, res |-> res, aborted |-> {}]
           its == {[set |-> n, n |-> k, view |-> v] : k \in {k \in DOMAIN res : res[k] = "pending"}}
<1>5. new \in Uploads
  BY <1>3, <1>4 DEF Uploads
<1>6. uploads \in [Sets -> Uploads] /\ ItemsOK
  BY Parts DEF Inv
<1>7. (uploads \in [Sets -> Uploads])'
  <2> HIDE DEF new
  <2>1. uploads' = [uploads EXCEPT ![n] = new]
    BY <1>1 DEF new
  <2>2. uploads' \in [Sets -> Uploads]
    BY <2>1, <1>5, <1>6
  <2> QED BY <2>2 DEF Uploads
<1>8. its \in SUBSET Files
  BY <1>3, <1>4 DEF Files
<1>9. items' \in SUBSET Files /\ \A it \in items' : it.view \in ViewsOf(doc)
  <2>1. \A it \in its : it.view = v
    OBVIOUS
  <2> QED BY <1>1, <1>6, <1>8, <2>1 DEF ItemsOK
<1>10. Working'
  <2>1. ASSUME NEW it \in items
        PROVE  /\ uploads'[it.set].view = it.view /\ it.n \in DOMAIN uploads'[it.set].res
               /\ it.n \notin uploads'[it.set].aborted /\ uploads'[it.set].res[it.n] # "null"
    <3>1. it.set # n
      BY <1>1 DEF Idle
    <3>2. uploads'[it.set] = uploads[it.set]
      BY <1>1, <1>6, <3>1, ItemType
    <3> QED BY <3>2, ItemType
  <2>2. ASSUME NEW it \in its
        PROVE  /\ uploads'[it.set].view = it.view /\ it.n \in DOMAIN uploads'[it.set].res
               /\ it.n \notin uploads'[it.set].aborted /\ uploads'[it.set].res[it.n] # "null"
    <3>1. PICK k \in DOMAIN res : res[k] = "pending" /\ it = [set |-> n, n |-> k, view |-> v]
      OBVIOUS
    <3>2. uploads'[n] = new
      BY <1>1, <1>6
    <3> QED BY <3>1, <3>2
  <2>3. items' = items \cup its
    BY <1>1
  <2> HIDE DEF its
  <2> QED BY <2>1, <2>2, <2>3 DEF Working
<1> QED BY <1>2, <1>7, <1>9, <1>10, ActKeeps, FilesKeep

\* Files taken from the list are told to stop.
LEMMA AbortKeeps == ASSUME Inv, NEW its \in SUBSET items, Abort(its) PROVE Inv'
<1>1. /\ items' = items \ its
      /\ uploads' = [n \in Sets |-> [uploads[n] EXCEPT !.aborted = @ \cup {it.n : it \in {x \in its : x.set = n}}]]
  BY DEF Abort
<1>2. Act /\ UNCHANGED textVars /\ UNCHANGED menuVars /\ UNCHANGED <<link, pending>>
  BY DEF Abort
<1>3. uploads \in [Sets -> Uploads] /\ ItemsOK
  BY Parts DEF Inv
<1> DEFINE out(n) == {it.n : it \in {x \in its : x.set = n}}
<1>4. ASSUME NEW n \in Sets
      PROVE  /\ uploads'[n] \in Uploads /\ uploads'[n].view = uploads[n].view /\ uploads'[n].res = uploads[n].res
             /\ uploads'[n].aborted = uploads[n].aborted \cup out(n)
  <2>1. out(n) \in SUBSET Nat
    BY ItemType
  <2>2. uploads'[n] = [uploads[n] EXCEPT !.aborted = @ \cup out(n)]
    BY <1>1
  <2>3. uploads[n] \in Uploads
    BY <1>3
  <2> HIDE DEF out
  <2> QED BY <2>1, <2>2, <2>3 DEF Uploads
<1>5. (uploads \in [Sets -> Uploads])'
  <2>1. uploads' \in [Sets -> Uploads]
    BY <1>1, <1>4
  <2> QED BY <2>1 DEF Uploads
<1>6. items' \in SUBSET Files /\ \A it \in items' : it.view \in ViewsOf(doc)
  BY <1>1, <1>3 DEF ItemsOK
<1>7. Working'
  <2> SUFFICES ASSUME NEW it \in items, it \notin its
               PROVE  /\ uploads'[it.set].view = it.view /\ it.n \in DOMAIN uploads'[it.set].res
                      /\ it.n \notin uploads'[it.set].aborted /\ uploads'[it.set].res[it.n] # "null"
    BY <1>1 DEF Working
  <2>1. it.n \notin out(it.set)
    <3> SUFFICES ASSUME NEW x \in its, x.set = it.set, x.n = it.n PROVE FALSE
      OBVIOUS
    <3>1. x = [set |-> x.set, n |-> x.n, view |-> x.view] /\ uploads[x.set].view = x.view
      BY ItemType
    <3>2. it = [set |-> it.set, n |-> it.n, view |-> it.view] /\ uploads[it.set].view = it.view
      BY ItemType
    <3> QED BY <3>1, <3>2
  <2> HIDE DEF out
  <2> QED BY <2>1, <1>4, ItemType
<1> QED BY <1>2, <1>5, <1>6, <1>7, ActKeeps, FilesKeep

LEMMA AbortsKeep == ASSUME Inv, RemoveFileItem \/ ClearAllFiles PROVE Inv'
<1>1. ASSUME NEW it \in items, Abort({it}) PROVE Inv'
  BY <1>1, AbortKeeps
<1>2. ASSUME NEW v \in ViewsOf(doc), Abort(Shown(v)) PROVE Inv'
  <2>1. Shown(v) \in SUBSET items
    BY DEF Shown
  <2> QED BY <1>2, <2>1, AbortKeeps
<1> QED BY <1>1, <1>2 DEF RemoveFileItem, ClearAllFiles

\* One file settles: it has an address unless it was told to stop.
LEMMA SettledType ==
    ASSUME Inv, NEW n \in Sets, NEW k \in DOMAIN uploads[n].res, uploads[n].res[k] = "pending",
           NEW res, res = Settled(uploads[n], k)
    PROVE  /\ res \in Seq({"pending", "null", "url"}) /\ DOMAIN res = DOMAIN uploads[n].res
           /\ \A it \in items : it.set = n => it.n \in DOMAIN res /\ res[it.n] # "null"
<1> DEFINE u == uploads[n]
<1>1. u.res \in Seq({"pending", "null", "url"})
  BY UploadType
<1>2. res = [u.res EXCEPT ![k] = IF k \in u.aborted THEN "null" ELSE "url"]
  BY DEF Settled
<1> HIDE DEF u
<1>3. res \in Seq({"pending", "null", "url"}) /\ DOMAIN res = DOMAIN u.res
  BY <1>1, <1>2 DEF u
<1>4. ASSUME NEW it \in items, it.set = n PROVE it.n \in DOMAIN res /\ res[it.n] # "null"
  <2>1. it.n \in DOMAIN u.res /\ it.n \notin u.aborted /\ u.res[it.n] # "null"
    BY <1>4, ItemType DEF u
  <2> QED BY <1>2, <2>1, <1>1
<1> QED BY <1>3, <1>4 DEF u

\* An upload that goes on.
LEMMA GoesOnKeeps ==
    ASSUME Inv, NEW n \in Sets, NEW k \in DOMAIN uploads[n].res, uploads[n].res[k] = "pending",
           uploads' = [uploads EXCEPT ![n].res = Settled(uploads[n], k)], acts' = acts, items' = items,
           UNCHANGED textVars, UNCHANGED menuVars, UNCHANGED <<link, pending>>
    PROVE  Inv'
<1>1. PICK res : res = Settled(uploads[n], k)
  OBVIOUS
<1>2. res \in Seq({"pending", "null", "url"}) /\ \A it \in items : it.set = n => it.n \in DOMAIN res /\ res[it.n] # "null"
  <2>1. res \in Seq({"pending", "null", "url"})
    BY <1>1, SettledType
  <2>2. \A it \in items : it.set = n => it.n \in DOMAIN res /\ res[it.n] # "null"
    BY <1>1, SettledType
  <2> QED BY <2>1, <2>2
<1>3. uploads \in [Sets -> Uploads] /\ ItemsOK /\ acts \in 0 .. MaxActs
  BY Parts DEF Inv
<1>4. PICK u \in Uploads : u = uploads[n]
  BY <1>3
<1>5. PICK new \in Uploads : new = [u EXCEPT !.res = res] /\ new.view = u.view /\ new.res = res /\ new.aborted = u.aborted
  <2> DEFINE new == [u EXCEPT !.res = res]
  <2>1. new \in Uploads /\ new.view = u.view /\ new.res = res /\ new.aborted = u.aborted
    BY <1>2 DEF Uploads
  <2> QED BY <2>1
<1>6. uploads' = [uploads EXCEPT ![n] = new]
  BY <1>1, <1>4, <1>5
<1>7. uploads' \in [Sets -> Uploads] /\ uploads'[n] = new /\ \A x \in Sets : x # n => uploads'[x] = uploads[x]
  BY <1>3, <1>6
<1>8. Working'
  <2> SUFFICES ASSUME NEW it \in items
               PROVE  /\ uploads'[it.set].view = it.view /\ it.n \in DOMAIN uploads'[it.set].res
                      /\ it.n \notin uploads'[it.set].aborted /\ uploads'[it.set].res[it.n] # "null"
    BY DEF Working
  <2>1. CASE it.set = n
    <3>1. u.view = it.view /\ it.n \notin u.aborted
      BY <2>1, <1>4, ItemType
    <3>2. it.n \in DOMAIN res /\ res[it.n] # "null"
      BY <2>1, <1>2
    <3> QED BY <2>1, <3>1, <3>2, <1>5, <1>7
  <2>2. CASE it.set # n
    BY <2>2, <1>7, ItemType
  <2> QED BY <2>1, <2>2
<1>9. (uploads \in [Sets -> Uploads])'
  BY <1>7 DEF Uploads
<1>10. items' \in SUBSET Files /\ (\A it \in items' : it.view \in ViewsOf(doc)) /\ acts' \in 0 .. MaxActs
  BY <1>3 DEF ItemsOK
<1> QED BY <1>8, <1>9, <1>10, FilesKeep

\* The slot of an upload is free again when nothing shows its files.
LEMMA ReleasedKeeps ==
    ASSUME Inv, NEW n \in Sets, uploads' = [uploads EXCEPT ![n] = NoUpload], items' \subseteq items,
           \A it \in items' : it.set # n
    PROVE  Working' /\ (uploads \in [Sets -> Uploads])'
<1>1. uploads \in [Sets -> Uploads]
  BY Parts DEF Inv
<1>2. PICK none \in Uploads : none = NoUpload
  <2>1. <<>> \in Seq({"pending", "null", "url"})
    OBVIOUS
  <2> QED BY <2>1 DEF NoUpload, Uploads
<1>3. uploads' \in [Sets -> Uploads] /\ \A x \in Sets : x # n => uploads'[x] = uploads[x]
  BY <1>1, <1>2
<1>4. Working'
  <2> SUFFICES ASSUME NEW it \in items, it \in items'
               PROVE  /\ uploads'[it.set].view = it.view /\ it.n \in DOMAIN uploads'[it.set].res
                      /\ it.n \notin uploads'[it.set].aborted /\ uploads'[it.set].res[it.n] # "null"
    BY DEF Working
  <2>1. uploads'[it.set] = uploads[it.set]
    BY <1>3, ItemType
  <2> QED BY <2>1, ItemType
<1> QED BY <1>3, <1>4 DEF Uploads

\* How many files have an address.
LEMMA ArrivedType ==
    ASSUME NEW res \in Seq({"pending", "null", "url"})
    PROVE  Arrived(res) \in Nat /\ \A k \in DOMAIN res : res[k] = "url" => Arrived(res) # 0
<1> DEFINE S == {k \in DOMAIN res : res[k] = "url"}
<1>1. Len(res) \in Nat /\ S \in SUBSET (1 .. Len(res))
  OBVIOUS
<1>2. IsFiniteSet(1 .. Len(res))
  BY <1>1, FS_Interval
<1>3. IsFiniteSet(S)
  BY <1>1, <1>2, FS_Subset
<1>4. Cardinality(S) \in Nat /\ (Cardinality(S) = 0 <=> S = {})
  BY <1>3, FS_CardinalityType, FS_EmptySet
<1> QED BY <1>4 DEF Arrived

\* The last file of an upload.  If its block shows a file, that file has an
\* address, so that the images go in and the block leaves with its files.
LEMMA LastFileKeeps ==
    ASSUME Inv, NEW n \in Sets, NEW k \in DOMAIN uploads[n].res, uploads[n].res[k] = "pending",
           NEW res, res = Settled(uploads[n], k), \A x \in DOMAIN res : res[x] # "pending",
           uploads' = [uploads EXCEPT ![n] = NoUpload], acts' = acts, HandleUpload(uploads[n], Arrived(res))
    PROVE  Inv'
<1> DEFINE u == uploads[n]
<1>1. res \in Seq({"pending", "null", "url"})
  BY SettledType
<1>2. \A it \in items : it.set = n => it.n \in DOMAIN res /\ res[it.n] = "url"
  <2>1. \A it \in items : it.set = n => it.n \in DOMAIN res /\ res[it.n] # "null"
    BY SettledType
  <2>2. \A x \in DOMAIN res : res[x] \in {"pending", "null", "url"}
    BY <1>1
  <2> QED BY <2>1, <2>2
<1>3. PICK m \in Nat : m = Arrived(res) /\ \A x \in DOMAIN res : res[x] = "url" => m # 0
  BY <1>1, ArrivedType
<1>4. TextOK /\ PastOK /\ ItemsOK /\ MenuOK /\ link \in Links /\ pending \in BOOLEAN /\ acts \in 0 .. MaxActs
  BY Parts DEF Inv
<1>5. doc \in Documents /\ views \in Nat /\ \A v \in ViewsOf(doc) : v < views
  BY InvText
<1>6. \A it \in items : it.set = n => it.view = u.view /\ u.view \in ViewsOf(doc)
  BY ItemType
<1>7. CASE m = 0 \/ Where(u.view) = {}
  <2>1. /\ UNCHANGED textVars /\ items' = items /\ UNCHANGED menuVars /\ UNCHANGED <<link, pending>>
    BY <1>3, <1>7 DEF HandleUpload
  <2>2. \A it \in items' : it.set # n
    <3> SUFFICES ASSUME NEW it \in items, it.set = n PROVE FALSE
      BY <2>1
    <3>1. m # 0
      BY <1>2, <1>3
    <3>2. Where(u.view) # {}
      BY <1>6 DEF Where, ViewsOf
    <3> QED BY <1>7, <3>1, <3>2
  <2>3. Working' /\ (uploads \in [Sets -> Uploads])'
    BY <2>1, <2>2, ReleasedKeeps
  <2>4. items' \in SUBSET Files /\ (\A it \in items' : it.view \in ViewsOf(doc)) /\ acts' \in 0 .. MaxActs
    BY <1>4, <2>1 DEF ItemsOK
  <2> QED BY <2>1, <2>3, <2>4, FilesKeep
<1>8. CASE m # 0 /\ Where(u.view) # {}
  <2> DEFINE W == Where(u.view)
  <2>1. W \in SUBSET Nat /\ \A x \in W : x \in DOMAIN doc /\ x <= Len(doc) /\ doc[x].kind = "upload" /\ doc[x].ref = u.view
    BY <1>5, DocumentType DEF Where
  <2>2. PICK l \in W : l = Max(W)
    <3>1. Len(doc) \in Nat /\ W # {}
      BY <1>5, <1>8, DocumentType
    <3> HIDE DEF W
    <3>2. Max(W) \in W
      BY <2>1, <3>1, MaxOf
    <3> QED BY <3>2
  <2>3. l \in Nat /\ l \in DOMAIN doc /\ doc[l].kind = "upload" /\ doc[l].ref = u.view
    BY <2>1, <2>2
  <2>4. PICK last : last = l + m - 1
    OBVIOUS
  <2>5. last \in Nat
    BY <2>3, <2>4, <1>8
  <2>6. PICK d : d = Splice(doc, l, l, [x \in 1 .. m |-> Atom("image", 0)])
    OBVIOUS
  <2>7. PICK e, t : e = WithNext(d, last) /\ t = AfterLine(d, last)
    OBVIOUS
  <2>8. Transact(e, t) /\ link' = Listened(e, t) /\ views' = views /\ pending' = pending
    BY <1>3, <1>8, <2>2, <2>4, <2>6, <2>7 DEF HandleUpload
  <2>9. d \in Documents /\ ViewsOf(d) \subseteq ViewsOf(doc)
    BY <1>5, <1>8, <2>3, <2>6, ImagesType
  <2>10. u.view \notin ViewsOf(d)
    BY <1>5, <1>8, <2>3, <2>6, ImagesType
  <2>11. e \in Documents /\ ViewsOf(e) \subseteq ViewsOf(d) /\ t \in Spots(e)
    BY <2>5, <2>7, <2>9, WithNextType
  <2>12. views' \in Nat /\ views <= views' /\ \A v \in ViewsOf(e) : v < views'
    BY <1>5, <2>8, <2>9, <2>11
  <2>13. Becomes(e, t) /\ Remember(e) /\ Suggest(e, t) /\ doc' = e /\ sel' = t /\ items' = Mounted(items, e)
    BY <2>8 DEF Transact, Becomes
  <2>14. TextOK' /\ ItemsOK' /\ items' \subseteq items
    BY <1>4, <2>11, <2>12, <2>13, BecomesKeeps
  <2>15. PastOK'
    BY <1>4, <2>12, <2>13, RememberKeeps
  <2>16. MenuOK'
    BY <1>4, <2>13, SuggestKeeps
  <2>17. \A it \in items' : it.set # n
    BY <1>6, <2>10, <2>11, <2>13 DEF Mounted
  <2>18. Working' /\ (uploads \in [Sets -> Uploads])'
    BY <2>14, <2>17, ReleasedKeeps
  <2>19. link' \in Links /\ pending' \in BOOLEAN /\ acts' \in 0 .. MaxActs
    BY <1>4, <2>8, ListenedType
  <2>20. TypeOK'
    BY <2>14, <2>15, <2>16, <2>18, <2>19, PartsNext DEF Links
  <2> QED BY <2>18, <2>20 DEF Inv
<1> QED BY <1>7, <1>8

LEMMA UploadFileKeeps == ASSUME Inv, UploadFile PROVE Inv'
<1>1. PICK n \in Sets : \E k \in DOMAIN uploads[n].res :
        /\ uploads[n].res[k] = "pending" /\ acts' = acts
        /\ IF \E x \in DOMAIN Settled(uploads[n], k) : Settled(uploads[n], k)[x] = "pending"
           THEN /\ uploads' = [uploads EXCEPT ![n].res = Settled(uploads[n], k)]
                /\ UNCHANGED <<textVars, items, menuVars, link, pending>>
           ELSE /\ uploads' = [uploads EXCEPT ![n] = NoUpload]
                /\ HandleUpload(uploads[n], Arrived(Settled(uploads[n], k)))
  BY DEF UploadFile
<1>2. PICK k \in DOMAIN uploads[n].res :
        /\ uploads[n].res[k] = "pending" /\ acts' = acts
        /\ IF \E x \in DOMAIN Settled(uploads[n], k) : Settled(uploads[n], k)[x] = "pending"
           THEN /\ uploads' = [uploads EXCEPT ![n].res = Settled(uploads[n], k)]
                /\ UNCHANGED <<textVars, items, menuVars, link, pending>>
           ELSE /\ uploads' = [uploads EXCEPT ![n] = NoUpload]
                /\ HandleUpload(uploads[n], Arrived(Settled(uploads[n], k)))
  BY <1>1
<1>3. PICK res : res = Settled(uploads[n], k)
  OBVIOUS
<1>4. CASE \E x \in DOMAIN res : res[x] = "pending"
  <2>1. /\ uploads' = [uploads EXCEPT ![n].res = Settled(uploads[n], k)]
        /\ UNCHANGED textVars /\ items' = items /\ UNCHANGED menuVars /\ UNCHANGED <<link, pending>>
    BY <1>2, <1>3, <1>4
  <2> QED BY <1>2, <2>1, GoesOnKeeps
<1>5. CASE ~ \E x \in DOMAIN res : res[x] = "pending"
  <2>1. uploads' = [uploads EXCEPT ![n] = NoUpload] /\ HandleUpload(uploads[n], Arrived(res))
    BY <1>2, <1>3, <1>5
  <2> QED BY <1>2, <1>3, <1>5, <2>1, LastFileKeeps
<1> QED BY <1>4, <1>5

---------------------------------------------------------------------------
(* The address typed for a selection *)

LinkingOf(d, s) ==
    <<s, IF ~s.all THEN <<>>
         ELSE [k \in {k \in Selected(s) \cap DOMAIN d : IsText(d[k])} |->
                  [n \in DOMAIN d[k].words |-> d[k].words[n].id]]>>

\* What an address is typed for, of a document and a selection.
LEMMA LinkingIs == Linking = LinkingOf(doc, sel) /\ Linking' = LinkingOf(doc', sel')
BY DEF Linking, LinkingOf

\* A step that takes its address from the selection keeps a typed one only
\* where the selection and the lengths before it are the same.
LEMMA SameLinking ==
    ASSUME Inv, NEW d, NEW s, doc' = d, sel' = s, link' = Listened(d, s), link'.url = "typed",
           ~sel.all \/ ~s.all \/ OnAtom(doc, sel) \/ Repainted(doc, d)
    PROVE  Linking' = Linking
<1>1. SameSelection(d, s)
  BY DEF Listened, LinkOf
<1>2. s = sel /\ \A k \in 1 .. sel.j : IsText(d[k]) <=> IsText(doc[k])
  <2>1. s = sel
    BY <1>1 DEF SameSelection, Positions
  <2> DEFINE f == [k \in 1 .. sel.j |-> <<Depths(d[k].kind), d[k].more, Len(d[k].words), IsText(d[k])>>]
             g == [k \in 1 .. sel.j |-> <<Depths(doc[k].kind), doc[k].more, Len(doc[k].words), IsText(doc[k])>>]
  <2>2. f = g
    BY <1>1, <2>1 DEF SameSelection, Positions
  <2>3. ASSUME NEW k \in 1 .. sel.j PROVE IsText(d[k]) <=> IsText(doc[k])
    <3>1. f[k] = g[k]
      BY <2>2
    <3> QED BY <3>1
  <2> QED BY <2>1, <2>3
<1>3. doc \in Documents /\ sel \in Spots(doc)
  BY InvText
<1>4. CASE ~sel.all
  BY <1>2, <1>4, LinkingIs DEF LinkingOf
<1>5. CASE sel.all /\ OnAtom(doc, sel)
  <2>1. sel.i \in 1 .. sel.j /\ sel.i \in Nat /\ sel.j \in Nat
    BY <1>3, SpotType
  <2>2. ~(sel.i < sel.j)
    <3> SUFFICES ASSUME sel.i < sel.j PROVE FALSE
      OBVIOUS
    <3>1. Together(doc, sel.i, sel.j) /\ sel.i \in sel.i .. sel.j
      BY <1>3, <2>1, SpotType
    <3>2. IsText(doc[sel.i])
      BY <3>1 DEF Together
    <3> QED BY <1>5, <3>2 DEF OnAtom
  <2>3. \A k \in Selected(sel) : k = sel.i /\ ~IsText(doc[k]) /\ ~IsText(d[k])
    BY <2>1, <2>2, <1>2, <1>5 DEF Selected, OnAtom
  <2> DEFINE D == {k \in Selected(sel) \cap DOMAIN doc : IsText(doc[k])}
             E == {k \in Selected(sel) \cap DOMAIN d : IsText(d[k])}
  <2>4. D = {} /\ E = {}
    BY <2>3
  <2>5. [k \in D |-> [n \in DOMAIN doc[k].words |-> doc[k].words[n].id]] = [k \in E |-> [n \in DOMAIN d[k].words |-> d[k].words[n].id]]
    BY <2>4
  <2>6. LinkingOf(doc, sel) = LinkingOf(d, s)
    BY <1>2, <1>5, <2>5 DEF LinkingOf
  <2> QED BY <2>6, LinkingIs
<1>6. CASE sel.all /\ Repainted(doc, d)
  <2>1. DOMAIN d = DOMAIN doc /\ \A k \in DOMAIN doc : Painted(doc[k], d[k])
    BY <1>6 DEF Repainted, Reworked
  <2>2. \A k \in DOMAIN doc : (IsText(d[k]) <=> IsText(doc[k]))
    BY <2>1 DEF Painted, IsText
  <2>3. \A k \in DOMAIN doc :
          [n \in DOMAIN doc[k].words |-> doc[k].words[n].id] = [n \in DOMAIN d[k].words |-> d[k].words[n].id]
    BY <2>1 DEF Painted
  <2> DEFINE D == {k \in Selected(sel) \cap DOMAIN doc : IsText(doc[k])}
             E == {k \in Selected(sel) \cap DOMAIN d : IsText(d[k])}
  <2>4. D = E /\ D \subseteq DOMAIN doc
    BY <2>1, <2>2
  <2>5. [k \in D |-> [n \in DOMAIN doc[k].words |-> doc[k].words[n].id]] = [k \in E |-> [n \in DOMAIN d[k].words |-> d[k].words[n].id]]
    BY <2>3, <2>4
  <2>6. LinkingOf(doc, sel) = LinkingOf(d, s)
    BY <1>2, <1>6, <2>5 DEF LinkingOf
  <2> QED BY <2>6, LinkingIs
<1> QED BY <1>2, <1>4, <1>5, <1>6

LEMMA ChainLinking ==
    ASSUME Inv, NEW d, NEW s, Chain(d, s), link'.url = "typed",
           ~sel.all \/ ~s.all \/ OnAtom(doc, sel) \/ Repainted(doc, d)
    PROVE  Linking' = Linking
BY SameLinking DEF Chain, Transact, Becomes

LEMMA StillLinking == ASSUME doc' = doc, sel' = sel PROVE Linking' = Linking
BY LinkingIs

\* A block put in is selected when it took the place of one, and otherwise the cursor is after it.
LEMMA InsertLinking ==
    ASSUME NEW d, NEW s PROVE OnAtom(d, s) \/ ~s.all \/ ~AfterInsert(d, s).all
BY DEF AfterInsert, Replaced, Cursor

\* No button takes the address to another text, but undo and redo do.
LEMMA ToolbarLinking ==
    ASSUME Inv, Toolbar, link.url = "typed", link'.url = "typed" PROVE Linking' = Linking \/ Undo \/ Redo
<1>0. doc \in Documents /\ sel \in Spots(doc)
  BY InvText
<1>1. CASE UndoRedoButton
  BY <1>1 DEF UndoRedoButton, UseUndoRedo
<1>2. CASE HeadingDropdownMenu \/ ListDropdownMenu \/ BlockquoteButton \/ CodeBlockButton
  <2>1. \E d : TurnTo(d)
    BY <1>2 DEF HeadingDropdownMenu, HeadingButton, UseHeading, ListDropdownMenu, ListButton, UseList,
                BlockquoteButton, UseBlockquote, CodeBlockButton, UseCodeBlock
  <2>2. PICK d : Chain(d, AfterTurn(doc, sel, d))
    BY <2>1 DEF TurnTo
  <2>3. ~AfterTurn(doc, sel, d).all
    BY DEF AfterTurn, Cursor
  <2> QED BY <2>2, <2>3, ChainLinking
<1>3. CASE MarkButton
  <2>1. Chain(ToggledMark(doc, sel, "bold"), sel)
    BY <1>3 DEF MarkButton, UseMark
  <2>2. Repainted(doc, ToggledMark(doc, sel, "bold"))
    BY <1>0, MarkNames, ToggledMarkType
  <2> QED BY <2>1, <2>2, ChainLinking
<1>4. CASE ColorHighlightPopover
  <2>1. CASE ColorHighlightButton
    BY <2>1, StillLinking DEF ColorHighlightButton, textVars
  <2>2. CASE RemoveHighlight
    <3>1. Chain(UnsetMark(doc, Selected(sel), "highlight"), sel)
      BY <2>2 DEF RemoveHighlight
    <3>2. Repainted(doc, UnsetMark(doc, Selected(sel), "highlight"))
      BY <1>0, MarkNames, UnsetMarkType
    <3> QED BY <3>1, <3>2, ChainLinking
  <2> QED BY <1>4, <2>1, <2>2 DEF ColorHighlightPopover
<1>5. CASE LinkPopover
  <2>1. CASE ClickLink \/ TypeUrl
    BY <2>1, StillLinking DEF ClickLink, TypeUrl, textVars
  <2>2. ~SetLink /\ ~RemoveLink
    BY DEF SetLink, RemoveLink
  <2> QED BY <1>5, <2>1, <2>2 DEF LinkPopover
<1>6. CASE TextAlignButton
  <2> DEFINE d == AlterLines(doc, Selected(sel),
                      LAMBDA line : IF line.kind = "code" THEN line ELSE [line EXCEPT !.align = "center"])
  <2>1. Chain(d, sel)
    BY <1>6 DEF TextAlignButton, UseTextAlign, SetTextAlign
  <2>2. Repainted(doc, d)
    BY <1>0, AlignedType
  <2> HIDE DEF d
  <2> QED BY <2>1, <2>2, ChainLinking
<1>7. CASE ImageUploadButton
  <2>1. PICK d, s : d = Inserted(doc, sel, NewUpload) /\ s = AfterInsert(doc, sel)
    OBVIOUS
  <2>2. Transact(d, s) /\ link' = Listened(d, s)
    BY <1>7, <2>1 DEF ImageUploadButton, InsertImage
  <2>3. doc' = d /\ sel' = s
    BY <2>2 DEF Transact, Becomes
  <2>4. OnAtom(doc, sel) \/ ~sel.all \/ ~s.all
    BY <2>1, InsertLinking
  <2> QED BY <2>2, <2>3, <2>4, SameLinking
<1>8. CASE WhiteboardEmbedButton
  <2>1. Chain(Inserted(doc, sel, Atom("frame", 0)), AfterInsert(doc, sel))
    BY <1>8 DEF WhiteboardEmbedButton
  <2>2. OnAtom(doc, sel) \/ ~sel.all \/ ~AfterInsert(doc, sel).all
    BY InsertLinking
  <2> QED BY <2>1, <2>2, ChainLinking
<1> QED BY <1>1, <1>2, <1>3, <1>4, <1>5, <1>6, <1>7, <1>8 DEF Toolbar

\* Neither does a slash command or an answer of its submenu ...
LEMMA MenuLinking ==
    ASSUME Inv, TextCommands \/ RuleCommand \/ ImageCommand \/ OpenSubmenu \/ Dismiss \/ AnswerSubmenu, link'.url = "typed"
    PROVE  Linking' = Linking
<1>1. CASE OpenSubmenu \/ Dismiss
  BY <1>1, StillLinking DEF OpenSubmenu, Dismiss, textVars
<1>2. ASSUME Choosing PROVE ~sel.all
  BY <1>2, Parts DEF Choosing, Inv, MenuOK, Suggesting
<1>3. CASE TextCommands \/ RuleCommand
  <2>1. ~sel.all
    BY <1>2, <1>3 DEF TextCommands, RuleCommand
  <2>2. \E d, s : Chain(d, s)
    BY <1>3 DEF TextCommands, RuleCommand, LineCommand
  <2> QED BY <2>1, <2>2, ChainLinking
<1>4. CASE ImageCommand
  <2>1. PICK d, s : d = Inserted(Slashed, Back, NewUpload) /\ s = AfterInsert(Slashed, Back)
    OBVIOUS
  <2>2. Transact(d, s) /\ link' = Listened(d, s) /\ ~sel.all
    BY <1>2, <1>4, <2>1 DEF ImageCommand
  <2>3. doc' = d /\ sel' = s
    BY <2>2 DEF Transact, Becomes
  <2> QED BY <2>2, <2>3, SameLinking
<1>5. CASE AnswerSubmenu
  <2>1. PICK p : SelectBoard(p) \/ SubmitUrl(p)
    BY <1>5 DEF AnswerSubmenu
  <2>2. ~sel.all /\ \E d, s : Answer(p, d, s)
    BY <2>1 DEF SelectBoard, SubmitUrl, Ready
  <2>3. PICK d, s : Answer(p, d, s)
    BY <2>2
  <2>4. doc' = d /\ sel' = s /\ link' = Listened(d, s)
    BY <2>3 DEF Answer, Becomes
  <2> QED BY <2>2, <2>4, SameLinking
<1> QED BY <1>1, <1>3, <1>4, <1>5

\* ... nor an upload that finishes.
LEMMA UploadLinking ==
    ASSUME Inv, ImageUpload, link'.url = "typed" PROVE Linking' = Linking
<1>1. CASE PickFiles \/ RemoveFileItem \/ ClearAllFiles
  BY <1>1, StillLinking DEF PickFiles, RemoveFileItem, ClearAllFiles, Abort, textVars
<1>2. CASE UploadFile
  <2>1. CASE UNCHANGED textVars
    BY <2>1, StillLinking DEF textVars
  <2>2. CASE \E u, m : HandleUpload(u, m)
    <3>1. PICK u, m : HandleUpload(u, m)
      BY <2>2
    <3>2. CASE m = 0 \/ Where(u.view) = {}
      BY <3>1, <3>2, StillLinking DEF HandleUpload, textVars
    <3>3. CASE ~(m = 0 \/ Where(u.view) = {})
      <4>1. PICK e, d, last : /\ e = WithNext(d, last)
                              /\ Transact(e, AfterLine(d, last)) /\ link' = Listened(e, AfterLine(d, last))
        BY <3>1, <3>3 DEF HandleUpload
      <4>2. doc' = e /\ sel' = AfterLine(d, last) /\ ~AfterLine(d, last).all
        BY <4>1 DEF Transact, Becomes, AfterLine, Cursor
      <4> QED BY <4>1, <4>2, SameLinking
    <3> QED BY <3>2, <3>3
  <2>3. UNCHANGED textVars \/ \E u, m : HandleUpload(u, m)
    <3>1. PICK n, k : UNCHANGED <<textVars, items, menuVars, link, pending>> \/ HandleUpload(uploads[n], Arrived(Settled(uploads[n], k)))
      BY <1>2 DEF UploadFile
    <3> QED BY <3>1
  <2> QED BY <2>1, <2>2, <2>3
<1> QED BY <1>1, <1>2 DEF ImageUpload

\* The address typed stays with the text it was typed for.
LEMMA StepLinking ==
    ASSUME Inv, [Next]_vars, link.url = "typed", link'.url = "typed" PROVE Linking' = Linking \/ Undo \/ Redo
<1>1. CASE Select \/ TypeWord \/ TypeSlash \/ DeleteNode
  <2>1. CASE Select
    <3>1. PICK s \in Selections(doc) : Chain(doc, s)
      BY <2>1 DEF Select
    <3>2. Repainted(doc, doc)
      BY InvText, RepaintedSame
    <3> QED BY <3>1, <3>2, ChainLinking
  <2>2. CASE TypeWord \/ TypeSlash
    <3>1. ~sel.all /\ \E w : Put(w)
      BY <2>2 DEF TypeWord, TypeSlash
    <3>2. \E d, s : Chain(d, s)
      BY <3>1 DEF Put
    <3> QED BY <3>1, <3>2, ChainLinking
  <2>3. CASE DeleteNode
    <3>1. OnAtom(doc, sel) /\ \E d, s : Chain(d, s)
      BY <2>3 DEF DeleteNode
    <3> QED BY <3>1, ChainLinking
  <2> QED BY <1>1, <2>1, <2>2, <2>3
<1>2. CASE Toolbar
  BY <1>2, ToolbarLinking
<1>3. CASE HighlightFires
  <2>1. PICK d : /\ d = (IF sel.all THEN ToggledMark(doc, sel, "highlight") ELSE doc)
                 /\ Transact(d, sel) /\ link' = Listened(d, sel)
    BY <1>3 DEF HighlightFires
  <2>2. Repainted(doc, d)
    BY <2>1, InvText, MarkNames, ToggledMarkType, RepaintedSame
  <2>3. doc' = d /\ sel' = sel
    BY <2>1 DEF Transact, Becomes
  <2> QED BY <2>1, <2>2, <2>3, SameLinking
<1>4. CASE TextCommands \/ RuleCommand \/ ImageCommand \/ OpenSubmenu \/ Dismiss \/ AnswerSubmenu
  BY <1>4, MenuLinking
<1>5. CASE ImageUpload
  BY <1>5, UploadLinking
<1>6. CASE UNCHANGED vars
  BY <1>6, StillLinking DEF vars, textVars
<1> QED BY <1>1, <1>2, <1>3, <1>4, <1>5, <1>6 DEF Next

---------------------------------------------------------------------------
(* The invariant *)

\* A note that is opened satisfies the invariant.
LEMMA InitInv == Init => Inv
<1> SUFFICES ASSUME Init PROVE Inv
  OBVIOUS
<1>1. doc \in Documents /\ IsText(doc[1]) /\ ViewsOf(doc) = 1 .. Cardinality(ViewsOf(doc)) /\ sel = Cursor(1, 0)
      /\ views = 1 + Cardinality(ViewsOf(doc)) /\ items = {}
  BY NotesAssumption DEF Init
<1>2. 1 \in DOMAIN doc
  BY <1>1, DocumentType
<1>3. sel \in Spots(doc)
  BY <1>1, <1>2, TextStart
<1>4. Cardinality(ViewsOf(doc)) \in Nat
  <2> DEFINE S == {k \in DOMAIN doc : doc[k].kind = "upload"}
             f == [k \in S |-> doc[k].ref]
  <2>1. IsFiniteSet(S)
    BY <1>1, LinesFinite
  <2>2. f \in Surjection(S, ViewsOf(doc))
    BY DEF Surjection, ViewsOf
  <2>3. IsFiniteSet(ViewsOf(doc))
    <3> HIDE DEF f, S
    <3> QED BY <2>1, <2>2, FS_Surjection
  <2> QED BY <2>3, FS_CardinalityType
<1>5. TextOK
  <2>1. PICK c \in Nat : c = Cardinality(ViewsOf(doc))
    BY <1>4
  <2>2. \A v \in 1 .. c : v < 1 + c
    OBVIOUS
  <2> QED BY <1>1, <1>3, <2>1, <2>2 DEF TextOK
<1>6. PastOK
  <2>1. undo = <<>> /\ redo = <<>>
    BY DEF Init
  <2> QED BY <2>1 DEF PastOK
<1>7. ItemsOK /\ Working
  BY <1>1 DEF ItemsOK, Working
<1>8. MenuOK
  BY DEF Init, MenuOK, NoPopup
<1>9. uploads \in [Sets -> Uploads]
  <2>1. <<>> \in Seq({"pending", "null", "url"})
    OBVIOUS
  <2>2. NoUpload \in Uploads
    BY <2>1 DEF NoUpload, Uploads
  <2> QED BY <2>2 DEF Init
<1>10. link \in Links /\ pending \in BOOLEAN /\ acts \in 0 .. MaxActs
  <2>1. link = [open |-> FALSE, url |-> "null"] /\ pending = FALSE /\ acts = 0
    BY DEF Init
  <2>2. MaxActs \in Nat
    BY EditorAssumption
  <2>3. acts \in 0 .. MaxActs
    BY <2>1, <2>2
  <2>4. link \in Links
    BY <2>1 DEF Links
  <2> QED BY <2>1, <2>3, <2>4
<1> QED BY <1>5, <1>6, <1>7, <1>8, <1>9, <1>10, Parts DEF Inv

LEMMA StutterInv == ASSUME Inv, UNCHANGED vars PROVE Inv'
<1>1. UNCHANGED textVars /\ UNCHANGED uploadVars /\ popup' = popup /\ orphans' = orphans /\ link' = link /\ pending' = pending /\ acts' = acts
  BY DEF vars, menuVars
<1>2. (link \in Links)' /\ (pending \in BOOLEAN)' /\ acts' \in 0 .. MaxActs
  BY <1>1, LinkPending DEF Links
<1> QED BY <1>1, <1>2, TextStays

\* Every step keeps it.
LEMMA NextInv == Inv /\ [Next]_vars => Inv'
<1> SUFFICES ASSUME Inv, [Next]_vars PROVE Inv'
  OBVIOUS
<1>1. CASE Select \/ TypeWord \/ TypeSlash \/ DeleteNode
  BY <1>1, SelectKeeps, TypeWordKeeps, TypeSlashKeeps, DeleteNodeKeeps
<1>2. CASE Toolbar
  BY <1>2, UndoRedoKeeps, HeadingKeeps, ListKeeps, BlockquoteKeeps, CodeKeeps, MarkKeeps, HighlightKeeps,
     LinkKeeps, AlignKeeps, ImageButtonKeeps, BoardButtonKeeps DEF Toolbar
<1>3. CASE HighlightFires
  BY <1>3, FiresKeeps
<1>4. CASE TextCommands \/ RuleCommand \/ ImageCommand
  BY <1>4, TextCommandsKeeps, RuleCommandKeeps, ImageCommandKeeps
<1>5. CASE OpenSubmenu \/ Dismiss \/ AnswerSubmenu
  BY <1>5, SubmenuKeeps, DismissKeeps, AnswerSubmenuKeeps
<1>6. CASE ImageUpload
  BY <1>6, PickFilesKeeps, AbortsKeep, UploadFileKeeps DEF ImageUpload
<1>7. CASE UNCHANGED vars
  BY <1>7, StutterInv
<1> QED BY <1>1, <1>2, <1>3, <1>4, <1>5, <1>6, <1>7 DEF Next

\* The document is well formed, the selections and the history fit their
\* documents, and whatever an upload block shows is being uploaded: each button,
\* slash command, answer of a submenu, undo, redo and upload keeps it so.
THEOREM InvHolds == Spec => []Inv
<1>1. Init => Inv
  BY InitInv
<1>2. Inv /\ [Next]_vars => Inv'
  BY NextInv
<1> QED BY <1>1, <1>2, PTL DEF Spec

\* Whatever the user and the uploads do, the document of the editor stays one
\* that its commands can work on: lists and quotes go on only in lists and
\* quotes, code has no marks, no two upload blocks share a view, selections of
\* the document and of its history are selections in it (TypeOK).
THEOREM TypeCorrect == Spec => []TypeOK
<1>1. Inv => TypeOK
  BY DEF Inv
<1> QED BY <1>1, InvHolds, PTL

\* An upload block never shows a file that nothing is uploading, although the
\* user may take files away, delete the block, undo and redo meanwhile: it would
\* take no click and no file until each was taken away (UploadSettles).
THEOREM UploadsAtWork == Spec => []UploadSettles
<1>1. Inv => UploadSettles
  <2> SUFFICES ASSUME Inv, NEW it \in items PROVE \E n \in Sets : uploads[n].view = it.view /\ uploads[n] # NoUpload
    BY DEF UploadSettles
  <2>1. it.set \in Sets /\ uploads[it.set].view = it.view /\ it.n \in DOMAIN uploads[it.set].res
    BY ItemType
  <2>2. uploads[it.set] # NoUpload
    <3>1. DOMAIN NoUpload.res = {}
      BY DEF NoUpload
    <3> QED BY <2>1, <3>1
  <2> QED BY <2>1, <2>2
<1> QED BY <1>1, InvHolds, PTL

\* An address typed in the link popover is set on the text it was typed for or on
\* none: a step that selects or changes other text, an upload that finishes
\* above it included, takes the address from the popover unless it is undo or
\* redo (LinkForSelection).
THEOREM AddressKept == Spec => LinkForSelection
<1>1. Inv /\ [Next]_vars => [link.url = "typed" /\ link'.url = "typed" => Linking' = Linking \/ Undo \/ Redo]_vars
  BY StepLinking
<1> QED BY <1>1, InvHolds, PTL DEF Spec, LinkForSelection
=============================================================================
