--------------------------- MODULE AutosaveProofs ---------------------------
(***************************************************************************)
(* Proofs about the pages that save by themselves: the state keeps its     *)
(* type, the editor shows what the store holds, and a page at rest has     *)
(* saved the last body it was given, unless a loss was noted.              *)
(***************************************************************************)
EXTENDS Autosave, WellFoundedInduction, TLAPS

\* A set of numbers that is not empty has a least one: the free slot that a new
\* save takes.
LEMMA Least == ASSUME NEW S \in SUBSET Nat, S # {} PROVE \E n \in S : \A m \in S : n <= m
<1> DEFINE R == {ss \in Nat \X Nat : ss[1] < ss[2]}
<1>1. OpToRel(<, Nat) = R
  BY DEF OpToRel
<1>2. IsWellFoundedOn(R, Nat)
  BY <1>1, NatLessThanWellFounded
<1>3. PICK n \in S : \A m \in S : <<m, n>> \notin R
  <2> HIDE DEF R
  <2> QED BY <1>2, WFMin
<1>4. ASSUME NEW m \in S PROVE n <= m
  <2>1. <<m, n>> \notin R /\ m \in Nat /\ n \in Nat
    BY <1>3
  <2>2. <<m, n>> \in Nat \X Nat
    BY <2>1
  <2>3. <<m, n>>[1] = m /\ <<m, n>>[2] = n
    OBVIOUS
  <2>4. ~ (m < n)
    BY <2>1, <2>2, <2>3
  <2> QED BY <2>1, <2>4
<1> QED BY <1>4

\* The first reason is kept, and is one of the list.
LEMMA NoteKeeps ==
    ASSUME NEW cond, NEW why \in Reasons, why # "none", Note(cond, why)
    PROVE  /\ reason \in Reasons => reason' \in Reasons
           /\ reason' = "none" => reason = "none" /\ ~cond
  BY DEF Note, Reasons

\* What is sent is a whole save in a free slot, the first attempt of it.
LEMMA SendFills ==
    ASSUME TypeOK, NEW body \in Bodies, Send(body)
    PROVE  /\ saves' \in Saves
           /\ \E i \in Free :
                /\ saves' = [saves EXCEPT ![i] = [body |-> body, tries |-> 1, st |-> "sent"]]
                /\ saves[i].st = "free"
<1> DEFINE i == CHOOSE j \in Free : \A k \in Free : j <= k
<1> DEFINE r == [body |-> body, tries |-> 1, st |-> "sent"]
<1>1. saves' = [saves EXCEPT ![i] = r] /\ Free # {}
  BY DEF Send
<1>2. i \in Free
  <2>1. Free \subseteq Nat
    BY DEF Free, Slots
  <2> QED BY <1>1, <2>1, Least
<1>3. i \in Slots /\ saves[i].st = "free"
  BY <1>2 DEF Free
<1>4. r \in Save
  BY AutosaveAssumption DEF Save
<1>5. saves \in Saves
  BY DEF TypeOK
<1>6. saves' \in Saves
  <2> HIDE DEF r, i
  <2> QED BY <1>1, <1>3, <1>4, <1>5 DEF Saves
<1> HIDE DEF i
<1> QED BY <1>1, <1>2, <1>3, <1>6

\* Filling the store from the query keeps the types of what it fills.
LEMMA SyncTypes ==
    ASSUME TypeOK, NEW data \in Data, Sync(data)
    PROVE  /\ store' \in [ready : BOOLEAN, body : Bodies]
           /\ shown' \in Bodies /\ latest' \in Bodies /\ ed' \in {0, 1} /\ reason' \in Reasons
  BY DEF TypeOK, Sync, Data, Note, Reasons

\* Every step keeps the type of the state: the initial state has it.
LEMMA TypeInit == Init => TypeOK
<1> SUFFICES ASSUME Init PROVE TypeOK
  OBVIOUS
<1>1. 0 \in Bodies /\ 1 \in Bodies
  BY AutosaveAssumption DEF Bodies
<1>2. kind \in Kinds /\ db \in Data /\ typed \in Bodies
  BY <1>1 DEF Init, Data, Empty
<1>3. cache \in Caches
  BY <1>1 DEF Init, NoCache, NoData, Caches, Data, Empty
<1>4. saves \in Saves
  BY DEF Init, Saves
<1>5. store \in [ready : BOOLEAN, body : Bodies] /\ shown \in Bodies /\ latest \in Bodies
  BY <1>1 DEF Init, Reset, Empty
<1>6. pending \in Args /\ late \in Args
  BY DEF Init, Args
<1>7. gen \in [st : {"none", "transcribing", "generating"}, cap : {0, 1}, here : BOOLEAN]
  BY DEF Init, NoGen
<1>8. count \in Counts
  <2>1. ASSUME NEW n \in Nat PROVE 0 \in 0 .. n
    OBVIOUS
  <2> QED BY <1>1, <2>1, AutosaveAssumption DEF Init, Counts
<1> QED BY <1>2, <1>3, <1>4, <1>5, <1>6, <1>7, <1>8 DEF Init, TypeOK, Reasons

\* A changed field of the counters stays within its bound.
LEMMA CountTypes ==
    ASSUME TypeOK
    PROVE  /\ Made => count' \in Counts /\ Body \in Bodies /\ count'.body = Body
           /\ Touch => count' \in Counts /\ count'.body = count.body
           /\ Body = count.body + 1 /\ count.body \in Nat /\ count \in Counts
  BY AutosaveAssumption DEF TypeOK, Counts, Made, Touch, Body, Bodies

\* What the query becomes is a query again.
LEMMA CacheTypes ==
    ASSUME TypeOK
    PROVE  /\ Fetch(cache) \in Caches /\ Invalidated \in Caches /\ NoCache \in Caches
           /\ [cache EXCEPT !.st = "idle", !.answer = NoData] \in Caches
           /\ [cache EXCEPT !.st = "answered", !.answer = db] \in Caches
           /\ [full |-> TRUE, data |-> cache.answer, answer |-> NoData,
               stale |-> FALSE, st |-> "idle"] \in Caches
           /\ cache.data \in Data /\ cache.answer \in Data
<1>1. NoData \in Data
  BY AutosaveAssumption DEF NoData, Data, Bodies, Empty
<1>2. cache \in Caches /\ db \in Data
  BY DEF TypeOK
<1> QED BY <1>1, <1>2 DEF Caches, Fetch, Invalidated, NoCache

\* A save is written, lost, retried and freed within its type.
LEMMA SavingTypes ==
    ASSUME TypeOK, NEW i \in Slots, Saving(i)
    PROVE  saves' \in Saves
<1>1. saves \in Saves
  BY DEF TypeOK
<1>2. saves[i] \in Save \cup {NoSave}
  BY <1>1 DEF Saves
<1>3. ASSUME NEW r \in Save \cup {NoSave}, saves' = [saves EXCEPT ![i] = r] PROVE saves' \in Saves
  BY <1>1, <1>3 DEF Saves
<1>4. saves[i].st # "free" => saves[i] \in Save
  BY <1>2 DEF NoSave
<1>5. CASE Update(i)
  <2> DEFINE r == [saves[i] EXCEPT !.st = "applied"]
  <2>1. r \in Save /\ saves' = [saves EXCEPT ![i] = r]
    BY <1>4, <1>5, <1>1 DEF Update, Save
  <2> HIDE DEF r
  <2> QED BY <2>1, <1>3
<1>6. CASE Lose(i)
  <2> DEFINE r == [saves[i] EXCEPT !.st = "failed"]
  <2>1. r \in Save /\ saves' = [saves EXCEPT ![i] = r]
    BY <1>4, <1>6, <1>1 DEF Lose, Save
  <2> HIDE DEF r
  <2> QED BY <2>1, <1>3
<1>7. CASE Retry(i)
  <2> DEFINE r == [saves[i] EXCEPT !.st = "sent", !.tries = @ + 1]
  <2>1. saves' = [saves EXCEPT ![i] = r]
    BY <1>7, <1>1 DEF Retry, Saves
  <2>2. saves[i] \in Save /\ saves[i].tries < Tries
    BY <1>4, <1>7 DEF Retry
  <2>3. saves[i].tries + 1 \in 1 .. Tries
    BY <2>2, AutosaveAssumption DEF Save
  <2>4. r \in Save
    BY <2>2, <2>3 DEF Save
  <2> HIDE DEF r
  <2> QED BY <2>1, <2>4, <1>3
<1>8. CASE GiveUp(i)
  BY <1>8, <1>3 DEF GiveUp
<1>9. CASE Saved(i)
  BY <1>9, <1>3 DEF Saved
<1> QED BY <1>5, <1>6, <1>7, <1>8, <1>9 DEF Saving

\* Every step keeps the type of the state.
LEMMA TypeStep == TypeOK /\ [Next]_vars => TypeOK'
<1> SUFFICES ASSUME TypeOK, [Next]_vars PROVE TypeOK'
  OBVIOUS
<1> USE DEF Reasons
<1>t. TypeOK
  OBVIOUS
<1>b. /\ count.body \in Nat /\ Bodies \subseteq Args /\ None \in Args /\ Empty \in Bodies
      /\ \A b \in Args : b # None => b \in Bodies
  BY AutosaveAssumption DEF TypeOK, Counts, Bodies, Args, Empty
<1>r. Reset \in [ready : BOOLEAN, body : Bodies]
  BY <1>b DEF Reset
<1>s. \A b \in Bodies : [store EXCEPT !.body = b] \in [ready : BOOLEAN, body : Bodies]
  BY DEF TypeOK
<1>g. /\ NoGen \in [st : {"none", "transcribing", "generating"}, cap : {0, 1}, here : BOOLEAN]
      /\ [gen EXCEPT !.here = FALSE] \in [st : {"none", "transcribing", "generating"}, cap : {0, 1}, here : BOOLEAN]
      /\ [gen EXCEPT !.st = "generating"] \in [st : {"none", "transcribing", "generating"}, cap : {0, 1}, here : BOOLEAN]
      /\ [st |-> "transcribing", cap |-> ed, here |-> TRUE]
           \in [st : {"none", "transcribing", "generating"}, cap : {0, 1}, here : BOOLEAN]
  BY DEF TypeOK, NoGen
<1>1. ASSUME NEW elapsed \in BOOLEAN, Open(elapsed) PROVE TypeOK'
  <2>1. count' \in Counts
    BY <1>1, AutosaveAssumption DEF Open, TypeOK, Counts
  <2>2. cache' \in Caches /\ cache.data \in Data
    BY <1>1, CacheTypes DEF Open, TypeOK
  <2>3. /\ store' \in [ready : BOOLEAN, body : Bodies]
        /\ shown' \in Bodies /\ latest' \in Bodies /\ ed' \in {0, 1} /\ reason' \in Reasons
    BY <1>1, <2>2, SyncTypes DEF Open, TypeOK
  <2> QED BY <1>1, <2>1, <2>2, <2>3 DEF Open, TypeOK
<1>2. CASE Read
  <2>1. cache' \in Caches
    BY <1>2, CacheTypes DEF Read
  <2> QED BY <1>2, <2>1 DEF Read, TypeOK, pageVars
<1>3. CASE Arrive
  <2>1. cache' \in Caches /\ cache.answer \in Data
    BY <1>3, CacheTypes DEF Arrive
  <2>2. /\ store' \in [ready : BOOLEAN, body : Bodies]
        /\ shown' \in Bodies /\ latest' \in Bodies /\ ed' \in {0, 1} /\ reason' \in Reasons
    BY <1>3, <2>1, SyncTypes DEF Arrive, TypeOK
  <2> QED BY <1>3, <2>1, <2>2 DEF Arrive, TypeOK
<1>4. CASE Leave
  <2>1. cache' \in Caches
    BY <1>4, CacheTypes DEF Leave
  <2>2. saves' \in Saves
    BY <1>4, <1>b, SendFills DEF Leave, TypeOK
  <2>3. reason' \in Reasons
    BY <1>4 DEF Leave, TypeOK, Note
  <2> QED BY <1>4, <1>b, <1>r, <1>g, <2>1, <2>2, <2>3 DEF Leave, TypeOK
<1>5. CASE AskLeave \/ Stay
  BY <1>5 DEF AskLeave, Stay, TypeOK, netVars
<1>6. CASE TypeNote
  <2>1. count' \in Counts /\ Body \in Bodies
    BY <1>6, CountTypes DEF TypeNote
  <2>2. reason' \in Reasons
    BY <1>6 DEF TypeNote, Debounce, Note, TypeOK
  <2> QED BY <1>6, <1>b, <1>s, <2>1, <2>2 DEF TypeNote, Debounce, TypeOK, netVars
<1>7. CASE TypeTitle
  <2>1. count' \in Counts
    BY <1>7, CountTypes DEF TypeTitle
  <2>2. reason' \in Reasons
    BY <1>7 DEF TypeTitle, Debounce, Note, TypeOK
  <2> QED BY <1>7, <1>b, <2>1, <2>2 DEF TypeTitle, Debounce, TypeOK, netVars
<1>8. ASSUME NEW draws \in BOOLEAN, NEW text \in BOOLEAN, Draw(draws, text) PROVE TypeOK'
  <2>1. count' \in Counts /\ (draws => Body \in Bodies)
    BY <1>8, CountTypes DEF Draw, TypeOK
  <2> DEFINE body == IF draws THEN Body ELSE shown
  <2>2. body \in Bodies
    BY <2>1 DEF TypeOK
  <2>3. /\ shown' = body /\ typed' \in Bodies
        /\ store' = [store EXCEPT !.body = body] /\ writing' = text
        /\ UNCHANGED <<kind, open, netVars, asked, ed, busy>>
        /\ \/ UNCHANGED <<latest, pending, reason>>
           \/ latest' = body /\ Debounce(body)
    BY <1>8, <2>2 DEF Draw, TypeOK
  <2> HIDE DEF body
  <2>4. reason' \in Reasons
    BY <2>3 DEF Debounce, Note, TypeOK
  <2> QED BY <1>b, <1>s, <2>1, <2>2, <2>3, <2>4 DEF Debounce, TypeOK, netVars
<1>9. CASE Generate \/ TranscribeFails \/ \E empty \in BOOLEAN : GenerateFails(empty)
  <2>1. ASSUME NEW p, NEW q PROVE (p /\ q) \in BOOLEAN
    OBVIOUS
  <2>2. busy' \in BOOLEAN
    BY <1>9, <2>1 DEF Generate, TranscribeFails, GenerateFails
  <2>3. gen' \in [st : {"none", "transcribing", "generating"}, cap : {0, 1}, here : BOOLEAN]
    BY <1>9, <1>g DEF Generate, TranscribeFails, GenerateFails
  <2>4. UNCHANGED <<kind, open, db, cache, late, saves, store, shown, latest, pending, writing,
                    asked, ed, count, typed, reason>>
    BY <1>9 DEF Generate, TranscribeFails, GenerateFails
  <2> QED BY <2>2, <2>3, <2>4 DEF TypeOK
<1>10. CASE Transcribed
  <2>1. CASE gen.here /\ gen.cap = ed
    <3>1. count' \in Counts /\ Body \in Bodies
      BY <1>10, <2>1, CountTypes DEF Transcribed
    <3>2. reason' \in Reasons
      BY <1>10, <2>1 DEF Transcribed, Debounce, Note, TypeOK
    <3> QED BY <1>10, <2>1, <1>b, <1>g, <1>s, <3>1, <3>2 DEF Transcribed, Debounce, TypeOK
  <2>2. CASE ~(gen.here /\ gen.cap = ed)
    BY <1>10, <2>2, <1>g DEF Transcribed, TypeOK
  <2> QED BY <2>1, <2>2
<1>11. CASE Finished
  <2>1. count' \in Counts /\ Body \in Bodies
    BY <1>11, CountTypes DEF Finished
  <2>2. reason' \in Reasons
    BY <1>11 DEF Finished, Note, TypeOK
  <2>3. cache' \in Caches /\ db' \in Data
    BY <1>11, CacheTypes DEF Finished, TypeOK, Data
  <2>4. /\ shown' \in Bodies /\ latest' \in Bodies /\ ed' \in {0, 1} /\ busy' \in BOOLEAN
        /\ pending' \in Args /\ late' \in Args
    BY <1>11, <2>1, <1>b DEF Finished, TypeOK
  <2> QED BY <1>11, <1>g, <1>s, <2>1, <2>2, <2>3, <2>4 DEF Finished, TypeOK
<1>12. CASE SaveStarts
  <2>1. saves' \in Saves
    BY <1>12, <1>b, SendFills DEF SaveStarts, TypeOK
  <2>2. reason' \in Reasons
    BY <1>12 DEF SaveStarts, Note, TypeOK
  <2> QED BY <1>12, <1>b, <2>1, <2>2 DEF SaveStarts, TypeOK
<1>13. CASE LateSaveStarts
  <2>1. saves' \in Saves
    BY <1>13, <1>b, SendFills DEF LateSaveStarts, TypeOK
  <2>2. reason' \in Reasons
    BY <1>13 DEF LateSaveStarts, Note, TypeOK
  <2> QED BY <1>13, <1>b, <2>1, <2>2 DEF LateSaveStarts, TypeOK, pageVars
<1>14. ASSUME NEW i \in Slots, Saving(i) PROVE TypeOK'
  <2>1. saves' \in Saves
    BY <1>14, SavingTypes
  <2>2. saves[i].st = "sent" => saves[i].body \in Bodies
    <3>1. saves[i] \in Save \cup {NoSave}
      BY DEF TypeOK, Saves
    <3> QED BY <3>1 DEF Save, NoSave
  <2>3. db' \in Data /\ cache' \in Caches /\ reason' \in Reasons /\ count' = count /\ UNCHANGED Keeps
    BY <1>14, <2>2, CacheTypes DEF Saving, Update, Lose, Retry, GiveUp, Saved, Note, Data, TypeOK
  <2> QED BY <2>1, <2>3 DEF Keeps, TypeOK, pageVars
<1>15. CASE UNCHANGED vars
  BY <1>15 DEF vars, pageVars, netVars, TypeOK
<1> QED
  BY <1>1, <1>2, <1>3, <1>4, <1>5, <1>6, <1>7, <1>8, <1>9, <1>10, <1>11, <1>12, <1>13, <1>14, <1>15
     DEF Next, Page, Generation

-----------------------------------------------------------------------------
(* Why no body is lost: as long as no reason was noted, the last body the  *)
(* page was given waits to be saved, is on its way alone, or is stored;    *)
(* only while a text is edited on a canvas may nobody have it yet.         *)

\* Bodies are made one after another: what is held anywhere is no newer than
\* the last one made, so that a new one differs from all of them.
Old == 0 .. count.body
Fresh ==
    /\ db.body \in Old /\ typed \in Old
    /\ cache.data.body \in Old /\ cache.answer.body \in Old
    /\ shown \in Old /\ latest \in Old
    /\ pending \in Old \cup {None}
    /\ \A i \in Slots \ Free : saves[i].body \in Old

\* At most one save is in flight, and one that was applied is what the row holds.
OneSave ==
    /\ \A i, j \in Slots \ Free : i = j
    /\ \A i \in Slots : saves[i].st = "applied" => saves[i].body = db.body

\* The last body was drawn while a text is being edited: nobody has it yet.
Unhanded ==
    /\ writing /\ typed # Empty
    /\ typed # db.body /\ typed # cache.data.body /\ typed # cache.answer.body
    /\ typed # latest /\ typed # pending
    /\ \A i \in Slots \ Free : typed # saves[i].body

\* The last body waits to be saved, is on its way, or is stored.
Handed ==
    \/ pending = typed
    \/ pending = None /\ \E i \in Slots \ Free : saves[i].body = typed
    \/ pending = None /\ Rest /\ db.body = typed

\* The editor shows what the store holds; the store of a closed page is reset,
\* and nothing is fetched for it.
Shown ==
    /\ ~open => ~store.ready /\ cache.st = "idle"
    /\ open /\ store.ready => shown = store.body

Lossless == late = None /\ Shown /\ Fresh /\ OneSave /\ (Handed \/ Unhanded)

IInv == TypeOK /\ (reason = "none" => Lossless)

LEMMA InvInit == Init => IInv
<1> SUFFICES ASSUME Init PROVE IInv
  OBVIOUS
<1>1. TypeOK
  BY TypeInit
<1>2. 0 \in 0 .. 1 /\ 1 \in 0 .. 1 /\ count.body = 1
  BY DEF Init
<1>3. \A i \in Slots : saves[i].st = "free"
  BY DEF Init, NoSave
<1>4. Slots \ Free = {} /\ Rest
  BY <1>3 DEF Free, Rest
<1>5. Fresh
  BY <1>2, <1>4 DEF Init, Fresh, Old, NoCache, NoData, Empty
<1>6. OneSave
  BY <1>3, <1>4 DEF OneSave
<1>7. Handed
  BY <1>4 DEF Init, Handed
<1>8. Shown
  BY DEF Init, Shown, Reset, NoCache
<1> QED BY <1>1, <1>5, <1>6, <1>7, <1>8 DEF Init, IInv, Lossless

\* Shown is kept by every step that notes no reason.
LEMMA ShownStep == TypeOK /\ Shown /\ reason = "none" /\ reason' = "none" /\ [Next]_vars => Shown'
<1> SUFFICES ASSUME TypeOK, Shown, reason = "none", reason' = "none", [Next]_vars PROVE Shown'
  OBVIOUS
<1>s. \A b \in Bodies : [store EXCEPT !.body = b].body = b /\ [store EXCEPT !.body = b].ready = store.ready
  BY DEF TypeOK
<1>b. Made => Body \in Bodies
  BY CountTypes
<1>i. ~open => Invalidated.st = cache.st
  BY DEF Invalidated, TypeOK, Caches
<1>1. ASSUME NEW elapsed \in BOOLEAN, Open(elapsed) PROVE Shown'
  BY <1>1 DEF Open, Shown, Sync
<1>2. CASE Arrive
  BY <1>2 DEF Arrive, Shown, Sync
<1>3. CASE Read
  BY <1>3 DEF Read, Shown, pageVars
<1>4. CASE Leave
  BY <1>4 DEF Leave, Shown, Reset, NoCache, TypeOK, Caches
<1>5. CASE AskLeave \/ Stay \/ TypeTitle \/ SaveStarts \/ LateSaveStarts \/ UNCHANGED vars
  BY <1>5 DEF AskLeave, Stay, TypeTitle, SaveStarts, LateSaveStarts, Shown, netVars, pageVars, vars
<1>6. CASE TypeNote
  BY <1>6, <1>s, <1>b DEF TypeNote, Editing, Shown, netVars
<1>7. ASSUME NEW draws \in BOOLEAN, NEW text \in BOOLEAN, Draw(draws, text) PROVE Shown'
  <2> DEFINE body == IF draws THEN Body ELSE shown
  <2>1. body \in Bodies
    BY <1>7, <1>b DEF Draw, TypeOK
  <2>2. shown' = body /\ store' = [store EXCEPT !.body = body] /\ UNCHANGED <<open, cache>> /\ open
    BY <1>7 DEF Draw, Editing, netVars
  <2> HIDE DEF body
  <2> QED BY <2>1, <2>2, <1>s DEF Shown
<1>8. CASE Generate \/ TranscribeFails \/ \E empty \in BOOLEAN : GenerateFails(empty)
  BY <1>8 DEF Generate, TranscribeFails, GenerateFails, Shown
<1>9. CASE Transcribed
  BY <1>9, <1>s, <1>b DEF Transcribed, Shown
<1>10. CASE Finished
  <2>1. gen.here /\ gen.cap = ed
    BY <1>10 DEF Finished, Note
  <2> QED BY <1>10, <2>1, <1>s, <1>b, <1>i DEF Finished, Shown
<1>11. ASSUME NEW i \in Slots, Saving(i) PROVE Shown'
  <2>1. UNCHANGED <<open, store, shown>> /\ cache' \in {cache, Invalidated}
    BY <1>11 DEF Saving, Update, Lose, Retry, GiveUp, Saved, Keeps, pageVars
  <2> QED BY <2>1, <1>i DEF Shown
<1> QED
  BY <1>1, <1>2, <1>3, <1>4, <1>5, <1>6, <1>7, <1>8, <1>9, <1>10, <1>11 DEF Next, Page, Generation

\* A save that starts while none is in flight is then the only one.
LEMMA StartsAlone ==
    ASSUME TypeOK, NEW body \in Bodies, Send(body), Rest
    PROVE  \E i \in Slots :
              /\ saves'[i].body = body /\ saves'[i].st = "sent"
              /\ \A j \in Slots : j # i => saves'[j].st = "free"
              /\ Slots \ Free' = {i}
<1>1. PICK i \in Free : saves' = [saves EXCEPT ![i] = [body |-> body, tries |-> 1, st |-> "sent"]]
  BY SendFills
<1>2. \A j \in Slots : saves[j].st = "free"
  BY DEF Rest, Free
<1>3. i \in Slots /\ DOMAIN saves = Slots
  BY DEF Free, TypeOK, Saves
<1>4. saves'[i].body = body /\ saves'[i].st = "sent" /\ \A j \in Slots : j # i => saves'[j].st = "free"
  BY <1>1, <1>2, <1>3
<1> QED BY <1>3, <1>4 DEF Free

\* A save in flight goes on with the body it has, and applies it or ends; one
\* that was given up notes it.
LEMMA SavingGoesOn ==
    ASSUME TypeOK, NEW i \in Slots, Saving(i), reason' = "none"
    PROVE  /\ reason = "none" /\ saves[i].st # "free" /\ UNCHANGED <<count, Keeps>>
           /\ \A j \in Slots : j # i => saves'[j] = saves[j]
           /\ saves'[i].st # "free" => saves'[i].body = saves[i].body
           /\ saves'[i].st = "free" => saves[i].st = "applied" /\ db' = db
           /\ saves'[i].st = "applied" => db'.body = saves[i].body
           /\ db'.body \in {db.body, saves[i].body} /\ (saves'[i].st \notin {"free", "applied"} => db' = db)
           /\ cache' \in {cache, Invalidated}
<1>1. DOMAIN saves = Slots /\ saves[i] \in Save \cup {NoSave}
  BY DEF TypeOK, Saves
<1>2. saves[i].st # "free" => saves[i] \in Save
  BY <1>1 DEF NoSave
<1>3. ~GiveUp(i)
  BY DEF GiveUp, Note
<1>4. CASE Update(i)
  BY <1>1, <1>2, <1>4 DEF Update, Keeps, Save
<1>5. CASE Lose(i)
  BY <1>1, <1>2, <1>5 DEF Lose, Keeps, Save
<1>6. CASE Retry(i)
  BY <1>1, <1>2, <1>6 DEF Retry, Keeps, Save
<1>7. CASE Saved(i)
  BY <1>1, <1>2, <1>7 DEF Saved, Keeps, NoSave
<1> QED BY <1>3, <1>4, <1>5, <1>6, <1>7 DEF Saving

\* What a query is set to holds only bodies that it or the row already held.
LEMMA CacheBodies ==
    ASSUME TypeOK
    PROVE  /\ Invalidated.data.body = cache.data.body
           /\ Invalidated.answer.body \in {cache.answer.body, Empty}
           /\ Fetch(cache).data.body = cache.data.body /\ Fetch(cache).answer.body = Empty
           /\ [cache EXCEPT !.st = "idle", !.answer = NoData].data.body = cache.data.body
           /\ [cache EXCEPT !.st = "idle", !.answer = NoData].answer.body = Empty
           /\ [cache EXCEPT !.st = "answered", !.answer = db].data.body = cache.data.body
           /\ [cache EXCEPT !.st = "answered", !.answer = db].answer.body = db.body
           /\ NoCache.data.body = Empty /\ NoCache.answer.body = Empty
  BY DEF TypeOK, Caches, Invalidated, Fetch, NoCache, NoData

\* Every save in flight is one that was in flight, or carries what was pending.
LEMMA OneSaveStep ==
    TypeOK /\ OneSave /\ late = None /\ reason' = "none" /\ [Next]_vars => OneSave'
<1> SUFFICES ASSUME TypeOK, OneSave, late = None, reason' = "none", [Next]_vars PROVE OneSave'
  OBVIOUS
<1>1. ASSUME NEW body \in Bodies, Send(body), Rest, db' = db PROVE OneSave'
  BY <1>1, StartsAlone DEF OneSave
<1>2. ASSUME saves' = saves, db'.body = db.body PROVE OneSave'
  BY <1>2 DEF OneSave, Free
<1>b. pending # None => pending \in Bodies
  BY DEF TypeOK, Args
<1>3. CASE SaveStarts
  BY <1>3, <1>1, <1>b DEF SaveStarts, Note
<1>4. CASE Leave
  <2>1. CASE pending = None
    BY <1>4, <2>1, <1>2 DEF Leave
  <2>2. CASE pending # None
    <3>1. Send(pending) /\ Rest /\ db' = db
      BY <1>4, <2>2 DEF Leave, Note
    <3>2. pending \in Bodies
      BY <2>2, <1>b
    <3> QED BY <3>1, <3>2, <1>1
  <2> QED BY <2>1, <2>2
<1>5. ~LateSaveStarts
  BY DEF LateSaveStarts
<1>6. ASSUME NEW i \in Slots, Saving(i) PROVE OneSave'
  <2>1. \A j, k \in Slots : saves[j].st # "free" /\ saves[k].st # "free" => j = k
    BY DEF OneSave, Free
  <2>2. \A j \in Slots : saves'[j].st # "free" => j = i
    BY <1>6, <2>1, SavingGoesOn
  <2>3. ASSUME NEW j \in Slots, saves'[j].st = "applied" PROVE saves'[j].body = db'.body
    <3>1. j = i
      BY <2>2, <2>3
    <3> QED BY <1>6, <2>3, <3>1, SavingGoesOn
  <2> QED BY <2>2, <2>3 DEF OneSave, Free
<1>7. CASE \/ \E elapsed \in BOOLEAN : Open(elapsed)
           \/ AskLeave \/ Stay \/ TypeNote \/ TypeTitle \/ \E draws, text \in BOOLEAN : Draw(draws, text)
           \/ Read \/ Arrive \/ UNCHANGED vars
  BY <1>7, <1>2 DEF Open, AskLeave, Stay, TypeNote, TypeTitle, Draw, Read, Arrive, vars, netVars
<1>8. CASE Generation
  <2>1. saves' = saves /\ db'.body = db.body
    BY <1>8 DEF Generation, Generate, TranscribeFails, Transcribed, Finished, GenerateFails, TypeOK, Data
  <2> QED BY <2>1, <1>2
<1> QED BY <1>3, <1>4, <1>5, <1>6, <1>7, <1>8 DEF Next, Page

\* A new body is newer than all that are held, which stay known.
LEMMA BodiesGrow ==
    ASSUME TypeOK
    PROVE  /\ Body \notin Old /\ None \notin Old /\ Empty \in Old
           /\ Made => Old \subseteq Old' /\ Body \in Old' /\ Body # None
           /\ count'.body = count.body => Old' = Old
  BY AutosaveAssumption DEF TypeOK, Counts, Made, Body, Bodies, Old, None, Empty

\* Wherever a body is held after a step it was held before, or it is the new one.
LEMMA FreshStep ==
    TypeOK /\ Fresh /\ late = None /\ reason' = "none" /\ [Next]_vars => Fresh'
<1> SUFFICES ASSUME TypeOK, Fresh, late = None, reason' = "none", [Next]_vars PROVE Fresh'
  OBVIOUS
<1> DEFINE Cached(c) == {c.data.body, c.answer.body}
<1>g. Body \notin Old /\ None \notin Old /\ Empty \in Old
  BY BodiesGrow
<1>m. Made => Old \subseteq Old' /\ Body \in Old'
  BY BodiesGrow
<1>k. count'.body = count.body => Old' = Old
  BY BodiesGrow
<1>t. Touch => Old' = Old
  BY <1>k, CountTypes
<1>c. /\ Cached(cache) \subseteq Old /\ Cached(Invalidated) \subseteq Old /\ Cached(Fetch(cache)) \subseteq Old
      /\ Cached([cache EXCEPT !.st = "idle", !.answer = NoData]) \subseteq Old
      /\ Cached([cache EXCEPT !.st = "answered", !.answer = db]) \subseteq Old
      /\ Cached(NoCache) \subseteq Old
  BY <1>g, CacheBodies DEF Fresh
<1>w. ASSUME saves' = saves, Old \subseteq Old' PROVE \A i \in Slots \ Free' : saves'[i].body \in Old'
  BY <1>w DEF Fresh, Free
<1>p. pending # None => pending \in Bodies /\ pending \in Old
  BY DEF Fresh, TypeOK, Args
<1>e. ASSUME Old \subseteq Old', db'.body = db.body, typed' \in Old \cup Old', Cached(cache') \subseteq Old, shown' \in Old \cup Old',
             latest' \in Old \cup Old', pending' \in Old \cup Old' \cup {None}, saves' = saves
      PROVE  Fresh'
  BY <1>e, <1>w DEF Fresh
<1> HIDE DEF Cached
<1>s. ASSUME NEW body \in Old, body \in Bodies, Send(body), Rest, Old' = Old, UNCHANGED <<db, typed>>, Cached(cache') \subseteq Old,
             shown' \in Old, latest' \in Old, pending' \in Old \cup {None}
      PROVE  Fresh'
  <2>1. \A i \in Slots \ Free' : saves'[i].body \in Old'
    BY <1>s, StartsAlone
  <2> QED BY <1>s, <2>1 DEF Fresh, Cached
<1>1. ASSUME NEW elapsed \in BOOLEAN, Open(elapsed) PROVE Fresh'
  <2>1. Old' = Old
    BY <1>1, <1>k DEF Open, TypeOK, Counts
  <2>2. shown' \in Old /\ latest' \in Old
    BY <1>1 DEF Open, Sync, Fresh
  <2>3. UNCHANGED <<db, typed, pending, saves>> /\ pending \in Old \cup {None} /\ typed \in Old
    BY <1>1 DEF Open, Fresh
  <2>4. Cached(cache') \subseteq Old
    BY <1>1, <1>c DEF Open
  <2> QED BY <1>e, <2>1, <2>2, <2>3, <2>4
<1>2. CASE Read
  <2>1. UNCHANGED <<count, typed, shown, latest, pending, saves, db>> /\ Cached(cache') \subseteq Old
    BY <1>2, <1>c DEF Read, pageVars
  <2> QED BY <2>1, <1>e, <1>k DEF Fresh
<1>3. CASE Arrive
  <2>1. shown' \in Old /\ latest' \in Old /\ UNCHANGED <<count, typed, pending, saves, db>>
    BY <1>3 DEF Arrive, Sync, Fresh
  <2>2. Cached(cache') \subseteq Old
    BY <1>3, <1>c, <1>g DEF Arrive, Cached, NoData
  <2> QED BY <2>1, <2>2, <1>e, <1>k DEF Fresh
<1>4. CASE Leave
  <2>1. Cached(cache') \subseteq Old
    BY <1>4, <1>c DEF Leave
  <2>2. Old' = Old /\ shown' \in Old /\ latest' \in Old /\ pending' = None /\ UNCHANGED <<db, typed>>
    BY <1>4, <1>g, <1>k DEF Leave
  <2>3. CASE pending = None
    BY <1>4, <2>1, <2>2, <2>3, <1>e DEF Leave, Fresh
  <2>4. CASE pending # None
    <3>1. Send(pending) /\ Rest
      BY <1>4, <2>4 DEF Leave, Note
    <3> QED BY <3>1, <2>1, <2>2, <2>4, <1>s, <1>p
  <2> QED BY <2>3, <2>4
<1>5. CASE SaveStarts
  BY <1>5, <1>s, <1>p, <1>k, <1>c DEF SaveStarts, Note, Fresh
<1>6. CASE AskLeave \/ Stay \/ UNCHANGED vars
  BY <1>6, <1>e, <1>c, <1>k DEF AskLeave, Stay, vars, netVars, pageVars, Fresh
<1>7. CASE TypeNote
  BY <1>7, <1>e, <1>c, <1>m DEF TypeNote, Debounce, netVars
<1>8. CASE TypeTitle
  BY <1>8, <1>e, <1>c, <1>t DEF TypeTitle, Debounce, netVars, Fresh
<1>9. ASSUME NEW draws \in BOOLEAN, NEW text \in BOOLEAN, Draw(draws, text) PROVE Fresh'
  <2> DEFINE body == IF draws THEN Body ELSE shown
  <2>1. Old \subseteq Old' /\ body \in Old'
    BY <1>9, <1>m, <1>t, <1>k DEF Draw, Fresh
  <2>2. /\ shown' = body /\ typed' \in {body, typed} /\ latest' \in {latest, body}
        /\ pending' \in {pending, body} /\ UNCHANGED netVars
    BY <1>9 DEF Draw, Debounce
  <2> HIDE DEF body
  <2> QED BY <2>1, <2>2, <1>e, <1>c DEF netVars, Fresh
<1>10. CASE Generate \/ TranscribeFails \/ \E empty \in BOOLEAN : GenerateFails(empty)
  BY <1>10, <1>e, <1>c, <1>k DEF Generate, TranscribeFails, GenerateFails, Fresh
<1>11. CASE Transcribed
  <2>1. CASE gen.here /\ gen.cap = ed
    BY <1>11, <2>1, <1>e, <1>c, <1>m DEF Transcribed, Debounce, Fresh
  <2>2. CASE ~(gen.here /\ gen.cap = ed)
    BY <1>11, <2>2, <1>e, <1>c, <1>k DEF Transcribed, Fresh
  <2> QED BY <2>1, <2>2
<1>12. CASE Finished
  <2>1. db'.body = db.body /\ saves' = saves /\ Cached(cache') \subseteq Old
    BY <1>12, <1>c DEF Finished, TypeOK, Data
  <2>2. Old \subseteq Old' /\ typed' \in Old' /\ shown' \in Old \cup Old' /\ latest' \in Old \cup Old'
    BY <1>12, <1>m DEF Finished, Fresh
  <2>3. pending' \in Old \cup Old' \cup {None}
    BY <1>12, <1>m DEF Finished, Fresh
  <2> QED BY <2>1, <2>2, <2>3, <1>e
<1>13. ASSUME NEW i \in Slots, Saving(i) PROVE Fresh'
  <2>1. saves[i].body \in Old
    BY <1>13, SavingGoesOn DEF Fresh, Free
  <2>2. \A j \in Slots \ Free' : saves'[j].body \in Old
    BY <1>13, <2>1, SavingGoesOn DEF Fresh, Free
  <2>3. db'.body \in Old /\ Cached(cache') \subseteq Old
    BY <1>13, <2>1, <1>c, SavingGoesOn DEF Fresh
  <2>4. Old' = Old /\ UNCHANGED <<typed, shown, latest, pending>>
    BY <1>13, <1>k, SavingGoesOn DEF Keeps, pageVars
  <2> QED BY <2>2, <2>3, <2>4 DEF Fresh, Cached
<1>14. ~LateSaveStarts
  BY DEF LateSaveStarts
<1> QED
  BY <1>1, <1>2, <1>3, <1>4, <1>5, <1>6, <1>7, <1>8, <1>9, <1>10, <1>11, <1>12, <1>13, <1>14
     DEF Next, Page, Generation

\* The last body stays handed on, or unhanded while the text is edited.
LEMMA HandStep ==
    ASSUME TypeOK, Fresh, OneSave, late = None, Handed \/ Unhanded,
           reason = "none", reason' = "none", [Next]_vars
    PROVE  Handed' \/ Unhanded'
<1>g. Body \notin Old /\ None \notin Old /\ typed # None
  BY BodiesGrow DEF Fresh
<1>m. Made => Body # None
  BY BodiesGrow
<1>p. pending # None => pending \in Bodies
  BY DEF TypeOK, Args
<1>f. saves' = saves => Free' = Free /\ (Rest <=> Rest')
  BY DEF Free, Rest
<1>q. ASSUME UNCHANGED <<db, pending, typed, saves>>, writing => writing',
             cache'.data.body \in {cache.data.body, cache.answer.body},
             cache'.answer.body \in {cache.answer.body, db.body, Empty},
             latest' \in {latest, cache.data.body, cache.answer.body}
      PROVE  Handed' \/ Unhanded'
  <2>1. Handed => Handed'
    BY <1>q, <1>f DEF Handed
  <2>2. Unhanded => Unhanded'
    BY <1>q, <1>f DEF Unhanded
  <2> QED BY <2>1, <2>2
<1>d. pending' = typed' => Handed'
  BY DEF Handed
<1>1. ASSUME NEW elapsed \in BOOLEAN, Open(elapsed) PROVE Handed' \/ Unhanded'
  <2>1. UNCHANGED <<db, pending, typed, saves, writing>> /\ cache' \in {cache, Fetch(cache)}
    BY <1>1 DEF Open
  <2>2. latest' \in {latest, cache.data.body}
    BY <1>1 DEF Open, Sync
  <2> QED BY <2>1, <2>2, <1>q, CacheBodies
<1>2. CASE Read
  BY <1>2, <1>q, CacheBodies DEF Read, pageVars
<1>3. CASE Arrive
  <2>1. latest' \in {latest, cache.answer.body}
    BY <1>3 DEF Arrive, Sync
  <2>2. cache'.data.body = cache.answer.body /\ cache'.answer.body = Empty
    BY <1>3 DEF Arrive, NoData
  <2> QED BY <1>3, <2>1, <2>2, <1>q DEF Arrive
<1>4. ASSUME Send(pending), pending # None, Rest, pending = typed, pending' = None, UNCHANGED typed
      PROVE  Handed'
  BY <1>4, <1>p, StartsAlone DEF Handed
<1>5. CASE Leave
  <2>1. Handed
    BY <1>5 DEF Leave, Note, Unhanded, CutOff
  <2>2. CASE pending = None
    BY <1>5, <2>1, <2>2, <1>f, <1>g DEF Leave, Handed
  <2>3. CASE pending # None
    <3>1. Send(pending) /\ Rest /\ pending' = None /\ UNCHANGED typed
      BY <1>5, <2>3 DEF Leave, Note
    <3> QED BY <2>1, <2>3, <3>1, <1>4 DEF Handed
  <2> QED BY <2>2, <2>3
<1>6. CASE SaveStarts
  <2>1. Send(pending) /\ pending # None /\ Rest /\ pending' = None /\ pending \in Bodies
    BY <1>6, <1>p DEF SaveStarts, Note
  <2>2. CASE Handed
    BY <1>6, <2>1, <2>2, <1>4 DEF SaveStarts, Handed
  <2>3. CASE Unhanded
    <3>1. \A i \in Slots \ Free' : saves'[i].body = pending
      BY <2>1, StartsAlone
    <3>2. UNCHANGED <<db, cache, latest, writing, typed>>
      BY <1>6 DEF SaveStarts
    <3> QED BY <2>1, <2>3, <3>1, <3>2, <1>g DEF Unhanded
  <2> QED BY <2>2, <2>3
<1>7. CASE AskLeave \/ Stay \/ UNCHANGED vars
  BY <1>7, <1>q DEF AskLeave, Stay, vars, netVars, pageVars
<1>8. CASE TypeNote
  BY <1>8, <1>d DEF TypeNote, Debounce
<1>9. CASE TypeTitle
  BY <1>9, <1>d DEF TypeTitle, Debounce, Note
<1>10. ASSUME NEW draws \in BOOLEAN, NEW text \in BOOLEAN, Draw(draws, text) PROVE Handed' \/ Unhanded'
  <2>1. CASE ~text
    BY <1>10, <2>1, <1>d DEF Draw, Debounce, Note
  <2>2. CASE text /\ draws
    <3>1. Made /\ typed' = Body /\ UNCHANGED <<latest, pending, netVars>> /\ writing'
      BY <1>10, <2>2 DEF Draw
    <3>2. Body # Empty /\ Body # None
      BY <3>1, BodiesGrow
    <3>3. \A i \in Slots \ Free' : saves'[i].body # Body
      BY <3>1, <1>f, <1>g DEF Fresh, netVars
    <3> QED BY <3>1, <3>2, <3>3, <1>g DEF Unhanded, Fresh, netVars
  <2>3. CASE text /\ ~draws
    BY <1>10, <2>3, <1>q DEF Draw, netVars
  <2> QED BY <2>1, <2>2, <2>3
<1>11. CASE Generate \/ TranscribeFails \/ \E empty \in BOOLEAN : GenerateFails(empty)
  BY <1>11, <1>q DEF Generate, TranscribeFails, GenerateFails
<1>12. CASE Transcribed
  <2>1. CASE gen.here /\ gen.cap = ed
    BY <1>12, <2>1, <1>d DEF Transcribed, Debounce
  <2>2. CASE ~(gen.here /\ gen.cap = ed)
    BY <1>12, <2>2, <1>q DEF Transcribed
  <2> QED BY <2>1, <2>2
<1>13. CASE Finished
  BY <1>13, <1>d DEF Finished, Note
<1>14. ASSUME NEW i \in Slots, Saving(i) PROVE Handed' \/ Unhanded'
  <2>1. UNCHANGED <<typed, pending, latest, writing>>
    BY <1>14, SavingGoesOn DEF Keeps, pageVars
  <2>2. \A j \in Slots : saves[j].st # "free" => j = i
    BY <1>14, SavingGoesOn DEF OneSave, Free
  <2>3. \A j \in Slots : j # i => saves'[j].st = "free"
    BY <1>14, <2>2, SavingGoesOn
  <2>4. CASE Unhanded
    <3>1. typed # saves[i].body
      BY <1>14, <2>4, SavingGoesOn DEF Unhanded, Free
    <3>2. \A j \in Slots \ Free' : saves'[j].body = saves[i].body
      BY <1>14, <2>3, SavingGoesOn DEF Free
    <3>3. typed # db'.body /\ typed # cache'.data.body /\ typed # cache'.answer.body
      BY <1>14, <2>4, <3>1, SavingGoesOn, CacheBodies DEF Unhanded
    <3> QED BY <2>1, <2>4, <3>1, <3>2, <3>3 DEF Unhanded
  <2>5. CASE pending = None /\ \E j \in Slots \ Free : saves[j].body = typed
    <3>1. saves[i].body = typed
      BY <2>2, <2>5 DEF Free
    <3>2. CASE saves'[i].st # "free"
      <4>1. i \in Slots \ Free' /\ saves'[i].body = typed'
        BY <1>14, <2>1, <3>1, <3>2, SavingGoesOn DEF Free
      <4> QED BY <2>1, <2>5, <4>1 DEF Handed
    <3>3. CASE saves'[i].st = "free"
      <4>1. db'.body = typed
        BY <1>14, <3>1, <3>3, SavingGoesOn DEF OneSave
      <4>2. Rest'
        BY <2>3, <3>3 DEF Rest, Free
      <4> QED BY <2>1, <2>5, <4>1, <4>2 DEF Handed
    <3> QED BY <3>2, <3>3
  <2>6. ~Rest
    BY <1>14, SavingGoesOn DEF Rest, Free
  <2> QED BY <2>1, <2>4, <2>5, <2>6, <1>d DEF Handed
<1>15. ~LateSaveStarts
  BY DEF LateSaveStarts
<1> QED
  BY <1>1, <1>2, <1>3, <1>5, <1>6, <1>7, <1>8, <1>9, <1>10, <1>11, <1>12, <1>13, <1>14, <1>15
     DEF Next, Page, Generation

\* Only a generation that ends with its page gone leaves a save for later, and
\* it notes that; no step that notes nothing takes a noted reason back.
LEMMA QuietStep ==
    ASSUME TypeOK, [Next]_vars, reason' = "none"
    PROVE  reason = "none" /\ (late = None => late' = None)
<1>1. ASSUME NEW data, Sync(data) PROVE reason = "none"
  BY <1>1 DEF Sync, Note
<1>2. CASE Page
  BY <1>2, <1>1 DEF Page, Open, Leave, AskLeave, Stay, TypeNote, TypeTitle, Draw, Debounce, Note, netVars
<1>3. CASE Generation
  BY <1>3 DEF Generation, Generate, TranscribeFails, Transcribed, Finished, GenerateFails, Debounce, Note
<1>4. CASE Read \/ Arrive \/ SaveStarts \/ LateSaveStarts \/ UNCHANGED vars
  BY <1>4, <1>1 DEF Read, Arrive, SaveStarts, LateSaveStarts, vars, netVars, Note
<1>5. ASSUME NEW i \in Slots, Saving(i) PROVE reason = "none" /\ late' = late
  BY <1>5, SavingGoesOn DEF Keeps
<1> QED BY <1>2, <1>3, <1>4, <1>5 DEF Next

\* The invariant is kept by every step.
LEMMA InvStep == IInv /\ [Next]_vars => IInv'
<1> SUFFICES ASSUME IInv, [Next]_vars PROVE IInv'
  OBVIOUS
<1>1. TypeOK /\ TypeOK'
  BY TypeStep DEF IInv
<1>2. ASSUME reason' = "none" PROVE Lossless'
  <2>1. reason = "none" /\ Lossless /\ late' = None
    BY <1>1, <1>2, QuietStep DEF IInv, Lossless
  <2>2. Shown' /\ Fresh' /\ OneSave'
    BY <1>1, <1>2, <2>1, ShownStep, FreshStep, OneSaveStep DEF Lossless
  <2>3. Handed' \/ Unhanded'
    BY <1>1, <1>2, <2>1, HandStep DEF Lossless
  <2> QED BY <2>1, <2>2, <2>3 DEF Lossless
<1> QED BY <1>1, <1>2 DEF IInv

-----------------------------------------------------------------------------
(* The theorems.                                                           *)

THEOREM InvHolds == Spec => []IInv
<1>1. Init => IInv
  BY InvInit
<1>2. IInv /\ [Next]_vars => IInv'
  BY InvStep
<1> QED BY <1>1, <1>2, PTL DEF Spec

\* The state of a page and of its saves always has its type, whatever the
\* bounds: in particular no save is attempted more often than Tries.
THEOREM TypeCorrect == Spec => []TypeOK
<1>1. IInv => TypeOK
  BY DEF IInv
<1> QED BY <1>1, InvHolds, PTL

\* No edit of a page is lost without a reason: at rest the server has the last
\* body the page was given (SavedWhenQuiet).
THEOREM NothingLost == Spec => []SavedWhenQuiet
<1>1. IInv => SavedWhenQuiet
  BY BodiesGrow DEF IInv, Lossless, Handed, Unhanded, Fresh, SavedWhenQuiet, Quiet, Rest, Free
<1> QED BY <1>1, InvHolds, PTL

\* What the editor shows is what the store holds and would be saved next
\* (ShownIsStored).
THEOREM EditorMatchesStore == Spec => []ShownIsStored
<1>1. IInv => ShownIsStored
  BY DEF IInv, Lossless, Shown, ShownIsStored
<1> QED BY <1>1, InvHolds, PTL

=============================================================================
