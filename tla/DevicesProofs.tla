---------------------------- MODULE DevicesProofs ----------------------------
(***************************************************************************)
(* Proofs about Devices, for any set of devices and any bounds.            *)
(***************************************************************************)
EXTENDS Devices, TLAPS

-----------------------------------------------------------------------------
(* Sequences *)

\* What is removed from a sequence is one of its elements.
LEMMA Removal ==
    ASSUME NEW S, NEW s \in Seq(S), NEW i \in DOMAIN s
    PROVE  /\ RemoveAt(s, i) \in Seq(S)
           /\ Len(RemoveAt(s, i)) = Len(s) - 1
           /\ \A k \in 1 .. Len(s) - 1 : RemoveAt(s, i)[k] = IF k < i THEN s[k] ELSE s[k + 1]
<1>1. i \in 1 .. Len(s) /\ Len(s) \in Nat
  OBVIOUS
<1> DEFINE before == SubSeq(s, 1, i - 1)
           after == SubSeq(s, i + 1, Len(s))
<1>2. /\ before \in Seq(S) /\ Len(before) = i - 1
      /\ \A k \in 1 .. i - 1 : before[k] = s[k]
  BY <1>1
<1>3. /\ after \in Seq(S) /\ Len(after) = Len(s) - i
      /\ \A k \in 1 .. Len(s) - i : after[k] = s[i + k]
  BY <1>1
<1>4. RemoveAt(s, i) = before \o after
  BY DEF RemoveAt
<1> HIDE DEF before, after
<1>5. RemoveAt(s, i) \in Seq(S) /\ Len(RemoveAt(s, i)) = Len(s) - 1
  BY <1>1, <1>2, <1>3, <1>4
<1>6. ASSUME NEW k \in 1 .. Len(s) - 1
      PROVE  RemoveAt(s, i)[k] = IF k < i THEN s[k] ELSE s[k + 1]
  <2>1. CASE k < i
    BY <1>1, <1>2, <1>3, <1>4, <2>1
  <2>2. CASE k >= i
    <3>1. k - (i - 1) \in 1 .. Len(s) - i /\ i + (k - (i - 1)) = k + 1
      BY <1>1, <2>2
    <3>2. (before \o after)[k] = after[k - (i - 1)]
      BY <1>1, <1>2, <1>3, <2>2
    <3>3. after[k - (i - 1)] = s[k + 1]
      BY <1>3, <3>1
    <3> QED BY <1>1, <1>4, <2>2, <3>2, <3>3
  <2> QED BY <1>1, <2>1, <2>2
<1> QED BY <1>5, <1>6

\* The elements left are those at another place.
LEMMA Left ==
    ASSUME NEW S, NEW s \in Seq(S), NEW i \in DOMAIN s
    PROVE  /\ \A k \in DOMAIN RemoveAt(s, i) : \E j \in DOMAIN s : j # i /\ RemoveAt(s, i)[k] = s[j]
           /\ \A j \in DOMAIN s : j # i => \E k \in DOMAIN RemoveAt(s, i) : RemoveAt(s, i)[k] = s[j]
<1> DEFINE t == RemoveAt(s, i)
<1>1. /\ t \in Seq(S) /\ Len(t) = Len(s) - 1 /\ Len(s) \in Nat
      /\ \A k \in 1 .. Len(s) - 1 : t[k] = IF k < i THEN s[k] ELSE s[k + 1]
      /\ i \in 1 .. Len(s) /\ DOMAIN s = 1 .. Len(s)
  BY Removal
<1> HIDE DEF t
<1>2. DOMAIN t = 1 .. Len(s) - 1
  BY <1>1
<1>3. ASSUME NEW k \in DOMAIN t PROVE \E j \in DOMAIN s : j # i /\ t[k] = s[j]
  <2>1. CASE k < i
    BY <1>1, <1>2, <2>1
  <2>2. CASE ~(k < i)
    <3>1. k + 1 \in DOMAIN s /\ k + 1 # i /\ t[k] = s[k + 1]
      BY <1>1, <1>2, <2>2
    <3> QED BY <3>1
  <2> QED BY <2>1, <2>2
<1>4. ASSUME NEW j \in DOMAIN s, j # i PROVE \E k \in DOMAIN t : t[k] = s[j]
  <2>1. CASE j < i
    <3>1. j \in DOMAIN t /\ t[j] = s[j]
      BY <1>1, <1>2, <2>1
    <3> QED BY <3>1
  <2>2. CASE j > i
    <3>1. j - 1 \in DOMAIN t /\ t[j - 1] = s[j]
      BY <1>1, <1>2, <2>2
    <3> QED BY <3>1
  <2> QED BY <1>1, <1>4, <2>1, <2>2
<1> QED BY <1>3, <1>4 DEF t

LEMMA ForemostType ==
    ASSUME NEW S, NEW s \in Seq(S), NEW i \in DOMAIN s
    PROVE  Foremost(s, i) \in Seq(S)
<1>1. RemoveAt(s, i) \in Seq(S)
  BY Removal
<1>2. s[i] \in S
  OBVIOUS
<1>3. <<s[i]>> \in Seq(S)
  BY <1>2
<1> QED BY <1>1, <1>3 DEF Foremost

-----------------------------------------------------------------------------
(* Requests *)

\* A request that another of its component follows, or whose component is gone,
\* is what it was but for that.
Same(a, b) == /\ a.op = b.op /\ a.mac = b.mac /\ a.type = b.type /\ a.id = b.id
              /\ a.on = b.on /\ a.st = b.st

LEMMA AgedIs ==
    ASSUME NEW rs \in Seq(Req), NEW op
    PROVE  /\ Aged(rs, op) \in Seq(Req) /\ Len(Aged(rs, op)) = Len(rs)
           /\ \A i \in 1 .. Len(rs) :
                /\ Same(Aged(rs, op)[i], rs[i])
                /\ Aged(rs, op)[i].of # rs[i].of => Aged(rs, op)[i].of = "older" /\ rs[i].op = op
<1> DEFINE new(i) == IF rs[i].op = op /\ rs[i].of = "latest" THEN [rs[i] EXCEPT !.of = "older"] ELSE rs[i]
<1>1. ASSUME NEW i \in 1 .. Len(rs)
      PROVE  /\ new(i) \in Req /\ Same(new(i), rs[i])
             /\ new(i).of # rs[i].of => new(i).of = "older" /\ rs[i].op = op
  <2>1. rs[i] \in Req
    OBVIOUS
  <2> QED BY <2>1 DEF Req, Same
<1>2. Aged(rs, op) = [i \in 1 .. Len(rs) |-> new(i)]
  BY DEF Aged
<1> HIDE DEF new
<1> QED BY <1>1, <1>2

LEMMA GoneIs ==
    ASSUME NEW rs \in Seq(Req), NEW ops
    PROVE  /\ Gone(rs, ops) \in Seq(Req) /\ Len(Gone(rs, ops)) = Len(rs)
           /\ \A i \in 1 .. Len(rs) :
                /\ Same(Gone(rs, ops)[i], rs[i])
                /\ Gone(rs, ops)[i].of = IF rs[i].op \in ops THEN "gone" ELSE rs[i].of
<1> DEFINE new(i) == IF rs[i].op \in ops THEN [rs[i] EXCEPT !.of = "gone"] ELSE rs[i]
<1>1. ASSUME NEW i \in 1 .. Len(rs)
      PROVE  /\ new(i) \in Req /\ Same(new(i), rs[i])
             /\ new(i).of = IF rs[i].op \in ops THEN "gone" ELSE rs[i].of
  <2>1. rs[i] \in Req
    OBVIOUS
  <2> QED BY <2>1 DEF Req, Same
<1>2. Gone(rs, ops) = [i \in 1 .. Len(rs) |-> new(i)]
  BY DEF Gone
<1> HIDE DEF new
<1> QED BY <1>1, <1>2

LEMMA SentIs ==
    ASSUME NEW rs \in Seq(Req), NEW req \in Req
    PROVE  /\ Sent(rs, req) \in Seq(Req) /\ Len(Sent(rs, req)) = Len(rs) + 1
           /\ Sent(rs, req)[Len(rs) + 1] = req
           /\ \A i \in 1 .. Len(rs) :
                /\ Same(Sent(rs, req)[i], rs[i])
                /\ Sent(rs, req)[i].of # rs[i].of
                   => Sent(rs, req)[i].of = "older" /\ rs[i].op = req.op
<1> DEFINE aged == Aged(rs, req.op)
<1>1. /\ aged \in Seq(Req) /\ Len(aged) = Len(rs)
      /\ \A i \in 1 .. Len(rs) :
            /\ Same(aged[i], rs[i])
            /\ aged[i].of # rs[i].of => aged[i].of = "older" /\ rs[i].op = req.op
  BY AgedIs
<1>2. Sent(rs, req) = Append(aged, req)
  BY DEF Sent
<1> HIDE DEF aged
<1>3. \A i \in 1 .. Len(rs) : Sent(rs, req)[i] = aged[i]
  BY <1>1, <1>2
<1> QED BY <1>1, <1>2, <1>3

LEMMA RequestType == \A op \in Ops : Request(op) \in Req
BY DEF Request, Req, Types

\* A request goes on.
LEMMA ToIs ==
    ASSUME reqs \in Seq(Req), NEW i \in DOMAIN reqs, NEW st \in {"sent", "half", "done", "error"}, To(i, st)
    PROVE  /\ reqs' \in Seq(Req) /\ Len(reqs') = Len(reqs)
           /\ \A j \in 1 .. Len(reqs) : j # i => reqs'[j] = reqs[j]
           /\ reqs'[i] = [reqs[i] EXCEPT !.st = st]
<1> DEFINE new == [reqs[i] EXCEPT !.st = st]
<1>0. reqs[i] \in Req
  OBVIOUS
<1>1. new \in Req
  BY <1>0 DEF Req
<1>2. reqs' = [reqs EXCEPT ![i] = new]
  BY DEF To
<1> HIDE DEF new
<1>3. reqs' \in Seq(Req) /\ Len(reqs') = Len(reqs)
  BY <1>1, <1>2
<1> QED BY <1>2, <1>3 DEF new

-----------------------------------------------------------------------------
(* The dialog *)

Dlg == [open : BOOLEAN, sel : Macs \cup {None}, scanning : BOOLEAN, found : BOOLEAN,
        intervals : SUBSET Timers, timeouts : SUBSET Timers,
        ref : Timers \cup {0}, polling : BOOLEAN]

\* The timers are those of the scan, which only a dialog without a choice has.
Timed(d) == /\ d \in Dlg
            /\ d.intervals = d.timeouts
            /\ d.intervals = IF d.scanning THEN {d.ref} ELSE {}
            /\ d.scanning => d.open /\ d.sel = None
Quiet(d) == Timed(d) /\ ~d.scanning

LEMMA CleanedIs ==
    ASSUME NEW d, Timed(d)
    PROVE  /\ Cleaned(d) \in Dlg /\ Cleaned(d).intervals = {} /\ Cleaned(d).timeouts = {}
           /\ Cleaned(d).open = d.open /\ Cleaned(d).sel = d.sel
           /\ Cleaned(d).scanning = d.scanning
BY DEF Cleaned, Timed, Dlg

LEMMA StopScanIs ==
    ASSUME NEW d, Timed(d)
    PROVE  Quiet(StopScan(d)) /\ StopScan(d).open = d.open /\ StopScan(d).sel = d.sel
<1>1. /\ Cleaned(d) \in Dlg /\ Cleaned(d).intervals = {} /\ Cleaned(d).timeouts = {}
      /\ Cleaned(d).open = d.open /\ Cleaned(d).sel = d.sel
  BY CleanedIs
<1> QED BY <1>1 DEF StopScan, Quiet, Timed, Dlg

LEMMA StartScanIs ==
    ASSUME NEW d \in Dlg, d.intervals = {}, d.timeouts = {}, d.open, d.sel = None
    PROVE  Timed(StartScan(d))
<1>1. NewTimer(d) \in Timers
  <2>1. 1 \in Timers /\ 1 \notin d.intervals \cup d.timeouts
        /\ \A u \in 1 .. 1 - 1 : u \in d.intervals \cup d.timeouts
    BY DEF Timers
  <2> QED BY <2>1 DEF NewTimer
<1> DEFINE t == NewTimer(d)
<1>2. StartScan(d) = [d EXCEPT !.found = FALSE, !.scanning = TRUE, !.ref = t, !.polling = TRUE,
                               !.intervals = {t}, !.timeouts = {t}]
  BY DEF StartScan, Dlg
<1> HIDE DEF t
<1>3. t \in Timers
  BY <1>1 DEF t
<1>4. StartScan(d) \in Dlg
  <2>1. StartScan(d) = [open |-> d.open, sel |-> d.sel, scanning |-> TRUE, found |-> FALSE,
                        intervals |-> {t}, timeouts |-> {t}, ref |-> t, polling |-> TRUE]
    BY <1>2 DEF Dlg
  <2>2. {t} \in SUBSET Timers /\ d.open \in BOOLEAN /\ d.sel \in Macs \cup {None}
    BY <1>3 DEF Dlg
  <2> QED BY <2>1, <2>2, <1>3 DEF Dlg
<1>5. /\ StartScan(d).scanning = TRUE /\ StartScan(d).ref = t
      /\ StartScan(d).intervals = {t} /\ StartScan(d).timeouts = {t}
      /\ StartScan(d).open = d.open /\ StartScan(d).sel = d.sel
  BY <1>2 DEF Dlg
<1> QED BY <1>4, <1>5 DEF Timed

LEMMA EffectIs == ASSUME NEW d, Quiet(d) PROVE Timed(Effect(d)) /\ (~d.open => Quiet(Effect(d)))
<1>1. /\ Cleaned(d) \in Dlg /\ Cleaned(d).intervals = {} /\ Cleaned(d).timeouts = {}
      /\ Cleaned(d).open = d.open /\ Cleaned(d).sel = d.sel /\ ~Cleaned(d).scanning
  BY CleanedIs DEF Quiet
<1>2. CASE d.open /\ d.sel = None
  BY <1>1, <1>2, StartScanIs DEF Effect
<1>3. CASE ~(d.open /\ d.sel = None)
  BY <1>1, <1>3 DEF Effect, Quiet, Timed
<1> QED BY <1>2, <1>3

\* What the components choose between two effects.
LEMMA ChosenIs ==
    ASSUME NEW d, Quiet(d), NEW b \in BOOLEAN, NEW sel \in Macs \cup {None}
    PROVE  Quiet([d EXCEPT !.open = b]) /\ Quiet([d EXCEPT !.sel = sel])
BY DEF Quiet, Timed, Dlg

LEMMA ResetIs == ASSUME NEW d, Timed(d) PROVE Quiet(ResetAndClose(d))
<1> DEFINE r == [StopScan(d) EXCEPT !.sel = None, !.found = FALSE, !.open = FALSE]
<1>1. Quiet(StopScan(d))
  BY StopScanIs
<1>2. Quiet(r) /\ ~r.open
  BY <1>1 DEF Quiet, Timed, Dlg
<1>3. ResetAndClose(d) = Effect(r)
  BY DEF ResetAndClose
<1> HIDE DEF r
<1> QED BY <1>2, <1>3, EffectIs

LEMMA UnmountedIs == ASSUME NEW d, Timed(d) PROVE Quiet(Unmounted(d))
<1>1. Cleaned(d).intervals = {} /\ Cleaned(d).timeouts = {}
  BY CleanedIs
<1> QED BY <1>1 DEF Unmounted, NoDialog, Quiet, Timed, Dlg

DialogInv == Timed(dlg) /\ (dlg.scanning => page = "settings")

LEMMA DialogInit == Init => DialogInv
BY DEF Init, DialogInv, NoDialog, Timed, Dlg

LEMMA DialogStep == DialogInv /\ page \in Pages /\ [Next]_vars => DialogInv'
<1> SUFFICES ASSUME DialogInv, page \in Pages, [Next]_vars PROVE DialogInv'
  OBVIOUS
<1> USE DEF DialogInv
<1>1. ASSUME UNCHANGED <<dlg, page>> PROVE DialogInv'
  BY <1>1 DEF Timed
<1>2. ASSUME UNCHANGED page, page = "settings", Timed(dlg') PROVE DialogInv'
  BY <1>2 DEF Timed
<1>3. ASSUME UNCHANGED page, Quiet(dlg') PROVE DialogInv'
  BY <1>3 DEF Quiet, Timed
<1>4. ASSUME NEW p \in Pages, NEW elapsed, Go(p, elapsed) PROVE DialogInv'
  <2>1. page' = p /\ p # page /\ dlg' = IF page = "settings" /\ p # page THEN Unmounted(dlg) ELSE dlg
    BY <1>4 DEF Go, Show
  <2>2. CASE page = "settings"
    <3>1. Quiet(dlg')
      BY <2>1, <2>2, UnmountedIs
    <3> QED BY <3>1 DEF Quiet, Timed
  <2>3. CASE page # "settings"
    BY <2>1, <2>3 DEF Timed
  <2> QED BY <2>2, <2>3
<1>5. CASE StatusArrives
  <2>1. UNCHANGED <<dlg, page>>
    BY <1>5 DEF StatusArrives, Show
  <2> QED BY <2>1, <1>1
<1>6. CASE OpenDialog
  <2>1. Quiet(dlg) /\ UNCHANGED page /\ page = "settings"
    BY <1>6 DEF OpenDialog, InDialog, Quiet, Timed
  <2>2. dlg' = Effect([dlg EXCEPT !.open = TRUE]) /\ Quiet([dlg EXCEPT !.open = TRUE])
    <3>1. dlg \in Dlg
      BY DEF Timed
    <3> QED BY <1>6, <2>1, ChosenIs DEF OpenDialog
  <2> QED BY <2>1, <2>2, EffectIs, <1>2
<1>7. CASE ClickStopScan
  <2>1. dlg' = StopScan(dlg) /\ UNCHANGED page
    BY <1>7 DEF ClickStopScan, Choosing, InDialog
  <2> QED BY <2>1, StopScanIs, <1>3
<1>8. CASE ScanAgain
  <2>1. /\ dlg' = StartScan(dlg) /\ UNCHANGED page
        /\ page = "settings" /\ dlg.open /\ dlg.sel = None /\ ~dlg.scanning
    BY <1>8 DEF ScanAgain, Choosing, InDialog
  <2>2. dlg \in Dlg /\ dlg.intervals = {} /\ dlg.timeouts = {}
    BY <2>1 DEF Timed
  <2> QED BY <2>1, <2>2, StartScanIs, <1>2
<1>9. ASSUME NEW m \in Macs, HandleSelectDevice(m) PROVE DialogInv'
  <2>1. dlg' = Effect([StopScan(dlg) EXCEPT !.sel = m]) /\ UNCHANGED page /\ page = "settings"
    BY <1>9 DEF HandleSelectDevice, Choosing, InDialog
  <2>2. Quiet([StopScan(dlg) EXCEPT !.sel = m])
    BY StopScanIs, ChosenIs
  <2> QED BY <2>1, <2>2, EffectIs, <1>2
<1>10. CASE Back
  <2>1. /\ dlg' = Effect([dlg EXCEPT !.sel = None]) /\ UNCHANGED page /\ page = "settings"
        /\ dlg.sel # None
    BY <1>10 DEF Back, Configuring, InDialog
  <2>2. Quiet(dlg)
    BY <2>1 DEF Quiet, Timed
  <2>3. Quiet([dlg EXCEPT !.sel = None])
    BY <2>2, ChosenIs
  <2> QED BY <2>1, <2>3, EffectIs, <1>2
<1>11. CASE CloseDialog \/ HandleSave
  <2>1. dlg' = ResetAndClose(dlg) /\ UNCHANGED page
    BY <1>11 DEF CloseDialog, HandleSave, InDialog, OnSettings
  <2> QED BY <2>1, ResetIs, <1>3
<1>12. ASSUME NEW t \in Timers, IntervalFires(t) PROVE DialogInv'
  <2>1. UNCHANGED page /\ dlg' = [dlg EXCEPT !.polling = TRUE]
    BY <1>12 DEF IntervalFires, InDialog
  <2> QED BY <2>1 DEF Timed, Dlg
<1>13. ASSUME NEW t \in Timers, TimeoutFires(t) PROVE DialogInv'
  <2> DEFINE d == [dlg EXCEPT !.timeouts = @ \ {t}]
  <2>1. UNCHANGED page /\ dlg' = StopScan(d) /\ t \in dlg.timeouts
    BY <1>13 DEF TimeoutFires, InDialog
  <2>2. t = dlg.ref /\ dlg.timeouts = {t} /\ dlg.intervals = {t}
    BY <2>1 DEF Timed
  <2>3. d \in Dlg /\ d.timeouts = {} /\ d.intervals = {t} /\ d.ref = t
    BY <2>2 DEF Timed, Dlg
  <2> HIDE DEF d
  <2>4. Quiet(StopScan(d))
    BY <2>3 DEF StopScan, Cleaned, Quiet, Timed, Dlg
  <2> QED BY <2>1, <2>4, <1>3
<1>14. CASE PollAnswers
  <2>1. PICK found \in BOOLEAN, more \in BOOLEAN :
            dlg' = [dlg EXCEPT !.polling = more, !.found = @ \/ found]
    BY <1>14 DEF PollAnswers, Scanned
  <2>2. UNCHANGED page
    BY <1>14 DEF PollAnswers, InDialog
  <2> QED BY <2>1, <2>2 DEF Timed, Dlg
<1>15. CASE \/ ClickScan \/ QuickConnect \/ \E m \in Macs : ClickDevice(m)
            \/ \E i \in DOMAIN list.data : ClickReconnect(list.data[i]) \/ ClickRemove(list.data[i])
            \/ ClickSwitch \/ ClickStop \/ Poll \/ ListArrives \/ ScanFinds
            \/ ReadStatus \/ ReadDevices
  BY <1>15, <1>1 DEF ClickScan, QuickConnect, HandleConnect, ClickDevice, ClickReconnect, ClickRemove,
        OnSettings, ClickSwitch, ClickStop, Poll, ListArrives, ScanFinds, ReadStatus, ReadDevices
<1>16. ASSUME NEW i, Answer(i) PROVE DialogInv'
  BY <1>16, <1>1 DEF Answer, ConnectAnswers, SettingsAnswers, SettingsFails, SilentlyAnswers,
        SwitchAnswers, StopAnswers, Closing
<1>17. ASSUME NEW i, Serve(i) PROVE DialogInv'
  BY <1>17, <1>1 DEF Serve, ServeConnect, TouchRow, UpsertRow, ConnectSaved, Unpair, DeleteRow,
        SetDiscoverable, StopRecording, SetAutoRecord, Serving
<1>18. CASE Daemon
  BY <1>18, <1>1 DEF Daemon, BridgeStops, BridgeStarts, HeadphoneLeaves, SourceConnects, SourceLeaves,
        Records, GoesIdle, Runs, Becomes
<1>19. CASE UNCHANGED vars
  BY <1>19, <1>1 DEF vars
<1> QED BY <1>4, <1>5, <1>6, <1>7, <1>8, <1>9, <1>10, <1>11, <1>12, <1>13, <1>14, <1>15, <1>16,
           <1>17, <1>18, <1>19 DEF Next, User, Browser, Server

-----------------------------------------------------------------------------
(* Types *)

Onb == [scanning : BOOLEAN, mac : Macs \cup {None}, found : BOOLEAN]
Bridge == [up : BOOLEAN, head : Macs \cup {None}, src : BOOLEAN, disc : BOOLEAN,
           auto : BOOLEAN, session : BOOLEAN]

\* A request to save a device is about one.
Aimed == \A i \in DOMAIN reqs : reqs[i].op = "save" => reqs[i].mac \in Macs

TInv == TypeOK /\ DialogInv /\ Aimed

LEMMA QueryIs ==
    ASSUME NEW D, NEW q \in Query(D), NEW b \in BOOLEAN
    PROVE  /\ Fetch(q) \in Query(D) /\ Cancel(q) \in Query(D) /\ Stored(q) \in Query(D)
           /\ Invalidate(q, b) \in Query(D) /\ Mounts(q, b) \in Query(D) /\ Refetch(q) \in Query(D)
           /\ q.data \in D /\ q.answer \in D
<1>1. ASSUME NEW p \in Query(D) PROVE Fetch(p) \in Query(D)
  BY DEF Fetch, Query
<1>2. Cancel(q) \in Query(D) /\ Stored(q) \in Query(D)
  BY DEF Cancel, Stored, Query
<1>3. [q EXCEPT !.stale = TRUE] \in Query(D)
  BY DEF Query
<1>4. Invalidate(q, b) \in Query(D) /\ Refetch(q) \in Query(D)
  BY <1>1, <1>3 DEF Invalidate, Refetch
<1>5. Mounts(q, b) \in Query(D)
  BY <1>1 DEF Mounts
<1>6. q.data \in D /\ q.answer \in D
  BY DEF Query
<1> QED BY <1>1, <1>2, <1>4, <1>5, <1>6

LEMMA StatusType == bridge \in Bridge => Status \in Statuses
BY DEF Status, Statuses, Bridge, Unreachable

LEMMA TypeInit == Init => TInv
<1> SUFFICES ASSUME Init PROVE TInv
  OBVIOUS
<1> USE DevicesAssumption
<1>1. bridge \in Bridge
  <2>1. Started \in Bridge
    BY DEF Started, Bridge
  <2>2. [Started EXCEPT !.src = TRUE, !.session = TRUE] \in Bridge
    BY DEF Started, Bridge
  <2> QED BY <2>1, <2>2 DEF Init
<1>2. rows \in Seq(Row)
  <2>1. [id |-> 0, mac |-> Saved, type |-> "headphone"] \in Row
    BY DEF Row, Types
  <2> QED BY <2>1 DEF Init
<1>3. status \in Query(Statuses)
  <2>1. NoQuery(Unknown) \in Query(Statuses)
    BY DEF NoQuery, Unknown, Unreachable, Query, Statuses
  <2>2. [NoQuery(Unknown) EXCEPT !.stale = FALSE] \in Query(Statuses)
    BY <2>1 DEF Query
  <2> QED BY <2>2 DEF Init
<1>4. list \in Query(Seq(Row))
  <2>1. <<>> \in Seq(Row)
    OBVIOUS
  <2>2. NoQuery(<<>>) \in Query(Seq(Row))
    BY <2>1 DEF NoQuery, Query
  <2> QED BY <2>2, QueryIs DEF Init
<1>5. dlg \in Dlg /\ DialogInv
  BY DialogInit DEF DialogInv, Timed
<1>6. reqs \in Seq(Req) /\ Aimed
  BY DEF Init, Aimed
<1>7. onb \in Onb
  BY DEF Init, NoOnboarding, Onb
<1>8. acts \in 0 .. MaxActs
  BY DEF Init
<1> QED BY <1>1, <1>2, <1>3, <1>4, <1>5, <1>6, <1>7, <1>8 DEF Init, TInv, TypeOK, Dlg, Onb, Bridge

\* What a page that is shown does to the requests and to the onboarding.
LEMMA ShowIs ==
    ASSUME TInv, NEW p \in Pages, NEW s \in Statuses, NEW changed, NEW elapsed \in BOOLEAN,
           Show(p, s, changed, elapsed)
    PROVE  /\ reqs' \in Seq(Req) /\ Len(reqs) <= Len(reqs')
           /\ \A i \in 1 .. Len(reqs) :
                /\ Same(reqs'[i], reqs[i])
                /\ reqs[i].op \in {"stop", "autoOff", "autoRecord"} => reqs'[i].of = reqs[i].of
                /\ reqs[i].op = "connect" /\ reqs[i].of # "gone" /\ onb'.mac # None => reqs'[i].of # "gone"
           /\ \A i \in 1 .. Len(reqs') : i > Len(reqs) => reqs'[i].op = "discoverable"
           /\ onb' \in Onb /\ onb'.mac \in {onb.mac, None}
           /\ list' \in Query(Seq(Row))
<1>t. /\ reqs \in Seq(Req) /\ Len(reqs) \in Nat /\ onb \in Onb /\ list \in Query(Seq(Row))
  BY DEF TInv, TypeOK, Onb
<1> DEFINE was == Onboarding
           is == Onboards(p, s)
           left == page = "settings" /\ p # page
           lost == (IF was /\ ~is THEN Owned("audio") ELSE {}) \cup (IF left THEN Owned("settings") ELSE {})
           gone == Gone(reqs, lost)
           runs == is /\ (changed \/ ~was)
           new == [Request("discoverable") EXCEPT !.on = ShouldBeDiscoverable(s)]
<1>1. Discovers(gone, s, runs) /\ onb' = IF was /\ ~is THEN [NoOnboarding EXCEPT !.found = onb.found] ELSE onb
  BY DEF Show
<1>2. /\ gone \in Seq(Req) /\ Len(gone) = Len(reqs)
      /\ \A i \in 1 .. Len(reqs) : /\ Same(gone[i], reqs[i])
                                   /\ gone[i].of = IF reqs[i].op \in lost THEN "gone" ELSE reqs[i].of
  BY <1>t, GoneIs
<1>3. new \in Req /\ new.op = "discoverable"
  <2>1. ShouldBeDiscoverable(s) \in BOOLEAN
    BY DEF ShouldBeDiscoverable, Statuses
  <2> QED BY <2>1 DEF Request, Req, Ops, Types
<1>4. reqs' = gone \/ reqs' = Sent(gone, new)
  BY <1>1 DEF Discovers
<1>5. lost \subseteq {"connect", "reconnect", "save", "remove"}
  BY DEF Owned
<1>6. "connect" \in lost => was /\ ~is
  BY DEF Owned
<1>7. onb' \in Onb /\ onb'.mac \in {onb.mac, None} /\ (was /\ ~is => onb'.mac = None)
  BY <1>1, <1>t DEF Onb, NoOnboarding
<1>8. list' \in Query(Seq(Row))
  BY <1>t, QueryIs DEF Show
<1> HIDE DEF gone, new, lost, was, is
<1>9. CASE reqs' = gone
  BY <1>2, <1>5, <1>6, <1>7, <1>8, <1>9
<1>10. CASE reqs' = Sent(gone, new)
  <2>1. /\ reqs' \in Seq(Req) /\ Len(reqs') = Len(reqs) + 1
        /\ reqs'[Len(reqs) + 1] = new
        /\ \A i \in 1 .. Len(reqs) :
             /\ Same(reqs'[i], gone[i])
             /\ reqs'[i].of # gone[i].of => reqs'[i].of = "older" /\ gone[i].op = new.op
    <3>1. /\ Sent(gone, new) \in Seq(Req) /\ Len(Sent(gone, new)) = Len(gone) + 1
          /\ Sent(gone, new)[Len(gone) + 1] = new
          /\ \A i \in 1 .. Len(gone) :
                /\ Same(Sent(gone, new)[i], gone[i])
                /\ Sent(gone, new)[i].of # gone[i].of
                   => Sent(gone, new)[i].of = "older" /\ gone[i].op = new.op
      BY <1>2, <1>3, SentIs
    <3> QED BY <3>1, <1>2, <1>10
  <2>2. ASSUME NEW i \in 1 .. Len(reqs)
        PROVE  /\ Same(reqs'[i], reqs[i])
               /\ reqs[i].op \in {"stop", "autoOff", "autoRecord"} => reqs'[i].of = reqs[i].of
               /\ reqs[i].op = "connect" /\ reqs[i].of # "gone" /\ onb'.mac # None => reqs'[i].of # "gone"
    BY <2>1, <1>2, <1>3, <1>5, <1>6, <1>7 DEF Same
  <2>3. \A i \in 1 .. Len(reqs') : i > Len(reqs) => i = Len(reqs) + 1
    BY <2>1, <1>t
  <2> QED BY <2>1, <2>2, <2>3, <1>t, <1>3, <1>7, <1>8
<1> QED BY <1>4, <1>9, <1>10

\* A request is sent.
LEMMA MutateIs ==
    ASSUME TInv, NEW req \in Req, Mutate(req), req.op = "save" => req.mac \in Macs
    PROVE  reqs' \in Seq(Req) /\ Aimed'
<1>1. reqs \in Seq(Req) /\ Len(reqs) \in Nat /\ reqs' = Sent(reqs, req)
  BY DEF TInv, TypeOK, Mutate
<1>2. /\ reqs' \in Seq(Req) /\ Len(reqs') = Len(reqs) + 1 /\ reqs'[Len(reqs) + 1] = req
      /\ \A i \in 1 .. Len(reqs) : Same(reqs'[i], reqs[i])
  BY <1>1, SentIs
<1>3. ASSUME NEW i \in DOMAIN reqs', reqs'[i].op = "save" PROVE reqs'[i].mac \in Macs
  <2>1. CASE i = Len(reqs) + 1
    BY <1>2, <1>3, <2>1
  <2>2. CASE i # Len(reqs) + 1
    <3>1. i \in 1 .. Len(reqs)
      BY <1>1, <1>2, <2>2
    <3> QED BY <3>1, <1>1, <1>2, <1>3 DEF Same, TInv, Aimed
  <2> QED BY <2>1, <2>2
<1> QED BY <1>2, <1>3 DEF Aimed

LEMMA ToType ==
    ASSUME TInv, NEW i \in DOMAIN reqs, NEW st \in {"sent", "half", "done", "error"}, To(i, st)
    PROVE  reqs' \in Seq(Req) /\ Aimed'
<1>1. reqs \in Seq(Req) /\ Aimed /\ reqs[i] \in Req
  BY DEF TInv, TypeOK
<1>2. /\ reqs' \in Seq(Req) /\ Len(reqs') = Len(reqs)
      /\ \A j \in 1 .. Len(reqs) : j # i => reqs'[j] = reqs[j]
      /\ reqs'[i] = [reqs[i] EXCEPT !.st = st]
  BY <1>1, ToIs
<1>3. reqs'[i].op = reqs[i].op /\ reqs'[i].mac = reqs[i].mac
  BY <1>1, <1>2 DEF Req
<1>4. ASSUME NEW k \in DOMAIN reqs', reqs'[k].op = "save" PROVE reqs'[k].mac \in Macs
  <2>1. k \in DOMAIN reqs
    BY <1>1, <1>2
  <2>2. reqs'[k].op = reqs[k].op /\ reqs'[k].mac = reqs[k].mac
    <3>1. k \in 1 .. Len(reqs)
      BY <2>1, <1>1
    <3>2. CASE k = i
      BY <3>2, <1>3
    <3>3. CASE k # i
      BY <3>1, <3>3, <1>2
    <3> QED BY <3>2, <3>3
  <2> QED BY <2>1, <2>2, <1>1, <1>4 DEF Aimed
<1> QED BY <1>2, <1>4 DEF Aimed

LEMMA WithoutType ==
    ASSUME TInv, NEW i \in DOMAIN reqs
    PROVE  /\ Without(i) \in Seq(Req)
           /\ reqs' = Without(i) => reqs' \in Seq(Req) /\ Aimed'
<1>1. reqs \in Seq(Req) /\ Aimed
  BY DEF TInv, TypeOK
<1>2. Without(i) \in Seq(Req)
  BY <1>1, Removal DEF Without
<1>3. ASSUME reqs' = Without(i) PROVE Aimed'
  <2>1. \A k \in DOMAIN Without(i) : \E j \in DOMAIN reqs : Without(i)[k] = reqs[j]
    BY <1>1, Left DEF Without
  <2> QED BY <2>1, <1>1, <1>3 DEF Aimed
<1> QED BY <1>2, <1>3

LEMMA TypeServed ==
    ASSUME TInv, DialogInv', NEW i \in DOMAIN reqs, Serve(i)
    PROVE  TInv'
<1>t. /\ bridge \in Bridge /\ rows \in Seq(Row) /\ nextId \in Nat
      /\ status \in Query(Statuses) /\ list \in Query(Seq(Row))
      /\ page \in Pages /\ onb \in Onb
      /\ reqs \in Seq(Req) /\ acts \in 0 .. MaxActs
      /\ asked \in BOOLEAN /\ reason \in {"none", "crossed", "down"}
      /\ reqs[i] \in Req
  BY DEF TInv, TypeOK, Bridge, Onb
<1>d. dlg' \in Dlg
  BY DEF DialogInv, Timed
<1>q. ASSUME bridge' \in Bridge, rows' \in Seq(Row), nextId' \in Nat, reqs' \in Seq(Req), Aimed',
             UNCHANGED <<status, list, page, onb, acts, history>>
      PROVE  TInv'
  BY <1>q, <1>t, <1>d DEF TInv, TypeOK, Bridge, Onb, Dlg, history
<1>b. ASSUME bridge' = bridge \/ \E m \in Macs \cup {None} : bridge' = [bridge EXCEPT !.head = m]
      PROVE  bridge' \in Bridge
  BY <1>b, <1>t DEF Bridge
<1>m. reqs[i].mac \in Macs \cup {None}
  BY <1>t DEF Req
<1>o. /\ OfMac(reqs[i].mac) = {k \in DOMAIN rows : rows[k].mac = reqs[i].mac}
      /\ OfId(reqs[i].id) = {k \in DOMAIN rows : rows[k].id = reqs[i].id}
  BY DEF OfMac, OfId, At
<1>c. ASSUME NEW S \in SUBSET DOMAIN rows, S # {} PROVE (CHOOSE k \in S : TRUE) \in DOMAIN rows
  BY <1>c
<1>1. CASE ServeConnect(i)
  <2>1. reqs' \in Seq(Req) /\ Aimed'
    BY <1>1, ToType DEF ServeConnect
  <2>2. bridge' \in Bridge
    BY <1>1, <1>b, <1>m DEF ServeConnect, Connects
  <2> QED BY <1>1, <2>1, <2>2, <1>q, <1>t DEF ServeConnect, Serving
<1>2. CASE TouchRow(i)
  <2>1. reqs' \in Seq(Req) /\ Aimed' /\ UNCHANGED bridge
    BY <1>2, ToType DEF TouchRow
  <2>2. rows' \in Seq(Row)
    <3>1. CASE OfMac(reqs[i].mac) = {}
      BY <1>2, <3>1, <1>t DEF TouchRow
    <3>2. CASE OfMac(reqs[i].mac) # {}
      <4>1. (CHOOSE k \in OfMac(reqs[i].mac) : TRUE) \in DOMAIN rows
        BY <3>2, <1>c, <1>o
      <4> QED BY <1>2, <3>2, <4>1, <1>t, ForemostType DEF TouchRow
    <3> QED BY <3>1, <3>2
  <2> QED BY <1>2, <2>1, <2>2, <1>q, <1>t DEF TouchRow, Serving
<1>3. CASE UpsertRow(i)
  <2>1. /\ reqs' \in Seq(Req) /\ Aimed'
        /\ UNCHANGED <<bridge, status, list, page, onb, acts, history>>
    BY <1>3, ToType DEF UpsertRow
  <2>2. reqs[i].mac \in Macs /\ reqs[i].type \in Types
    BY <1>3, <1>t DEF UpsertRow, Serves, TInv, Aimed, Req
  <2>3. rows' \in Seq(Row) /\ nextId' \in Nat
    <3>1. CASE OfMac(reqs[i].mac) = {}
      <4>1. [id |-> nextId, mac |-> reqs[i].mac, type |-> reqs[i].type] \in Row
        BY <2>2, <1>t DEF Row
      <4>2. /\ rows' = <<[id |-> nextId, mac |-> reqs[i].mac, type |-> reqs[i].type]>> \o rows
            /\ nextId' = nextId + 1
        BY <1>3, <3>1 DEF UpsertRow
      <4> QED BY <4>1, <4>2, <1>t
    <3>2. CASE OfMac(reqs[i].mac) # {}
      <4> DEFINE k == CHOOSE k \in OfMac(reqs[i].mac) : TRUE
                 new == [rows EXCEPT ![k].type = reqs[i].type]
      <4>1. k \in DOMAIN rows
        BY <3>2, <1>c, <1>o
      <4>2. rows' = Foremost(new, k) /\ nextId' = nextId
        BY <1>3, <3>2 DEF UpsertRow
      <4> HIDE DEF k
      <4>3. new \in Seq(Row) /\ DOMAIN new = DOMAIN rows
        <5>1. rows[k] \in Row
          BY <4>1, <1>t
        <5>2. [rows[k] EXCEPT !.type = reqs[i].type] \in Row
          BY <5>1, <2>2 DEF Row
        <5>3. new = [rows EXCEPT ![k] = [rows[k] EXCEPT !.type = reqs[i].type]]
          OBVIOUS
        <5> HIDE DEF new
        <5> QED BY <5>2, <5>3, <4>1, <1>t
      <4> HIDE DEF new
      <4> QED BY <4>1, <4>2, <4>3, <1>t, ForemostType
    <3> QED BY <3>1, <3>2
  <2> QED BY <2>1, <2>3, <1>q, <1>t
<1>4. CASE ConnectSaved(i)
  <2>1. reqs' \in Seq(Req) /\ Aimed'
    BY <1>4, ToType DEF ConnectSaved
  <2>2. bridge' \in Bridge
    BY <1>4, <1>b, <1>m DEF ConnectSaved, Safely, Connects
  <2> QED BY <1>4, <2>1, <2>2, <1>q, <1>t DEF ConnectSaved, Serving
<1>5. CASE Unpair(i)
  <2>1. reqs' \in Seq(Req) /\ Aimed'
    BY <1>5, ToType DEF Unpair
  <2>2. bridge' \in Bridge
    BY <1>5, <1>b DEF Unpair, Safely
  <2> QED BY <1>5, <2>1, <2>2, <1>q, <1>t DEF Unpair, Serving
<1>6. CASE DeleteRow(i)
  <2>1. reqs' \in Seq(Req) /\ Aimed' /\ UNCHANGED bridge
    BY <1>6, ToType DEF DeleteRow
  <2>2. rows' \in Seq(Row)
    <3>1. CASE OfId(reqs[i].id) = {}
      BY <1>6, <3>1, <1>t DEF DeleteRow
    <3>2. CASE OfId(reqs[i].id) # {}
      <4>1. (CHOOSE k \in OfId(reqs[i].id) : TRUE) \in DOMAIN rows
        BY <3>2, <1>c, <1>o
      <4> QED BY <1>6, <3>2, <4>1, <1>t, Removal DEF DeleteRow
    <3> QED BY <3>1, <3>2
  <2> QED BY <1>6, <2>1, <2>2, <1>q, <1>t DEF DeleteRow, Serving
<1>7. CASE SetDiscoverable(i) \/ StopRecording(i) \/ SetAutoRecord(i)
  <2>1. reqs' \in Seq(Req) /\ Aimed'
    BY <1>7, ToType DEF SetDiscoverable, StopRecording, SetAutoRecord
  <2>2. bridge' \in Bridge
    <3>1. reqs[i].on \in BOOLEAN
      BY <1>t DEF Req
    <3>2. \/ bridge' = bridge
          \/ bridge' = [bridge EXCEPT !.disc = reqs[i].on]
          \/ bridge' = [bridge EXCEPT !.session = FALSE]
          \/ bridge' = [bridge EXCEPT !.auto = reqs[i].on]
      BY <1>7 DEF SetDiscoverable, StopRecording, SetAutoRecord, Safely
    <3> QED BY <3>1, <3>2, <1>t DEF Bridge
  <2>3. UNCHANGED rows /\ Serving
    BY <1>7 DEF SetDiscoverable, StopRecording, SetAutoRecord
  <2> QED BY <2>1, <2>2, <2>3, <1>q, <1>t DEF Serving
<1> QED BY <1>1, <1>2, <1>3, <1>4, <1>5, <1>6, <1>7 DEF Serve

LEMMA TypeStep == TInv /\ [Next]_vars => TInv'
<1> SUFFICES ASSUME TInv, [Next]_vars PROVE TInv'
  OBVIOUS
<1> USE DevicesAssumption
<1>t. /\ bridge \in Bridge /\ rows \in Seq(Row) /\ nextId \in Nat
      /\ status \in Query(Statuses) /\ list \in Query(Seq(Row))
      /\ page \in Pages /\ onb \in Onb
      /\ reqs \in Seq(Req) /\ acts \in 0 .. MaxActs
      /\ asked \in BOOLEAN /\ reason \in {"none", "crossed", "down"}
  BY DEF TInv, TypeOK, Bridge, Onb
<1>a. Aimed
  BY DEF TInv
<1>d. DialogInv' /\ dlg' \in Dlg
  BY <1>t, DialogStep DEF TInv, DialogInv, Timed
<1>q. ASSUME bridge' \in Bridge, rows' \in Seq(Row), nextId' \in Nat,
             status' \in Query(Statuses), list' \in Query(Seq(Row)),
             page' \in Pages, onb' \in Onb, reqs' \in Seq(Req), Aimed', acts' \in 0 .. MaxActs,
             asked' \in BOOLEAN, reason' \in {"none", "crossed", "down"}
      PROVE  TInv'
  BY <1>q, <1>d DEF TInv, TypeOK, Bridge, Onb, Dlg
<1>r. ASSUME UNCHANGED reqs PROVE reqs' \in Seq(Req) /\ Aimed'
  BY <1>r, <1>t, <1>a DEF Aimed
<1>acts. Acts => acts' \in 0 .. MaxActs
  BY <1>t DEF Acts
<1>s. ASSUME NEW p \in Pages, NEW s \in Statuses, NEW changed, NEW elapsed \in BOOLEAN,
             Show(p, s, changed, elapsed)
      PROVE  reqs' \in Seq(Req) /\ Aimed' /\ onb' \in Onb /\ list' \in Query(Seq(Row))
  <2>1. /\ reqs' \in Seq(Req) /\ Len(reqs) <= Len(reqs') /\ onb' \in Onb /\ list' \in Query(Seq(Row))
        /\ \A i \in 1 .. Len(reqs) : Same(reqs'[i], reqs[i])
        /\ \A i \in 1 .. Len(reqs') : i > Len(reqs) => reqs'[i].op = "discoverable"
    BY <1>s, ShowIs
  <2>2. ASSUME NEW i \in DOMAIN reqs', reqs'[i].op = "save" PROVE reqs'[i].mac \in Macs
    <3>1. i \in 1 .. Len(reqs)
      BY <2>1, <2>2, <1>t
    <3>2. i \in DOMAIN reqs /\ reqs[i].op = "save" /\ reqs'[i].mac = reqs[i].mac
      BY <3>1, <2>1, <2>2, <1>t DEF Same
    <3> QED BY <3>2, <1>a DEF Aimed
  <2> QED BY <2>1, <2>2 DEF Aimed
<1>1. CASE UNCHANGED vars
  BY <1>1, <1>t, <1>r, <1>q DEF vars, server, history
<1>2. ASSUME NEW p \in Pages, NEW elapsed \in BOOLEAN, Go(p, elapsed) PROVE TInv'
  <2>1. status.data \in Statuses
    BY <1>t, QueryIs
  <2>2. reqs' \in Seq(Req) /\ Aimed' /\ onb' \in Onb /\ list' \in Query(Seq(Row))
    BY <1>2, <2>1, <1>s DEF Go
  <2> QED BY <1>2, <2>2, <1>t, <1>q DEF Go, server, history
<1>3. CASE StatusArrives
  <2>1. status.answer \in Statuses /\ status' \in Query(Statuses)
    BY <1>3, <1>t, QueryIs DEF StatusArrives
  <2>2. reqs' \in Seq(Req) /\ Aimed' /\ onb' \in Onb /\ list' \in Query(Seq(Row))
    BY <1>3, <2>1, <1>t, <1>s DEF StatusArrives
  <2> QED BY <1>3, <2>1, <2>2, <1>t, <1>q DEF StatusArrives, server, history
<1>4. CASE Poll \/ ReadStatus
  <2>1. status' \in Query(Statuses)
    <3>1. CASE Poll
      BY <3>1, <1>t, QueryIs DEF Poll
    <3>2. CASE ReadStatus
      <4>1. Status \in Statuses /\ status' = [status EXCEPT !.st = "read", !.answer = Status]
        BY <3>2, <1>t, StatusType DEF ReadStatus
      <4> QED BY <4>1, <1>t DEF Query
    <3> QED BY <1>4, <3>1, <3>2
  <2> QED BY <1>4, <2>1, <1>t, <1>r, <1>q DEF Poll, ReadStatus, server, history
<1>5. CASE ReadDevices \/ ListArrives
  <2>1. list' \in Query(Seq(Row))
    <3>1. CASE ListArrives
      BY <3>1, <1>t, QueryIs DEF ListArrives
    <3>2. CASE ReadDevices
      <4>1. list' = [list EXCEPT !.st = "read", !.answer = rows]
        BY <3>2 DEF ReadDevices
      <4> QED BY <4>1, <1>t DEF Query
    <3> QED BY <1>5, <3>1, <3>2
  <2> QED BY <1>5, <2>1, <1>t, <1>r, <1>q DEF ReadDevices, ListArrives, server, history
<1>6. CASE ClickScan \/ ScanFinds
  <2>1. onb' \in Onb
    <3>1. \/ onb' = [onb EXCEPT !.scanning = TRUE]
          \/ \E found \in BOOLEAN : onb' = [onb EXCEPT !.found = found]
      BY <1>6 DEF ClickScan, ScanFinds, Scanned
    <3> QED BY <3>1, <1>t DEF Onb
  <2> QED BY <1>6, <2>1, <1>t, <1>r, <1>q DEF ClickScan, ScanFinds, server, history
<1>7. ASSUME NEW m \in Macs, HandleConnect(m) PROVE TInv'
  <2>1. [Request("connect") EXCEPT !.mac = m] \in Req
        /\ [Request("connect") EXCEPT !.mac = m].op # "save"
    BY DEF Request, Req, Ops, Types
  <2>2. reqs' \in Seq(Req) /\ Aimed'
    BY <1>7, <2>1, MutateIs DEF HandleConnect
  <2>3. onb' \in Onb
    BY <1>7, <1>t DEF HandleConnect, Onb
  <2> QED BY <1>7, <2>2, <2>3, <1>t, <1>acts, <1>q DEF HandleConnect, server, history
<1>8. CASE QuickConnect \/ \E m \in Macs : ClickDevice(m)
  <2>1. ASSUME NEW k \in Headphones PROVE list.data[k].mac \in Macs
    <3>1. list.data \in Seq(Row)
      BY <1>t, QueryIs
    <3>2. list.data[k] \in Row
      BY <3>1 DEF Headphones
    <3> QED BY <3>2 DEF Row
  <2> QED BY <1>8, <2>1, <1>7 DEF QuickConnect, ClickDevice
<1>9. ASSUME NEW req \in Req, OnSettings(req), req.op = "save" => req.mac \in Macs PROVE TInv'
  <2>1. reqs' \in Seq(Req) /\ Aimed'
    BY <1>9, MutateIs DEF OnSettings
  <2> QED BY <1>9, <2>1, <1>t, <1>acts, <1>q DEF OnSettings, server, history
<1>10. ASSUME NEW i \in DOMAIN list.data, ClickReconnect(list.data[i]) \/ ClickRemove(list.data[i])
       PROVE  TInv'
  <2>1. list.data[i] \in Row
    <3>1. list.data \in Seq(Row)
      BY <1>t, QueryIs
    <3> QED BY <3>1
  <2>2. /\ [Request("reconnect") EXCEPT !.mac = list.data[i].mac] \in Req
        /\ [Request("reconnect") EXCEPT !.mac = list.data[i].mac].op # "save"
        /\ [Request("remove") EXCEPT !.id = list.data[i].id] \in Req
        /\ [Request("remove") EXCEPT !.id = list.data[i].id].op # "save"
    BY <2>1 DEF Request, Req, Ops, Types, Row
  <2> QED BY <1>10, <2>2, <1>9 DEF ClickReconnect, ClickRemove
<1>11. CASE HandleSave
  <2>1. PICK t \in Types : OnSettings([Request("save") EXCEPT !.mac = dlg.sel, !.type = t])
    BY <1>11 DEF HandleSave
  <2>2. dlg.sel \in Macs
    BY <1>11 DEF HandleSave, TInv, DialogInv, Timed, Dlg
  <2>3. [Request("save") EXCEPT !.mac = dlg.sel, !.type = t] \in Req
        /\ [Request("save") EXCEPT !.mac = dlg.sel, !.type = t].mac \in Macs
    BY <2>2 DEF Request, Req, Ops
  <2> QED BY <2>1, <2>3, <1>9
<1>12. CASE \/ OpenDialog \/ ClickStopScan \/ ScanAgain \/ \E m \in Macs : HandleSelectDevice(m)
            \/ Back \/ CloseDialog \/ PollAnswers
            \/ \E t \in Timers : IntervalFires(t) \/ TimeoutFires(t)
  <2>1. InDialog
    BY <1>12 DEF OpenDialog, ClickStopScan, ScanAgain, HandleSelectDevice, Choosing, Configuring,
                 Back, CloseDialog, PollAnswers, IntervalFires, TimeoutFires
  <2> QED BY <2>1, <1>t, <1>r, <1>q DEF InDialog, server, history
<1>13. CASE ClickSwitch \/ ClickStop
  <2>1. PICK req \in Req : Mutate(req) /\ req.op # "save"
    <3>1. status.data.auto \in BOOLEAN
      <4>1. status.data \in Statuses
        BY <1>t, QueryIs
      <4> QED BY <4>1 DEF Statuses
    <3>2. Request("stop") \in Req /\ Request("stop").op # "save"
      BY DEF Request, Req, Ops, Types
    <3>3. [Request("autoRecord") EXCEPT !.on = ~status.data.auto] \in Req
          /\ [Request("autoRecord") EXCEPT !.on = ~status.data.auto].op # "save"
      BY <3>1 DEF Request, Req, Ops, Types
    <3> QED BY <1>13, <3>2, <3>3 DEF ClickSwitch, ClickStop
  <2>2. reqs' \in Seq(Req) /\ Aimed'
    BY <2>1, MutateIs
  <2>3. asked' \in BOOLEAN /\ reason' \in {"none", "crossed", "down"} /\ acts' \in 0 .. MaxActs
    <3>1. status.data.auto \in BOOLEAN
      <4>1. status.data \in Statuses
        BY <1>t, QueryIs
      <4> QED BY <4>1 DEF Statuses
    <3> QED BY <1>13, <3>1, <1>t, <1>acts DEF ClickSwitch, ClickStop, Note
  <2> QED BY <1>13, <2>2, <2>3, <1>t, <1>q DEF ClickSwitch, ClickStop, server
<1>14. ASSUME NEW i \in DOMAIN reqs, Answer(i) PROVE TInv'
  <2>1. reqs' \in Seq(Req) /\ Aimed'
    <3>1. CASE StopAnswers(i)
      <4>1. /\ Without(i) \in Seq(Req)
            /\ \A k \in DOMAIN Without(i) : \E j \in DOMAIN reqs : Without(i)[k] = reqs[j]
        BY <1>t, Left, Removal DEF Without
      <4>2. reqs' = Sent(Without(i), Request("autoOff")) /\ Request("autoOff") \in Req
            /\ Request("autoOff").op = "autoOff"
        BY <3>1 DEF StopAnswers, Stopped, Request, Req, Ops, Types
      <4> DEFINE rest == Without(i)
      <4>3. /\ reqs' \in Seq(Req) /\ Len(reqs') = Len(rest) + 1
            /\ reqs'[Len(rest) + 1] = Request("autoOff")
            /\ \A k \in 1 .. Len(rest) : Same(reqs'[k], rest[k])
        <5>1. /\ Sent(rest, Request("autoOff")) \in Seq(Req)
              /\ Len(Sent(rest, Request("autoOff"))) = Len(rest) + 1
              /\ Sent(rest, Request("autoOff"))[Len(rest) + 1] = Request("autoOff")
              /\ \A k \in 1 .. Len(rest) : Same(Sent(rest, Request("autoOff"))[k], rest[k])
          BY <4>1, <4>2, SentIs
        <5> QED BY <5>1, <4>2
      <4> HIDE DEF rest
      <4>4. rest \in Seq(Req) /\ \A k \in DOMAIN rest : \E j \in DOMAIN reqs : rest[k] = reqs[j]
        BY <4>1 DEF rest
      <4>5. ASSUME NEW k \in DOMAIN reqs', reqs'[k].op = "save" PROVE reqs'[k].mac \in Macs
        <5>1. k \in 1 .. Len(rest)
          BY <4>2, <4>3, <4>4, <4>5
        <5>2. rest[k].op = "save" /\ reqs'[k].mac = rest[k].mac
          BY <5>1, <4>3, <4>5 DEF Same
        <5> QED BY <5>1, <5>2, <4>4, <1>a DEF Aimed
      <4> QED BY <4>3, <4>5 DEF Aimed
    <3>2. CASE ~StopAnswers(i)
      <4>1. reqs' = Without(i)
        BY <1>14, <3>2 DEF Answer, ConnectAnswers, SettingsAnswers, SettingsFails, SilentlyAnswers,
                           SwitchAnswers
      <4> QED BY <4>1, WithoutType
    <3> QED BY <3>1, <3>2
  <2>2. status' \in Query(Statuses) /\ list' \in Query(Seq(Row))
    <3>1. /\ status' = status \/ status' = Refetch(status)
          /\ list' = list \/ list' = Invalidate(list, ListObserved)
      BY <1>14 DEF Answer, ConnectAnswers, SettingsAnswers, SettingsFails, SilentlyAnswers,
                   SwitchAnswers, StopAnswers
    <3>2. ListObserved \in BOOLEAN
      BY DEF ListObserved, Onboarding, Onboards
    <3> QED BY <3>1, <3>2, <1>t, QueryIs
  <2>3. onb' \in Onb
    <3>1. onb' = onb \/ onb' = [onb EXCEPT !.mac = Connected(i)]
      BY <1>14 DEF Answer, ConnectAnswers, SettingsAnswers, SettingsFails, SilentlyAnswers,
                   SwitchAnswers, StopAnswers
    <3>2. Connected(i) \in Macs \cup {None}
      BY <1>t DEF Connected, Onb
    <3> QED BY <3>1, <3>2, <1>t DEF Onb
  <2>4. Closing
    BY <1>14 DEF Answer, ConnectAnswers, SettingsAnswers, SettingsFails, SilentlyAnswers,
                 SwitchAnswers, StopAnswers
  <2> QED BY <2>1, <2>2, <2>3, <2>4, <1>t, <1>q DEF Closing, server, history
<1>15. ASSUME NEW i \in DOMAIN reqs, Serve(i) PROVE TInv'
  BY <1>15, <1>d, TypeServed
<1>16. CASE Daemon
  <2>1. bridge' \in Bridge
    <3>1. \/ bridge' \in {Started, [Started EXCEPT !.up = FALSE]}
          \/ bridge' = [bridge EXCEPT !.head = None]
          \/ \E b \in BOOLEAN : \/ bridge' = [bridge EXCEPT !.src = b]
                                \/ bridge' = [bridge EXCEPT !.session = b]
      BY <1>16 DEF Daemon, BridgeStops, BridgeStarts, HeadphoneLeaves, SourceConnects, SourceLeaves,
                   Records, GoesIdle, Runs, Becomes
    <3>2. Started \in Bridge /\ [Started EXCEPT !.up = FALSE] \in Bridge
      BY DEF Started, Bridge
    <3> QED BY <3>1, <3>2, <1>t DEF Bridge
  <2>2. acts' \in 0 .. MaxActs /\ reason' \in {"none", "crossed", "down"}
    BY <1>16, <1>t, <1>acts DEF Daemon, BridgeStops, BridgeStarts, HeadphoneLeaves, SourceConnects,
                   SourceLeaves, Records, GoesIdle, Runs, Note
  <2>3. UNCHANGED <<rows, nextId, status, list, page, onb, dlg, reqs, asked>>
    BY <1>16 DEF Daemon, BridgeStops, BridgeStarts, HeadphoneLeaves, SourceConnects, SourceLeaves,
                   Records, GoesIdle, Runs, Becomes
  <2> QED BY <2>1, <2>2, <2>3, <1>t, <1>r, <1>q
<1> QED BY <1>1, <1>2, <1>3, <1>4, <1>5, <1>6, <1>8, <1>10, <1>11, <1>12, <1>13, <1>14, <1>15, <1>16
        DEF Next, User, Browser, Server

LEMMA TypeHolds == Spec => []TInv
BY TypeInit, TypeStep, PTL DEF Spec

\* Every variable keeps its type, timers and requests included.
THEOREM TypeCorrect == Spec => []TypeOK
<1>1. TInv => TypeOK
  BY DEF TInv
<1> QED BY TypeHolds, <1>1, PTL

\* One scanner, whatever ends it, for any devices and any number of requests.
THEOREM OneScannerHolds == Spec => []OneScanner
<1>1. TInv => OneScanner
  BY DEF TInv, DialogInv, Timed, OneScanner
<1> QED BY TypeHolds, <1>1, PTL

-----------------------------------------------------------------------------
(* The spinner *)

LEMMA SpinnerStep ==
    TInv /\ TInv' /\ SpinnerHasRequest /\ [Next]_vars => SpinnerHasRequest'
<1> SUFFICES ASSUME TInv, TInv', SpinnerHasRequest, [Next]_vars, onb'.mac # None
             PROVE  \E k \in DOMAIN reqs' : /\ reqs'[k].op = "connect" /\ reqs'[k].mac = onb'.mac
                                            /\ reqs'[k].of # "gone"
  BY DEF SpinnerHasRequest
<1> DEFINE Has(rs, m) == \E k \in DOMAIN rs : /\ rs[k].op = "connect" /\ rs[k].mac = m
                                              /\ rs[k].of # "gone"
<1>t. /\ reqs \in Seq(Req) /\ Len(reqs) \in Nat /\ DOMAIN reqs = 1 .. Len(reqs) /\ onb \in Onb
      /\ reqs' \in Seq(Req) /\ Len(reqs') \in Nat /\ DOMAIN reqs' = 1 .. Len(reqs')
  BY DEF TInv, TypeOK, Onb
<1>h. onb.mac # None => Has(reqs, onb.mac)
  BY DEF SpinnerHasRequest
<1>q. ASSUME UNCHANGED reqs, onb'.mac = onb.mac PROVE Has(reqs', onb'.mac)
  BY <1>q, <1>h
<1>s. ASSUME NEW p \in Pages, NEW s \in Statuses, NEW changed, NEW elapsed \in BOOLEAN,
             Show(p, s, changed, elapsed)
      PROVE  Has(reqs', onb'.mac)
  <2>1. /\ Len(reqs) <= Len(reqs') /\ onb'.mac \in {onb.mac, None}
        /\ \A i \in 1 .. Len(reqs) :
             /\ Same(reqs'[i], reqs[i])
             /\ reqs[i].op = "connect" /\ reqs[i].of # "gone" /\ onb'.mac # None => reqs'[i].of # "gone"
    BY <1>s, ShowIs
  <2>2. PICK k \in DOMAIN reqs : reqs[k].op = "connect" /\ reqs[k].mac = onb.mac /\ reqs[k].of # "gone"
    BY <2>1, <1>h
  <2>3. k \in DOMAIN reqs' /\ k \in 1 .. Len(reqs)
    BY <2>1, <1>t
  <2>4. reqs'[k].op = "connect" /\ reqs'[k].mac = onb'.mac /\ reqs'[k].of # "gone"
    BY <2>1, <2>2, <2>3 DEF Same
  <2> QED BY <2>3, <2>4
\* Another request is sent: the one the spinner is for may be older now.
<1>m. ASSUME NEW req \in Req, Mutate(req), onb'.mac = onb.mac PROVE Has(reqs', onb'.mac)
  <2>1. /\ Len(reqs') = Len(reqs) + 1
        /\ \A i \in 1 .. Len(reqs) :
             /\ Same(reqs'[i], reqs[i])
             /\ reqs'[i].of # reqs[i].of => reqs'[i].of = "older"
    BY <1>m, <1>t, SentIs DEF Mutate
  <2>2. PICK k \in DOMAIN reqs : reqs[k].op = "connect" /\ reqs[k].mac = onb.mac /\ reqs[k].of # "gone"
    BY <1>m, <1>h
  <2>3. k \in DOMAIN reqs' /\ k \in 1 .. Len(reqs)
    BY <2>1, <1>t
  <2>4. reqs'[k].op = "connect" /\ reqs'[k].mac = onb'.mac /\ reqs'[k].of # "gone"
    BY <1>m, <2>1, <2>2, <2>3 DEF Same
  <2> QED BY <2>3, <2>4
<1>1. CASE UNCHANGED vars
  BY <1>1, <1>q DEF vars
<1>2. ASSUME NEW p \in Pages, NEW elapsed \in BOOLEAN, Go(p, elapsed) PROVE Has(reqs', onb'.mac)
  <2>1. status.data \in Statuses
    BY QueryIs DEF TInv, TypeOK
  <2> QED BY <1>2, <2>1, <1>s DEF Go
<1>3. CASE StatusArrives
  <2>1. status.answer \in Statuses /\ page \in Pages
    BY QueryIs DEF TInv, TypeOK
  <2> QED BY <1>3, <2>1, <1>s DEF StatusArrives
<1>4. CASE Poll \/ ReadStatus \/ ReadDevices \/ ListArrives
  BY <1>4, <1>q DEF Poll, ReadStatus, ReadDevices, ListArrives
<1>5. CASE ClickScan \/ ScanFinds
  <2>1. UNCHANGED reqs /\ onb'.mac = onb.mac
    <3>1. \/ onb' = [onb EXCEPT !.scanning = TRUE]
          \/ \E found \in BOOLEAN : onb' = [onb EXCEPT !.found = found]
      BY <1>5 DEF ClickScan, ScanFinds, Scanned
    <3> QED BY <1>5, <3>1, <1>t DEF Onb, ClickScan, ScanFinds
  <2> QED BY <2>1, <1>q
<1>6. ASSUME NEW m \in Macs, HandleConnect(m) PROVE Has(reqs', onb'.mac)
  <2> DEFINE req == [Request("connect") EXCEPT !.mac = m]
  <2>1. req \in Req /\ req.op = "connect" /\ req.mac = m /\ req.of = "latest"
    BY DEF Request, Req, Ops, Types
  <2>2. Mutate(req) /\ onb'.mac = m
    BY <1>6, <1>t DEF HandleConnect, Onb
  <2> HIDE DEF req
  <2>3. Len(reqs') = Len(reqs) + 1 /\ reqs'[Len(reqs) + 1] = req
    BY <2>1, <2>2, <1>t, SentIs DEF Mutate
  <2>4. Len(reqs) + 1 \in DOMAIN reqs'
    BY <2>3, <1>t
  <2> QED BY <2>1, <2>2, <2>3, <2>4
<1>7. CASE QuickConnect \/ \E m \in Macs : ClickDevice(m)
  <2>1. ASSUME NEW k \in Headphones PROVE list.data[k].mac \in Macs
    <3>1. list.data \in Seq(Row)
      BY QueryIs DEF TInv, TypeOK
    <3>2. list.data[k] \in Row
      BY <3>1 DEF Headphones
    <3> QED BY <3>2 DEF Row
  <2> QED BY <1>7, <2>1, <1>6 DEF QuickConnect, ClickDevice
<1>8. ASSUME NEW req \in Req, OnSettings(req) PROVE Has(reqs', onb'.mac)
  BY <1>8, <1>m DEF OnSettings
<1>9. ASSUME NEW i \in DOMAIN list.data, ClickReconnect(list.data[i]) \/ ClickRemove(list.data[i])
      PROVE  Has(reqs', onb'.mac)
  <2>1. list.data[i] \in Row
    <3>1. list.data \in Seq(Row)
      BY QueryIs DEF TInv, TypeOK
    <3> QED BY <3>1
  <2>2. /\ [Request("reconnect") EXCEPT !.mac = list.data[i].mac] \in Req
        /\ [Request("remove") EXCEPT !.id = list.data[i].id] \in Req
    BY <2>1 DEF Request, Req, Ops, Types, Row
  <2> QED BY <1>9, <2>2, <1>8 DEF ClickReconnect, ClickRemove
<1>10. CASE HandleSave
  <2>1. PICK t \in Types : OnSettings([Request("save") EXCEPT !.mac = dlg.sel, !.type = t])
    BY <1>10 DEF HandleSave
  <2>2. dlg.sel \in Macs \cup {None}
    BY DEF TInv, DialogInv, Timed, Dlg
  <2>3. [Request("save") EXCEPT !.mac = dlg.sel, !.type = t] \in Req
    BY <2>2 DEF Request, Req, Ops
  <2> QED BY <2>1, <2>3, <1>8
<1>11. CASE \/ OpenDialog \/ ClickStopScan \/ ScanAgain \/ \E m \in Macs : HandleSelectDevice(m)
            \/ Back \/ CloseDialog \/ PollAnswers
            \/ \E t \in Timers : IntervalFires(t) \/ TimeoutFires(t)
  <2>1. InDialog
    BY <1>11 DEF OpenDialog, ClickStopScan, ScanAgain, HandleSelectDevice, Choosing, Configuring,
                 Back, CloseDialog, PollAnswers, IntervalFires, TimeoutFires
  <2> QED BY <2>1, <1>q DEF InDialog
<1>12. CASE ClickSwitch \/ ClickStop
  <2>1. PICK req \in Req : Mutate(req)
    <3>1. status.data.auto \in BOOLEAN
      <4>1. status.data \in Statuses
        BY QueryIs DEF TInv, TypeOK
      <4> QED BY <4>1 DEF Statuses
    <3>2. Request("stop") \in Req
      BY DEF Request, Req, Ops, Types
    <3>3. [Request("autoRecord") EXCEPT !.on = ~status.data.auto] \in Req
      BY <3>1 DEF Request, Req, Ops, Types
    <3> QED BY <1>12, <3>2, <3>3 DEF ClickSwitch, ClickStop
  <2> QED BY <1>12, <2>1, <1>m DEF ClickSwitch, ClickStop
<1>13. ASSUME NEW i \in DOMAIN reqs, Answer(i) PROVE Has(reqs', onb'.mac)
  <2> DEFINE rest == Without(i)
  <2>1. /\ rest \in Seq(Req) /\ Len(rest) \in Nat /\ DOMAIN rest = 1 .. Len(rest)
        /\ \A j \in DOMAIN reqs : j # i => \E k \in DOMAIN rest : rest[k] = reqs[j]
    <3>1. rest \in Seq(Req) /\ \A j \in DOMAIN reqs : j # i => \E k \in DOMAIN rest : rest[k] = reqs[j]
      BY <1>t, Left, Removal DEF Without
    <3> HIDE DEF rest
    <3> QED BY <3>1
  <2>2. CASE ConnectAnswers(i)
    <3>1. reqs' = rest /\ onb' = [onb EXCEPT !.mac = Connected(i)]
      BY <2>2 DEF ConnectAnswers
    <3>2. onb'.mac = Connected(i)
      BY <3>1, <1>t DEF Onb
    <3>3. reqs[i].of = "gone" /\ onb'.mac = onb.mac
      BY <3>2 DEF Connected
    <3>4. PICK j \in DOMAIN reqs : reqs[j].op = "connect" /\ reqs[j].mac = onb.mac /\ reqs[j].of # "gone"
      BY <3>3, <1>h
    <3>5. j # i
      BY <3>3, <3>4
    <3> HIDE DEF rest
    <3> QED BY <3>1, <3>3, <3>4, <3>5, <2>1
  <2>3. CASE \/ SettingsAnswers(i) \/ SettingsFails(i) \/ SilentlyAnswers(i)
             \/ SwitchAnswers(i) \/ StopAnswers(i)
    <3>1. reqs[i].op # "connect" /\ UNCHANGED onb
      BY <2>3 DEF SettingsAnswers, SettingsFails, SilentlyAnswers, SwitchAnswers, StopAnswers, Done, Owned
    <3>2. PICK j \in DOMAIN reqs : reqs[j].op = "connect" /\ reqs[j].mac = onb.mac /\ reqs[j].of # "gone"
      BY <3>1, <1>h
    <3>3. PICK k \in DOMAIN rest : rest[k] = reqs[j]
      BY <3>1, <3>2, <2>1
    <3>4. CASE StopAnswers(i)
      <4>1. reqs' = Sent(rest, Request("autoOff")) /\ Request("autoOff") \in Req
        BY <3>4 DEF StopAnswers, Stopped, Request, Req, Ops, Types
      <4> HIDE DEF rest
      <4>2. /\ Len(reqs') = Len(rest) + 1
            /\ \A l \in 1 .. Len(rest) :
                 /\ Same(reqs'[l], rest[l])
                 /\ reqs'[l].of # rest[l].of => reqs'[l].of = "older"
        <5>1. /\ Len(Sent(rest, Request("autoOff"))) = Len(rest) + 1
              /\ \A l \in 1 .. Len(rest) :
                   /\ Same(Sent(rest, Request("autoOff"))[l], rest[l])
                   /\ Sent(rest, Request("autoOff"))[l].of # rest[l].of
                      => Sent(rest, Request("autoOff"))[l].of = "older"
          BY <2>1, <4>1, SentIs
        <5> QED BY <5>1, <4>1
      <4>3. k \in DOMAIN reqs' /\ k \in 1 .. Len(rest)
        BY <2>1, <4>2, <1>t
      <4>4. reqs'[k].op = "connect" /\ reqs'[k].mac = onb'.mac /\ reqs'[k].of # "gone"
        BY <3>1, <3>2, <3>3, <4>2, <4>3 DEF Same
      <4> QED BY <4>3, <4>4
    <3>5. CASE ~StopAnswers(i)
      <4>1. reqs' = rest
        BY <2>3, <3>5 DEF SettingsAnswers, SettingsFails, SilentlyAnswers, SwitchAnswers
      <4> HIDE DEF rest
      <4> QED BY <4>1, <3>1, <3>2, <3>3
    <3> QED BY <3>4, <3>5
  <2> QED BY <1>13, <2>2, <2>3 DEF Answer
<1>14. ASSUME NEW i \in DOMAIN reqs, Serve(i) PROVE Has(reqs', onb'.mac)
  <2>1. PICK st \in {"sent", "half", "done", "error"} : To(i, st)
    BY <1>14 DEF Serve, ServeConnect, TouchRow, UpsertRow, ConnectSaved, Unpair, DeleteRow,
                 SetDiscoverable, StopRecording, SetAutoRecord
  <2>2. UNCHANGED onb
    BY <1>14 DEF Serve, ServeConnect, TouchRow, UpsertRow, ConnectSaved, Unpair, DeleteRow,
                 SetDiscoverable, StopRecording, SetAutoRecord, Serving
  <2>3. /\ Len(reqs') = Len(reqs)
        /\ \A j \in 1 .. Len(reqs) : j # i => reqs'[j] = reqs[j]
        /\ reqs'[i] = [reqs[i] EXCEPT !.st = st]
    BY <2>1, <1>t, ToIs
  <2>4. reqs'[i].op = reqs[i].op /\ reqs'[i].mac = reqs[i].mac /\ reqs'[i].of = reqs[i].of
    <3>1. reqs[i] \in Req
      BY <1>t
    <3> QED BY <2>3, <3>1 DEF Req
  <2>5. PICK k \in DOMAIN reqs : reqs[k].op = "connect" /\ reqs[k].mac = onb.mac /\ reqs[k].of # "gone"
    BY <2>2, <1>h
  <2>6. /\ k \in DOMAIN reqs' /\ reqs'[k].op = reqs[k].op
        /\ reqs'[k].mac = reqs[k].mac /\ reqs'[k].of = reqs[k].of
    <3>1. CASE k = i
      BY <3>1, <2>3, <2>4, <1>t
    <3>2. CASE k # i
      <4>1. k \in 1 .. Len(reqs)
        BY <1>t
      <4> QED BY <4>1, <3>2, <2>3, <1>t
    <3> QED BY <3>1, <3>2
  <2> QED BY <2>2, <2>5, <2>6
<1>15. CASE Daemon
  BY <1>15, <1>q DEF Daemon, BridgeStops, BridgeStarts, HeadphoneLeaves, SourceConnects, SourceLeaves,
                   Records, GoesIdle, Runs, Becomes
<1> QED BY <1>1, <1>2, <1>3, <1>4, <1>5, <1>7, <1>9, <1>10, <1>11, <1>12, <1>13, <1>14, <1>15
        DEF Next, User, Browser, Server

\* A spinner has its request, for any devices and any number of requests that
\* are answered in any order.
THEOREM SpinnerHasRequestHolds == Spec => []SpinnerHasRequest
<1>1. Init => SpinnerHasRequest
  BY DEF Init, NoOnboarding, SpinnerHasRequest
<1>2. TInv /\ TInv' /\ SpinnerHasRequest /\ [Next]_vars => SpinnerHasRequest'
  BY SpinnerStep
<1> QED BY <1>1, <1>2, TypeHolds, PTL DEF Spec

-----------------------------------------------------------------------------
(* The switch *)

\* What is on its way agrees with what the user asked last, or has been done.
Agreeing(r, want) ==
    /\ r.op \in {"stop", "autoOff"} => ~want /\ ~r.on
    /\ r.op = "autoRecord" => r.on = want /\ r.of = "latest"
\* The request has still to change the daemon.
Awaited(r) == \/ r.op = "stop"
              \/ r.op \in {"autoOff", "autoRecord"} /\ r.st = "sent"
\* A stop and a switch are not on their way together.
Apart(rs) == \A i, j \in DOMAIN rs : rs[i].op = "autoRecord" => rs[j].op \notin {"stop", "autoOff"}

SwitchInv == reason = "none" =>
    /\ bridge.up
    /\ \A i \in DOMAIN reqs : Agreeing(reqs[i], asked)
    /\ Apart(reqs)
    /\ bridge.auto = asked \/ \E i \in DOMAIN reqs : Awaited(reqs[i])

SwitchOps == {"stop", "autoOff", "autoRecord"}
\* Requests about the switch are in the new sequence what they were in the old.
Carried(new, old) ==
    /\ \A k \in DOMAIN new : new[k].op \in SwitchOps =>
         \E j \in DOMAIN old : /\ new[k].op = old[j].op /\ new[k].on = old[j].on
                               /\ new[k].of = old[j].of
    /\ \A j \in DOMAIN old : Awaited(old[j]) =>
         \E k \in DOMAIN new : Awaited(new[k])

LEMMA SwitchFrame ==
    ASSUME SwitchInv, reason' = "none" => reason = "none",
           UNCHANGED asked, bridge'.up = bridge.up, bridge'.auto = bridge.auto, Carried(reqs', reqs)
    PROVE  SwitchInv'
<1> SUFFICES ASSUME reason = "none" PROVE
        /\ bridge'.up
        /\ \A i \in DOMAIN reqs' : Agreeing(reqs'[i], asked')
        /\ Apart(reqs')
        /\ bridge'.auto = asked' \/ \E i \in DOMAIN reqs' : Awaited(reqs'[i])
  BY DEF SwitchInv
<1>1. bridge'.up
  BY DEF SwitchInv
<1>2. ASSUME NEW k \in DOMAIN reqs'
      PROVE  Agreeing(reqs'[k], asked')
  <2>1. CASE reqs'[k].op \in SwitchOps
    <3>1. PICK j \in DOMAIN reqs : /\ reqs'[k].op = reqs[j].op /\ reqs'[k].on = reqs[j].on
                                   /\ reqs'[k].of = reqs[j].of
      BY <2>1 DEF Carried
    <3>2. Agreeing(reqs[j], asked)
      BY DEF SwitchInv
    <3> QED BY <3>1, <3>2 DEF Agreeing
  <2>2. CASE reqs'[k].op \notin SwitchOps
    BY <2>2 DEF SwitchOps, Agreeing
  <2> QED BY <2>1, <2>2
<1>3. Apart(reqs')
  <2>1. SUFFICES ASSUME NEW i \in DOMAIN reqs', NEW j \in DOMAIN reqs', reqs'[i].op = "autoRecord",
                        reqs'[j].op \in {"stop", "autoOff"}
                 PROVE  FALSE
    BY DEF Apart
  <2>2. PICK k \in DOMAIN reqs : reqs[k].op = "autoRecord"
    BY <2>1 DEF Carried, SwitchOps
  <2>3. PICK l \in DOMAIN reqs : reqs[l].op \in {"stop", "autoOff"}
    BY <2>1 DEF Carried, SwitchOps
  <2> QED BY <2>2, <2>3 DEF SwitchInv, Apart
<1>4. bridge'.auto = asked' \/ \E i \in DOMAIN reqs' : Awaited(reqs'[i])
  BY DEF SwitchInv, Carried
<1> QED BY <1>1, <1>2, <1>3, <1>4

LEMMA CarriedSent ==
    ASSUME NEW rs \in Seq(Req), NEW req \in Req, req.op \notin SwitchOps
    PROVE  Carried(Sent(rs, req), rs)
<1> DEFINE new == Sent(rs, req)
<1>1. /\ new \in Seq(Req) /\ Len(new) = Len(rs) + 1 /\ new[Len(rs) + 1] = req
      /\ \A i \in 1 .. Len(rs) : /\ Same(new[i], rs[i])
                                 /\ new[i].of # rs[i].of => rs[i].op = req.op
  BY SentIs
<1> HIDE DEF new
<1>2. Len(rs) \in Nat /\ DOMAIN rs = 1 .. Len(rs) /\ DOMAIN new = 1 .. Len(rs) + 1
  BY <1>1
<1>3. ASSUME NEW k \in DOMAIN new, new[k].op \in SwitchOps
      PROVE  \E j \in DOMAIN rs : new[k].op = rs[j].op /\ new[k].on = rs[j].on /\ new[k].of = rs[j].of
  <2>1. k \in 1 .. Len(rs)
    BY <1>1, <1>2, <1>3
  <2>2. new[k].op = rs[k].op /\ new[k].on = rs[k].on /\ new[k].of = rs[k].of
    BY <2>1, <1>1, <1>3 DEF Same
  <2> QED BY <2>1, <2>2, <1>2
<1>4. ASSUME NEW j \in DOMAIN rs, Awaited(rs[j]) PROVE \E k \in DOMAIN new : Awaited(new[k])
  <2>1. j \in DOMAIN new /\ Awaited(new[j])
    BY <1>1, <1>2, <1>4 DEF Same, Awaited
  <2> QED BY <2>1
<1> QED BY <1>3, <1>4 DEF Carried, new

LEMMA CarriedTo ==
    ASSUME reqs \in Seq(Req), NEW i \in DOMAIN reqs, NEW st \in {"sent", "half", "done", "error"}, To(i, st),
           reqs[i].op \notin {"autoOff", "autoRecord"}
    PROVE  Carried(reqs', reqs)
<1>1. /\ reqs' \in Seq(Req) /\ Len(reqs') = Len(reqs)
      /\ \A j \in 1 .. Len(reqs) : j # i => reqs'[j] = reqs[j]
      /\ reqs'[i] = [reqs[i] EXCEPT !.st = st]
  BY ToIs
<1>2. DOMAIN reqs' = DOMAIN reqs /\ DOMAIN reqs = 1 .. Len(reqs)
  BY <1>1
<1>3. reqs'[i].op = reqs[i].op /\ reqs'[i].on = reqs[i].on /\ reqs'[i].of = reqs[i].of
  <2>1. reqs[i] \in Req
    OBVIOUS
  <2> QED BY <2>1, <1>1 DEF Req
<1>4. ASSUME NEW k \in DOMAIN reqs
      PROVE  /\ reqs'[k].op = reqs[k].op /\ reqs'[k].on = reqs[k].on /\ reqs'[k].of = reqs[k].of
             /\ Awaited(reqs[k]) => Awaited(reqs'[k])
  <2>1. CASE k = i
    BY <2>1, <1>3 DEF Awaited
  <2>2. CASE k # i
    BY <2>2, <1>1, <1>2
  <2> QED BY <2>1, <2>2
<1> QED BY <1>2, <1>4 DEF Carried

LEMMA CarriedWithout ==
    ASSUME reqs \in Seq(Req), NEW i \in DOMAIN reqs, ~Awaited(reqs[i])
    PROVE  Carried(Without(i), reqs)
<1>1. /\ \A k \in DOMAIN Without(i) : \E j \in DOMAIN reqs : Without(i)[k] = reqs[j]
      /\ \A j \in DOMAIN reqs : j # i => \E k \in DOMAIN Without(i) : Without(i)[k] = reqs[j]
  BY Left DEF Without
<1>2. ASSUME NEW j \in DOMAIN reqs, Awaited(reqs[j]) PROVE \E k \in DOMAIN Without(i) : Awaited(Without(i)[k])
  BY <1>1, <1>2
<1> QED BY <1>1, <1>2 DEF Carried

LEMMA CarriedShow ==
    ASSUME TInv, NEW p \in Pages, NEW s \in Statuses, NEW changed, NEW elapsed \in BOOLEAN,
           Show(p, s, changed, elapsed)
    PROVE  Carried(reqs', reqs)
<1>1. /\ reqs' \in Seq(Req) /\ Len(reqs) <= Len(reqs')
      /\ \A i \in 1 .. Len(reqs) :
           /\ Same(reqs'[i], reqs[i])
           /\ reqs[i].op \in {"stop", "autoOff", "autoRecord"} => reqs'[i].of = reqs[i].of
      /\ \A i \in 1 .. Len(reqs') : i > Len(reqs) => reqs'[i].op = "discoverable"
  BY ShowIs
<1>2. /\ reqs \in Seq(Req) /\ Len(reqs) \in Nat /\ DOMAIN reqs = 1 .. Len(reqs)
      /\ Len(reqs') \in Nat /\ DOMAIN reqs' = 1 .. Len(reqs')
  BY <1>1 DEF TInv, TypeOK
<1>3. ASSUME NEW k \in DOMAIN reqs', reqs'[k].op \in SwitchOps
      PROVE  \E j \in DOMAIN reqs : /\ reqs'[k].op = reqs[j].op /\ reqs'[k].on = reqs[j].on
                                    /\ reqs'[k].of = reqs[j].of
  <2>1. k \in 1 .. Len(reqs)
    BY <1>1, <1>2, <1>3 DEF SwitchOps
  <2>2. reqs'[k].op = reqs[k].op /\ reqs'[k].on = reqs[k].on /\ reqs'[k].of = reqs[k].of
    BY <2>1, <1>1, <1>3 DEF Same, SwitchOps
  <2> QED BY <2>1, <2>2, <1>2
<1>4. ASSUME NEW j \in DOMAIN reqs, Awaited(reqs[j]) PROVE \E k \in DOMAIN reqs' : Awaited(reqs'[k])
  <2>1. j \in DOMAIN reqs' /\ Awaited(reqs'[j])
    BY <1>1, <1>2, <1>4 DEF Same, Awaited
  <2> QED BY <2>1
<1> QED BY <1>3, <1>4 DEF Carried

LEMMA SwitchStep == TInv /\ TInv' /\ SwitchInv /\ [Next]_vars => SwitchInv'
<1> SUFFICES ASSUME TInv, TInv', SwitchInv, [Next]_vars PROVE SwitchInv'
  OBVIOUS
<1>t. reqs \in Seq(Req) /\ Len(reqs) \in Nat /\ DOMAIN reqs = 1 .. Len(reqs) /\ bridge \in Bridge
  BY DEF TInv, TypeOK, Bridge
<1>c. UNCHANGED reqs => Carried(reqs', reqs)
  BY DEF Carried
<1>q. ASSUME UNCHANGED <<bridge, asked, reason>>, Carried(reqs', reqs) PROVE SwitchInv'
  BY <1>q, SwitchFrame
<1>m. ASSUME NEW req \in Req, req.op \notin SwitchOps, Mutate(req) PROVE Carried(reqs', reqs)
  BY <1>m, <1>t, CarriedSent DEF Mutate
<1>d. /\ status.data \in Statuses /\ status.answer \in Statuses
      /\ page \in Pages
      /\ \A i \in DOMAIN list.data : list.data[i] \in Row
  <2>1. list.data \in Seq(Row)
    BY QueryIs DEF TInv, TypeOK
  <2> QED BY <2>1, QueryIs DEF TInv, TypeOK
<1>1. CASE UNCHANGED vars
  BY <1>1, <1>c, <1>q DEF vars, server, history
<1>2. ASSUME NEW p \in Pages, NEW elapsed \in BOOLEAN, Go(p, elapsed) PROVE SwitchInv'
  <2>1. Carried(reqs', reqs)
    BY <1>2, <1>d, CarriedShow DEF Go
  <2> QED BY <1>2, <2>1, <1>q DEF Go, server, history
<1>3. CASE StatusArrives
  <2>1. Carried(reqs', reqs)
    BY <1>3, <1>d, CarriedShow DEF StatusArrives
  <2> QED BY <1>3, <2>1, <1>q DEF StatusArrives, server, history
<1>4. CASE Poll \/ ReadStatus \/ ReadDevices \/ ListArrives \/ ClickScan \/ ScanFinds
  BY <1>4, <1>c, <1>q DEF Poll, ReadStatus, ReadDevices, ListArrives, ClickScan, ScanFinds, server, history
<1>5. ASSUME NEW m \in Macs, HandleConnect(m) PROVE SwitchInv'
  <2>1. [Request("connect") EXCEPT !.mac = m] \in Req
        /\ [Request("connect") EXCEPT !.mac = m].op \notin SwitchOps
    BY DEF Request, Req, Ops, Types, SwitchOps
  <2> QED BY <1>5, <2>1, <1>m, <1>q DEF HandleConnect, server, history
<1>6. CASE QuickConnect \/ \E m \in Macs : ClickDevice(m)
  BY <1>6, <1>d, <1>5 DEF QuickConnect, ClickDevice, Headphones, Row
<1>7. ASSUME NEW req \in Req, req.op \notin SwitchOps, OnSettings(req) PROVE SwitchInv'
  BY <1>7, <1>m, <1>q DEF OnSettings, server, history
<1>8. ASSUME NEW i \in DOMAIN list.data, ClickReconnect(list.data[i]) \/ ClickRemove(list.data[i])
      PROVE  SwitchInv'
  <2>1. list.data[i] \in Row
    BY <1>d
  <2>2. /\ [Request("reconnect") EXCEPT !.mac = list.data[i].mac] \in Req
        /\ [Request("reconnect") EXCEPT !.mac = list.data[i].mac].op \notin SwitchOps
        /\ [Request("remove") EXCEPT !.id = list.data[i].id] \in Req
        /\ [Request("remove") EXCEPT !.id = list.data[i].id].op \notin SwitchOps
    BY <2>1 DEF Request, Req, Ops, Types, Row, SwitchOps
  <2> QED BY <1>8, <2>2, <1>7 DEF ClickReconnect, ClickRemove
<1>9. CASE HandleSave
  <2>1. PICK t \in Types : OnSettings([Request("save") EXCEPT !.mac = dlg.sel, !.type = t])
    BY <1>9 DEF HandleSave
  <2>2. dlg.sel \in Macs \cup {None}
    BY DEF TInv, DialogInv, Timed, Dlg
  <2>3. [Request("save") EXCEPT !.mac = dlg.sel, !.type = t] \in Req
        /\ [Request("save") EXCEPT !.mac = dlg.sel, !.type = t].op \notin SwitchOps
    BY <2>2 DEF Request, Req, Ops, SwitchOps
  <2> QED BY <2>1, <2>3, <1>7
<1>10. CASE \/ OpenDialog \/ ClickStopScan \/ ScanAgain \/ \E m \in Macs : HandleSelectDevice(m)
            \/ Back \/ CloseDialog \/ PollAnswers
            \/ \E t \in Timers : IntervalFires(t) \/ TimeoutFires(t)
  <2>1. InDialog
    BY <1>10 DEF OpenDialog, ClickStopScan, ScanAgain, HandleSelectDevice, Choosing, Configuring,
                 Back, CloseDialog, PollAnswers, IntervalFires, TimeoutFires
  <2> QED BY <2>1, <1>c, <1>q DEF InDialog, server, history
<1>11. CASE ClickSwitch
  <2> DEFINE req == [Request("autoRecord") EXCEPT !.on = ~status.data.auto]
  <2>1. /\ req \in Req /\ req.op = "autoRecord" /\ req.on = ~status.data.auto
        /\ req.of = "latest" /\ req.st = "sent"
    <3>1. status.data.auto \in BOOLEAN
      BY <1>d DEF Statuses
    <3> QED BY <3>1 DEF Request, Req, Ops, Types
  <2>2. reqs' = Sent(reqs, req) /\ asked' = req.on /\ UNCHANGED bridge
    BY <1>11, <2>1 DEF ClickSwitch, Mutate, server
  <2>3. SUFFICES ASSUME reason' = "none" PROVE SwitchInv'
    BY DEF SwitchInv
  <2>4. reason = "none" /\ ~InFlight({"stop", "autoOff"})
    BY <1>11, <2>3 DEF ClickSwitch, Note
  <2> HIDE DEF req
  <2>5. \A i \in DOMAIN reqs : reqs[i].op \notin SwitchOps
    <3>1. \A i \in DOMAIN reqs : reqs[i].op # "autoRecord"
      BY <1>11, <2>4 DEF ClickSwitch, IsPending, SwitchInv, Agreeing
    <3> QED BY <3>1, <2>4 DEF InFlight, SwitchOps
  <2>6. /\ Len(reqs') = Len(reqs) + 1 /\ reqs'[Len(reqs) + 1] = req
        /\ \A i \in 1 .. Len(reqs) : Same(reqs'[i], reqs[i])
        /\ DOMAIN reqs' = 1 .. Len(reqs) + 1
    <3>1. /\ Len(reqs') = Len(reqs) + 1 /\ reqs'[Len(reqs) + 1] = req /\ reqs' \in Seq(Req)
          /\ \A i \in 1 .. Len(reqs) : Same(reqs'[i], reqs[i])
      BY <2>1, <2>2, <1>t, SentIs
    <3> QED BY <3>1
  <2>7. ASSUME NEW k \in DOMAIN reqs', reqs'[k].op \in SwitchOps PROVE reqs'[k] = req
    <3>1. CASE k \in 1 .. Len(reqs)
      BY <3>1, <2>5, <2>6, <2>7, <1>t DEF Same
    <3> QED BY <3>1, <2>6, <1>t
  <2>8. \A k \in DOMAIN reqs' : Agreeing(reqs'[k], asked')
    BY <2>1, <2>2, <2>7 DEF Agreeing, SwitchOps
  <2>9. Apart(reqs')
    BY <2>1, <2>7 DEF Apart, SwitchOps
  <2>10. \E k \in DOMAIN reqs' : Awaited(reqs'[k])
    <3>1. Len(reqs) + 1 \in DOMAIN reqs' /\ Awaited(reqs'[Len(reqs) + 1])
      BY <2>1, <2>6, <1>t DEF Awaited
    <3> QED BY <3>1
  <2> QED BY <2>2, <2>4, <2>8, <2>9, <2>10 DEF SwitchInv
<1>12. CASE ClickStop
  <2> DEFINE req == Request("stop")
  <2>1. req \in Req /\ req.op = "stop" /\ req.on = FALSE
    BY DEF Request, Req, Ops, Types
  <2>2. reqs' = Sent(reqs, req) /\ asked' = FALSE /\ UNCHANGED bridge
    BY <1>12 DEF ClickStop, Mutate, server
  <2>3. SUFFICES ASSUME reason' = "none" PROVE SwitchInv'
    BY DEF SwitchInv
  <2>4. reason = "none" /\ ~InFlight({"autoRecord"})
    BY <1>12, <2>3 DEF ClickStop, Note
  <2> HIDE DEF req
  <2>5. /\ Len(reqs') = Len(reqs) + 1 /\ reqs'[Len(reqs) + 1] = req
        /\ \A i \in 1 .. Len(reqs) : Same(reqs'[i], reqs[i])
        /\ DOMAIN reqs' = 1 .. Len(reqs) + 1
    <3>1. /\ Len(reqs') = Len(reqs) + 1 /\ reqs'[Len(reqs) + 1] = req /\ reqs' \in Seq(Req)
          /\ \A i \in 1 .. Len(reqs) : Same(reqs'[i], reqs[i])
      BY <2>1, <2>2, <1>t, SentIs
    <3> QED BY <3>1
  <2>6. ASSUME NEW k \in DOMAIN reqs' PROVE Agreeing(reqs'[k], asked') /\ reqs'[k].op # "autoRecord"
    <3>1. CASE k \in 1 .. Len(reqs)
      <4>1. Agreeing(reqs[k], asked) /\ reqs[k].op # "autoRecord" /\ Same(reqs'[k], reqs[k])
        BY <3>1, <2>4, <2>5, <1>t DEF SwitchInv, InFlight
      <4> QED BY <4>1, <2>2 DEF Agreeing, Same
    <3>2. CASE k = Len(reqs) + 1
      BY <3>2, <2>1, <2>2, <2>5 DEF Agreeing
    <3> QED BY <3>1, <3>2, <2>5, <1>t
  <2>7. \E k \in DOMAIN reqs' : Awaited(reqs'[k])
    <3>1. Len(reqs) + 1 \in DOMAIN reqs' /\ Awaited(reqs'[Len(reqs) + 1])
      BY <2>1, <2>5, <1>t DEF Awaited
    <3> QED BY <3>1
  <2> QED BY <2>2, <2>4, <2>6, <2>7 DEF SwitchInv, Apart
<1>13. ASSUME NEW i \in DOMAIN reqs, Answer(i) PROVE SwitchInv'
  <2>1. UNCHANGED <<bridge, asked, reason>>
    BY <1>13 DEF Answer, ConnectAnswers, SettingsAnswers, SettingsFails, SilentlyAnswers, SwitchAnswers,
                 StopAnswers, Closing, server, history
  <2>2. CASE ~StopAnswers(i)
    <3>1. reqs' = Without(i) /\ ~Awaited(reqs[i])
      BY <1>13, <2>2 DEF Answer, ConnectAnswers, SettingsAnswers, SettingsFails, SilentlyAnswers,
                         SwitchAnswers, Done, Owned, Awaited
    <3> QED BY <3>1, <2>1, <1>t, <1>q, CarriedWithout
  <2>3. CASE StopAnswers(i)
    <3> DEFINE rest == Without(i)
               req == Request("autoOff")
    <3>1. req \in Req /\ req.op = "autoOff" /\ req.on = FALSE /\ req.st = "sent"
      BY DEF Request, Req, Ops, Types
    <3>2. /\ rest \in Seq(Req)
          /\ \A k \in DOMAIN rest : \E j \in DOMAIN reqs : rest[k] = reqs[j]
      BY <1>t, Left, Removal DEF Without
    <3>3. reqs[i].op = "stop" /\ reqs' = Sent(rest, req)
      BY <2>3 DEF StopAnswers, Stopped, Done
    <3> HIDE DEF rest, req
    <3>4. SUFFICES ASSUME reason = "none" PROVE SwitchInv'
      BY <2>1 DEF SwitchInv
    <3>5. ~asked /\ \A j \in DOMAIN reqs : reqs[j].op # "autoRecord"
      BY <3>3, <3>4 DEF SwitchInv, Agreeing, Apart
    <3>6. /\ Len(reqs') = Len(rest) + 1 /\ reqs'[Len(rest) + 1] = req
          /\ \A k \in 1 .. Len(rest) : Same(reqs'[k], rest[k])
          /\ DOMAIN reqs' = 1 .. Len(rest) + 1
      <4>1. /\ Len(reqs') = Len(rest) + 1 /\ reqs'[Len(rest) + 1] = req /\ reqs' \in Seq(Req)
            /\ \A k \in 1 .. Len(rest) : Same(reqs'[k], rest[k])
        BY <3>1, <3>2, <3>3, SentIs
      <4> QED BY <4>1
    <3>7. Len(rest) \in Nat /\ DOMAIN rest = 1 .. Len(rest)
      BY <3>2
    <3>8. ASSUME NEW k \in DOMAIN reqs' PROVE Agreeing(reqs'[k], asked) /\ reqs'[k].op # "autoRecord"
      <4>1. CASE k \in 1 .. Len(rest)
        <5>1. PICK j \in DOMAIN reqs : rest[k] = reqs[j]
          BY <4>1, <3>2, <3>7
        <5>2. Agreeing(reqs[j], asked) /\ reqs[j].op # "autoRecord" /\ Same(reqs'[k], reqs[j])
          BY <4>1, <5>1, <3>4, <3>5, <3>6 DEF SwitchInv
        <5> QED BY <5>2 DEF Agreeing, Same
      <4>2. CASE k = Len(rest) + 1
        BY <4>2, <3>1, <3>5, <3>6 DEF Agreeing
      <4> QED BY <4>1, <4>2, <3>6, <3>7
    <3>9. \E k \in DOMAIN reqs' : Awaited(reqs'[k])
      <4>1. Len(rest) + 1 \in DOMAIN reqs' /\ Awaited(reqs'[Len(rest) + 1])
        BY <3>1, <3>6, <3>7 DEF Awaited
      <4> QED BY <4>1
    <3> QED BY <2>1, <3>4, <3>8, <3>9 DEF SwitchInv, Apart
  <2> QED BY <2>2, <2>3
<1>14. ASSUME NEW i \in DOMAIN reqs, Serve(i) PROVE SwitchInv'
  <2>0. UNCHANGED <<asked, reason>>
    BY <1>14 DEF Serve, ServeConnect, TouchRow, UpsertRow, ConnectSaved, Unpair, DeleteRow,
                 SetDiscoverable, StopRecording, SetAutoRecord, Serving, history
  <2>1. CASE SetAutoRecord(i)
    <3>1. SUFFICES ASSUME reason = "none" PROVE SwitchInv'
      BY <2>0 DEF SwitchInv
    <3>2. /\ To(i, "done") /\ reqs[i].op \in {"autoOff", "autoRecord"}
          /\ bridge' = [bridge EXCEPT !.auto = reqs[i].on]
      BY <2>1, <3>1 DEF SetAutoRecord, Serves, Safely, SwitchInv
    <3>3. reqs[i].on = asked
      <4>1. Agreeing(reqs[i], asked)
        BY <3>1 DEF SwitchInv
      <4>2. reqs[i] \in Req
        BY <1>t
      <4>3. reqs[i].on \in BOOLEAN /\ asked \in BOOLEAN
        BY <4>2 DEF Req, TInv, TypeOK
      <4> QED BY <3>2, <4>1, <4>3 DEF Agreeing
    <3>4. bridge'.auto = asked /\ bridge'.up
      BY <3>1, <3>2, <3>3, <1>t DEF Bridge, SwitchInv
    <3>5. /\ DOMAIN reqs' = DOMAIN reqs
          /\ \A k \in DOMAIN reqs : /\ reqs'[k].op = reqs[k].op /\ reqs'[k].on = reqs[k].on
                                    /\ reqs'[k].of = reqs[k].of
      <4>1. /\ reqs' \in Seq(Req) /\ Len(reqs') = Len(reqs)
            /\ \A j \in 1 .. Len(reqs) : j # i => reqs'[j] = reqs[j]
            /\ reqs'[i] = [reqs[i] EXCEPT !.st = "done"]
        BY <3>2, <1>t, ToIs
      <4>2. reqs'[i].op = reqs[i].op /\ reqs'[i].on = reqs[i].on /\ reqs'[i].of = reqs[i].of
        <5>1. reqs[i] \in Req
          BY <1>t
        <5> QED BY <5>1, <4>1 DEF Req
      <4>3. DOMAIN reqs' = DOMAIN reqs
        BY <4>1, <1>t
      <4>4. ASSUME NEW k \in DOMAIN reqs
            PROVE  /\ reqs'[k].op = reqs[k].op /\ reqs'[k].on = reqs[k].on
                   /\ reqs'[k].of = reqs[k].of
        <5>1. CASE k = i
          BY <5>1, <4>2
        <5>2. CASE k # i
          BY <5>2, <4>1, <1>t
        <5> QED BY <5>1, <5>2
      <4> QED BY <4>3, <4>4
    <3> QED BY <2>0, <3>1, <3>4, <3>5 DEF SwitchInv, Agreeing, Apart
  <2>2. CASE ~SetAutoRecord(i)
    <3>1. PICK st \in {"sent", "half", "done", "error"} : To(i, st)
      BY <1>14, <2>2 DEF Serve, ServeConnect, TouchRow, UpsertRow, ConnectSaved, Unpair, DeleteRow,
                   SetDiscoverable, StopRecording
    <3>2. reqs[i].op \notin {"autoOff", "autoRecord"}
      BY <1>14, <2>2 DEF Serve, ServeConnect, TouchRow, UpsertRow, ConnectSaved, Unpair, DeleteRow,
                   SetDiscoverable, StopRecording, Serves
    <3>3. \/ bridge' = bridge
          \/ \E m \in Macs \cup {None} : bridge' = [bridge EXCEPT !.head = m]
          \/ bridge' = [bridge EXCEPT !.disc = reqs[i].on]
          \/ bridge' = [bridge EXCEPT !.session = FALSE]
      <4>1. reqs[i] \in Req
        BY <1>t
      <4>2. reqs[i].mac \in Macs \cup {None}
        BY <4>1 DEF Req
      <4> QED BY <1>14, <2>2, <4>2 DEF Serve, ServeConnect, TouchRow, UpsertRow, ConnectSaved, Unpair,
                   DeleteRow, SetDiscoverable, StopRecording, Safely, Connects
    <3>4. bridge'.up = bridge.up /\ bridge'.auto = bridge.auto
      BY <3>3, <1>t DEF Bridge
    <3>5. Carried(reqs', reqs)
      BY <3>1, <3>2, <1>t, CarriedTo
    <3> QED BY <2>0, <3>4, <3>5, SwitchFrame
  <2> QED BY <2>1, <2>2
<1>15. CASE Daemon
  <2>1. CASE BridgeStops
    <3>1. reason' # "none"
      BY <2>1 DEF BridgeStops, Note
    <3> QED BY <3>1 DEF SwitchInv
  <2>2. CASE BridgeStarts
    <3>1. reason # "none" /\ reason' = reason
      BY <2>2 DEF BridgeStarts, SwitchInv
    <3> QED BY <3>1 DEF SwitchInv
  <2>3. CASE HeadphoneLeaves \/ SourceConnects \/ SourceLeaves \/ Records \/ GoesIdle
    <3>1. UNCHANGED <<asked, reason, reqs>>
      BY <2>3 DEF HeadphoneLeaves, SourceConnects, SourceLeaves, Records, GoesIdle, Runs, Becomes
    <3>2. \/ bridge' = [bridge EXCEPT !.head = None]
          \/ \E b \in BOOLEAN : \/ bridge' = [bridge EXCEPT !.src = b]
                                \/ bridge' = [bridge EXCEPT !.session = b]
      BY <2>3 DEF HeadphoneLeaves, SourceConnects, SourceLeaves, Records, GoesIdle, Runs, Becomes
    <3>3. bridge'.up = bridge.up /\ bridge'.auto = bridge.auto
      BY <3>2, <1>t DEF Bridge
    <3> QED BY <3>1, <3>3, <1>c, SwitchFrame
  <2> QED BY <1>15, <2>1, <2>2, <2>3 DEF Daemon
<1> QED BY <1>1, <1>2, <1>3, <1>4, <1>6, <1>8, <1>9, <1>10, <1>11, <1>12, <1>13, <1>14, <1>15
        DEF Next, User, Browser, Server

\* The daemon records automatically as the user asked last, for any number of
\* clicks on the switch and the Stop button whose requests are answered in any order.
THEOREM SwitchKeptHolds == Spec => []SwitchKept
<1>1. Init => SwitchInv
  <2> SUFFICES ASSUME Init PROVE SwitchInv
    OBVIOUS
  <2>1. bridge.up = TRUE /\ bridge.auto = TRUE
    <3>1. Started \in Bridge /\ Started.up = TRUE /\ Started.auto = TRUE
      BY DEF Started, Bridge
    <3>2. bridge = Started \/ bridge = [Started EXCEPT !.src = TRUE, !.session = TRUE]
      BY DEF Init
    <3> QED BY <3>1, <3>2 DEF Bridge
  <2>2. asked = TRUE /\ DOMAIN reqs = {}
    BY DEF Init
  <2> QED BY <2>1, <2>2 DEF SwitchInv, Apart
<1>2. TInv /\ TInv' /\ SwitchInv /\ [Next]_vars => SwitchInv'
  BY SwitchStep
<1>3. TInv /\ SwitchInv => SwitchKept
  BY DEF SwitchInv, SwitchKept, InFlight, Awaited
<1> QED BY <1>1, <1>2, <1>3, TypeHolds, PTL DEF Spec
=============================================================================
