------------------------------ MODULE Devices ------------------------------
(***************************************************************************)
(* Bluetooth devices and the recording switch in the web application: the  *)
(* procedures of server/api/routers/bluetooth.ts, which call the bridge    *)
(* daemon and keep a table of devices, and the components of one browser   *)
(* that use them.  The top bar (the switch of automatic recording) and the *)
(* recording overlay (the Stop button) are on every page; the audio page   *)
(* shows the onboarding until a headphone and a source are connected; the  *)
(* settings page lists the saved devices and has the dialog that scans.    *)
(*                                                                         *)
(* The daemon may be out of reach, and is started anew when it is back.    *)
(* Requests are served and answered in any order; every answer arrives.    *)
(* The phone is not a saved device here; names, notes, signal strengths,   *)
(* durations, pairing and bluetooth.disconnect, which nothing calls, are   *)
(* left out.                                                               *)
(***************************************************************************)
EXTENDS Naturals, FiniteSets, Sequences, SequencesExt

CONSTANTS
    Macs,       \* devices that a scan may find
    Saved,      \* the device that is saved at first
    None,       \* no device
    MaxReqs,    \* bound: requests in flight together
    MaxActs     \* bound: changes the user asks for or the daemon undergoes

ASSUME DevicesAssumption ==
    /\ None \notin Macs /\ Saved \in Macs
    /\ {MaxReqs, MaxActs} \subseteq Nat

Types == {"headphone", "source"}
Pages == {"audio", "settings"}
Row == [id : Nat, mac : Macs, type : Types]

VARIABLES
    bridge,   \* the daemon: is it up, its devices, discoverability, recording
    rows,     \* the table of devices, the one seen last first
    nextId,   \* the id the next row gets
    status,   \* the query bluetooth.status: data, fetch in flight, its answer
    list,     \* the query bluetooth.devices
    page,     \* the page shown
    onb,      \* OnboardingFlow: isScanning, connectingMac, what its scan found
    dlg,      \* AddDeviceDialog: its state, its timers, are scans in flight
    reqs,     \* requests of mutations in flight, in the order they were sent
    acts,     \* changes so far
    asked,    \* history: what the user last asked automatic recording to be
    reason    \* history: why the daemon may not have done so

server == <<bridge, rows, nextId>>
history == <<asked, reason>>
vars == <<server, status, list, page, onb, dlg, reqs, acts, history>>

\* A daemon that has just started.
Started == [up |-> TRUE, head |-> None, src |-> FALSE, disc |-> FALSE,
            auto |-> TRUE, session |-> FALSE]
\* What bluetooth.status answers without the daemon, and before any answer.
Unreachable == [known |-> TRUE, up |-> FALSE, head |-> FALSE, src |-> FALSE,
                disc |-> FALSE, auto |-> TRUE, session |-> FALSE]
Unknown == [Unreachable EXCEPT !.known = FALSE]
Status == IF bridge.up
          THEN [known |-> TRUE, up |-> TRUE, head |-> bridge.head # None,
                src |-> bridge.src, disc |-> bridge.disc,
                auto |-> bridge.auto, session |-> bridge.session]
          ELSE Unreachable

-----------------------------------------------------------------------------
(* Queries.  has: there is an answer.  The status is always observed, so   *)
(* that an invalidation is a fetch, and stale is left out of it.           *)

NoQuery(empty) == [data |-> empty, answer |-> empty, has |-> FALSE, stale |-> TRUE, st |-> "idle"]
Fetch(q) == [q EXCEPT !.st = "sent", !.answer = q.data]
Cancel(q) == [q EXCEPT !.st = "idle", !.answer = q.data]
Stored(q) == [q EXCEPT !.data = q.answer, !.has = TRUE, !.stale = FALSE, !.st = "idle"]
\* A fetch in flight is cancelled for a newer one, unless it is the first.
Refetch(q) == IF q.has \/ q.st = "idle" THEN Fetch(q) ELSE q
Invalidate(q, observed) ==
    LET old == [q EXCEPT !.stale = TRUE] IN IF observed THEN Refetch(old) ELSE old
\* Mounted: fetched if it is stale or older than 30 s (elapsed).
Mounts(q, elapsed) == IF q.st = "idle" /\ (q.stale \/ elapsed) THEN Fetch(q) ELSE q

\* The audio page shows the onboarding unless both devices are connected.
Onboards(p, s) == p = "audio" /\ s.known /\ ~(s.head /\ s.src)
Onboarding == Onboards(page, status.data)
ListObserved == page = "settings" \/ Onboarding

-----------------------------------------------------------------------------
(* Requests.  A mutation is the latest of its component, an older one of   *)
(* it, or its component is gone; only the latest counts for isPending.     *)

Request(op) == [op |-> op, mac |-> None, type |-> "headphone", id |-> 0,
                on |-> FALSE, st |-> "sent", of |-> "latest"]
Ops == {"connect", "reconnect", "save", "remove", "discoverable", "stop", "autoOff", "autoRecord"}

Aged(rs, op) == [i \in DOMAIN rs |->
    IF rs[i].op = op /\ rs[i].of = "latest" THEN [rs[i] EXCEPT !.of = "older"] ELSE rs[i]]
Sent(rs, req) == Append(Aged(rs, req.op), req)
Mutate(req) == Len(reqs) < MaxReqs /\ reqs' = Sent(reqs, req)
IsPending(op) == \E i \in DOMAIN reqs : reqs[i].op = op /\ reqs[i].of = "latest"

Owned(p) == IF p = "audio" THEN {"connect"} ELSE {"reconnect", "save", "remove"}
Gone(rs, ops) == [i \in DOMAIN rs |->
    IF rs[i].op \in ops THEN [rs[i] EXCEPT !.of = "gone"] ELSE rs[i]]

Acts == acts < MaxActs /\ acts' = acts + 1
Note(cond, why) == reason' = IF reason = "none" /\ cond THEN why ELSE reason

-----------------------------------------------------------------------------
(* The timers of the dialog.  A scan has an interval and a timeout, and    *)
(* both refs hold those of the scan started last; a timer that fired or    *)
(* was cleared is not in the sets.                                         *)

NoDialog == [open |-> FALSE, sel |-> None, scanning |-> FALSE,
             found |-> FALSE, intervals |-> {}, timeouts |-> {}, ref |-> 0, polling |-> FALSE]
Timers == 1 .. 4
NewTimer(d) == CHOOSE t \in Timers : /\ t \notin d.intervals \cup d.timeouts
                                     /\ \A u \in 1 .. t - 1 : u \in d.intervals \cup d.timeouts

\* The cleanup of the effect clears the timers and leaves the refs.
Cleaned(d) == [d EXCEPT !.intervals = @ \ {d.ref}, !.timeouts = @ \ {d.ref}]
StopScan(d) == [Cleaned(d) EXCEPT !.ref = 0, !.scanning = FALSE]
\* startScan asks once at once.
StartScan(d) ==
    [d EXCEPT !.found = FALSE, !.scanning = TRUE, !.ref = NewTimer(d), !.polling = TRUE,
              !.intervals = @ \cup {NewTimer(d)}, !.timeouts = @ \cup {NewTimer(d)}]
\* The effect runs when open or the selection has changed.
Effect(d) == IF d.open /\ d.sel = None THEN StartScan(Cleaned(d)) ELSE Cleaned(d)
\* Mutant of Unmounted: the effect has no cleanup.
UnmountedOnly(d) == [NoDialog EXCEPT !.intervals = d.intervals, !.timeouts = d.timeouts]
\* Unmounted, timers are all that is left.
Unmounted(d) == [NoDialog EXCEPT !.intervals = Cleaned(d).intervals,
                                 !.timeouts = Cleaned(d).timeouts]

NoOnboarding == [scanning |-> FALSE, mac |-> None, found |-> FALSE]

Statuses == [known : BOOLEAN, up : BOOLEAN, head : BOOLEAN, src : BOOLEAN,
             disc : BOOLEAN, auto : BOOLEAN, session : BOOLEAN]
Query(D) == [data : D, answer : D, has : BOOLEAN, stale : BOOLEAN, st : {"idle", "sent", "read"}]
Req == [op : Ops, mac : Macs \cup {None}, type : Types, id : Nat, on : BOOLEAN,
        st : {"sent", "half", "done", "error"}, of : {"latest", "older", "gone"}]

TypeOK ==
    /\ bridge \in [up : BOOLEAN, head : Macs \cup {None}, src : BOOLEAN, disc : BOOLEAN,
                   auto : BOOLEAN, session : BOOLEAN]
    /\ rows \in Seq(Row) /\ nextId \in Nat
    /\ status \in Query(Statuses) /\ list \in Query(Seq(Row))
    /\ page \in Pages
    /\ onb \in [scanning : BOOLEAN, mac : Macs \cup {None}, found : BOOLEAN]
    /\ dlg \in [open : BOOLEAN, sel : Macs \cup {None}, scanning : BOOLEAN, found : BOOLEAN,
                intervals : SUBSET Timers, timeouts : SUBSET Timers,
                ref : Timers \cup {0}, polling : BOOLEAN]
    /\ reqs \in Seq(Req)
    /\ acts \in 0 .. MaxActs
    /\ asked \in BOOLEAN /\ reason \in {"none", "crossed", "down"}

Init ==
    /\ bridge \in {Started, [Started EXCEPT !.src = TRUE, !.session = TRUE]}
    /\ rows = <<[id |-> 0, mac |-> Saved, type |-> "headphone"]>>
    /\ nextId = 1
    /\ status = [NoQuery(Unknown) EXCEPT !.stale = FALSE]
    /\ page \in Pages
    /\ list = IF page = "settings" THEN Fetch(NoQuery(<<>>)) ELSE NoQuery(<<>>)
    /\ onb = NoOnboarding /\ dlg = NoDialog
    /\ reqs = <<>>
    /\ acts = 0
    /\ asked = TRUE /\ reason = "none"

-----------------------------------------------------------------------------
(* What is shown.                                                          *)

\* The effect of the onboarding wants the sink open while a headphone and no
\* source is connected, and asks for it if the status says otherwise.
ShouldBeDiscoverable(s) == s.head /\ ~s.src
Discovers(rs, s, runs) ==
    IF runs /\ ShouldBeDiscoverable(s) # s.disc
    THEN /\ Len(rs) < MaxReqs
         /\ reqs' = Sent(rs, [Request("discoverable") EXCEPT !.on = ShouldBeDiscoverable(s)])
    ELSE reqs' = rs

\* Page p is shown with status s: components are unmounted and mounted.  The
\* effect runs when it is mounted or when the status is not what it was.
Show(p, s, changed, elapsed) ==
    LET was == Onboarding
        is == Onboards(p, s)
        left == page = "settings" /\ p # page
        lost == (IF was /\ ~is THEN Owned("audio") ELSE {})
                \cup (IF left THEN Owned("settings") ELSE {})
        mounted == (p = "settings" \/ is) /\ (p # page \/ ~ListObserved)
        unmounted == ListObserved /\ (p # page \/ (p = "audio" /\ ~is))
        q == IF unmounted THEN Cancel(list) ELSE list
    IN  /\ Discovers(Gone(reqs, lost), s, is /\ (changed \/ ~was))
        /\ onb' = IF was /\ ~is THEN [NoOnboarding EXCEPT !.found = onb.found] ELSE onb
        /\ dlg' = IF left THEN Unmounted(dlg) ELSE dlg
        /\ list' = IF mounted THEN Mounts(q, elapsed) ELSE q

Go(p, elapsed) ==
    /\ page # p /\ page' = p
    /\ Show(p, status.data, FALSE, elapsed)
    /\ UNCHANGED <<server, status, acts, history>>

\* The status is asked for every 3 s by what is shown on every page.
Poll ==
    /\ status.st = "idle" /\ status' = Fetch(status)
    /\ UNCHANGED <<server, list, page, onb, dlg, reqs, acts, history>>
ReadStatus ==
    /\ status.st = "sent" /\ status' = [status EXCEPT !.st = "read", !.answer = Status]
    /\ UNCHANGED <<server, list, page, onb, dlg, reqs, acts, history>>
\* The duration of a session makes every status a new one.
StatusArrives ==
    /\ status.st = "read" /\ status' = Stored(status)
    /\ Show(page, status.answer, status.answer # status.data \/ status.answer.session, FALSE)
    /\ UNCHANGED <<server, page, acts, history>>

\* bluetooth.devices; which of them are connected is left out.
ReadDevices ==
    /\ list.st = "sent" /\ list' = [list EXCEPT !.st = "read", !.answer = rows]
    /\ UNCHANGED <<server, status, page, onb, dlg, reqs, acts, history>>
ListArrives ==
    /\ list.st = "read" /\ list' = Stored(list)
    /\ UNCHANGED <<server, status, page, onb, dlg, reqs, acts, history>>

-----------------------------------------------------------------------------
(* The onboarding.                                                         *)

\* bluetooth.scan answers nothing when the daemon does not; else any device
\* may be among those found.
Scanned == IF bridge.up THEN BOOLEAN ELSE {FALSE}

Step1 == Onboarding /\ ~status.data.head
ClickScan ==
    /\ Step1 /\ ~onb.scanning /\ ~IsPending("connect")
    /\ onb' = [onb EXCEPT !.scanning = TRUE]
    /\ UNCHANGED <<server, status, list, page, dlg, reqs, acts, history>>
ScanFinds ==
    /\ Step1 /\ onb.scanning
    /\ \E found \in Scanned : onb' = [onb EXCEPT !.found = found]
    /\ UNCHANGED <<server, status, list, page, dlg, reqs, acts, history>>

HandleConnect(m) ==
    /\ Step1 /\ Acts
    /\ onb' = [onb EXCEPT !.mac = m]
    /\ Mutate([Request("connect") EXCEPT !.mac = m])
    /\ UNCHANGED <<server, status, list, page, dlg, history>>
\* The button of the device being connected stays enabled.
ClickDevice(m) ==
    /\ onb.found /\ (IsPending("connect") => onb.mac = m)
    /\ HandleConnect(m)
\* Quick Connect offers the saved headphone that comes first in the list.
Headphones == {k \in DOMAIN list.data : list.data[k].type = "headphone"}
QuickConnect ==
    \E k \in Headphones :
        /\ \A j \in Headphones : k <= j
        /\ ~IsPending("connect") /\ HandleConnect(list.data[k].mac)

-----------------------------------------------------------------------------
(* The settings page and its dialog.                                       *)

OnSettings(req) ==
    /\ page = "settings" /\ Acts /\ Mutate(req)
    /\ UNCHANGED <<server, status, list, page, onb, history>>
ClickReconnect(r) ==
    /\ ~IsPending("reconnect")
    /\ OnSettings([Request("reconnect") EXCEPT !.mac = r.mac]) /\ UNCHANGED dlg
ClickRemove(r) ==
    /\ ~IsPending("remove")
    /\ OnSettings([Request("remove") EXCEPT !.id = r.id]) /\ UNCHANGED dlg

InDialog ==
    /\ page = "settings"
    /\ UNCHANGED <<server, status, list, page, onb, reqs, acts, history>>
OpenDialog == InDialog /\ ~dlg.open /\ dlg' = Effect([dlg EXCEPT !.open = TRUE])
Choosing == InDialog /\ dlg.open /\ dlg.sel = None
ClickStopScan == Choosing /\ dlg.scanning /\ dlg' = StopScan(dlg)
ScanAgain == Choosing /\ ~dlg.scanning /\ dlg' = StartScan(dlg)
HandleSelectDevice(m) ==
    /\ Choosing /\ dlg.found
    /\ dlg' = Effect([StopScan(dlg) EXCEPT !.sel = m])
Configuring == InDialog /\ dlg.sel # None
Back == Configuring /\ dlg' = Effect([dlg EXCEPT !.sel = None])

ResetAndClose(d) ==
    Effect([StopScan(d) EXCEPT !.sel = None, !.found = FALSE, !.open = FALSE])
CloseDialog == InDialog /\ dlg.open /\ dlg' = ResetAndClose(dlg)
HandleSave ==
    /\ dlg.sel # None /\ dlg' = ResetAndClose(dlg)
    /\ \E t \in Types : OnSettings([Request("save") EXCEPT !.mac = dlg.sel, !.type = t])

\* Every 8 s another scan, after 3 minutes none; what a scan finds is merged
\* into whatever list there is when it answers; any number is in flight.
IntervalFires(t) ==
    /\ InDialog /\ t \in dlg.intervals /\ ~dlg.polling
    /\ dlg' = [dlg EXCEPT !.polling = TRUE]
TimeoutFires(t) ==
    /\ InDialog /\ t \in dlg.timeouts
    /\ dlg' = StopScan([dlg EXCEPT !.timeouts = @ \ {t}])
PollAnswers ==
    /\ InDialog /\ dlg.polling
    /\ \E found \in Scanned, more \in BOOLEAN :
        dlg' = [dlg EXCEPT !.polling = more, !.found = @ \/ found]

-----------------------------------------------------------------------------
(* Automatic recording.                                                    *)

InFlight(ops) == \E i \in DOMAIN reqs : reqs[i].op \in ops

\* The top bar sends the opposite of what it shows.
ClickSwitch ==
    /\ status.data.up /\ ~IsPending("autoRecord") /\ Acts
    /\ Mutate([Request("autoRecord") EXCEPT !.on = ~status.data.auto])
    /\ asked' = ~status.data.auto
    /\ Note(InFlight({"stop", "autoOff"}), "crossed")
    /\ UNCHANGED <<server, status, list, page, onb, dlg>>
\* The overlay, shown while there is a session, stops it and, when that is
\* answered, switches automatic recording off.
ClickStop ==
    /\ status.data.session /\ ~IsPending("stop") /\ Acts
    /\ Mutate(Request("stop"))
    /\ asked' = FALSE
    /\ Note(InFlight({"autoRecord"}), "crossed")
    /\ UNCHANGED <<server, status, list, page, onb, dlg>>

-----------------------------------------------------------------------------
(* The procedures.  A request is half served between its two effects.      *)

Serves(i, op, st) == reqs[i].op = op /\ reqs[i].st = st
To(i, st) == reqs' = [reqs EXCEPT ![i].st = st]
Serving == UNCHANGED <<nextId, status, list, page, onb, dlg, acts, history>>

\* bridgeApiCallSafe and bridgeApiCall: the daemon's step if it can be reached;
\* without it a call is done all the same, or else an error.
Safely(step) == IF bridge.up THEN step ELSE UNCHANGED bridge
\* The device is connected and becomes the headphone, or it is not.
Connects(m) == bridge' = [bridge EXCEPT !.head = m]

Foremost(s, i) == <<s[i]>> \o RemoveAt(s, i)
At(P(_)) == {i \in DOMAIN rows : P(rows[i])}
OfMac(m) == At(LAMBDA r : r.mac = m)
OfId(n) == At(LAMBDA r : r.id = n)

ServeConnect(i) ==
    /\ \E op \in {"connect", "reconnect"} : Serves(i, op, "sent")
    /\ \/ ~bridge.up /\ To(i, "error") /\ UNCHANGED bridge
       \/ bridge.up /\ Connects(reqs[i].mac) /\ To(i, "half")
       \/ bridge.up /\ To(i, "done") /\ UNCHANGED bridge
    /\ UNCHANGED rows /\ Serving
\* lastSeen of the row, if there is one.
TouchRow(i) ==
    /\ \E op \in {"connect", "reconnect"} : Serves(i, op, "half")
    /\ rows' = IF OfMac(reqs[i].mac) = {} THEN rows
               ELSE Foremost(rows, CHOOSE k \in OfMac(reqs[i].mac) : TRUE)
    /\ To(i, "done") /\ UNCHANGED bridge /\ Serving

\* The row is created or updated, then the device connected.
UpsertRow(i) ==
    /\ Serves(i, "save", "sent") /\ To(i, "half")
    /\ IF OfMac(reqs[i].mac) = {}
       THEN /\ rows' = <<[id |-> nextId, mac |-> reqs[i].mac, type |-> reqs[i].type]>> \o rows
            /\ nextId' = nextId + 1
       ELSE LET k == CHOOSE k \in OfMac(reqs[i].mac) : TRUE
            IN  /\ rows' = Foremost([rows EXCEPT ![k].type = reqs[i].type], k)
                /\ UNCHANGED nextId
    /\ UNCHANGED <<bridge, status, list, page, onb, dlg, acts, history>>
ConnectSaved(i) ==
    /\ Serves(i, "save", "half") /\ To(i, "done")
    /\ UNCHANGED bridge \/ Safely(Connects(reqs[i].mac))
    /\ UNCHANGED rows /\ Serving

\* The device of the row is removed from the daemon, then the row deleted,
\* which fails when it is gone.
Unpair(i) ==
    /\ Serves(i, "remove", "sent") /\ To(i, "half")
    /\ \/ UNCHANGED bridge
       \/ /\ OfId(reqs[i].id) # {} /\ bridge.head = rows[CHOOSE k \in OfId(reqs[i].id) : TRUE].mac
          /\ Safely(bridge' = [bridge EXCEPT !.head = None])
    /\ UNCHANGED rows /\ Serving
DeleteRow(i) ==
    /\ Serves(i, "remove", "half")
    /\ IF OfId(reqs[i].id) = {} THEN To(i, "error") /\ UNCHANGED rows
       ELSE /\ To(i, "done")
            /\ rows' = RemoveAt(rows, CHOOSE k \in OfId(reqs[i].id) : TRUE)
    /\ UNCHANGED bridge /\ Serving

\* BlueZ may refuse; neither that nor an absent daemon is an error.
SetDiscoverable(i) ==
    /\ Serves(i, "discoverable", "sent") /\ To(i, "done")
    /\ UNCHANGED bridge \/ Safely(bridge' = [bridge EXCEPT !.disc = reqs[i].on])
    /\ UNCHANGED rows /\ Serving
StopRecording(i) ==
    /\ Serves(i, "stop", "sent") /\ To(i, "done")
    /\ Safely(bridge' = [bridge EXCEPT !.session = FALSE])
    /\ UNCHANGED rows /\ Serving
SetAutoRecord(i) ==
    /\ \E op \in {"autoOff", "autoRecord"} : Serves(i, op, "sent")
    /\ To(i, "done")
    /\ Safely(bridge' = [bridge EXCEPT !.auto = reqs[i].on])
    /\ UNCHANGED rows /\ Serving

Serve(i) ==
    \/ ServeConnect(i) \/ TouchRow(i) \/ UpsertRow(i) \/ ConnectSaved(i)
    \/ Unpair(i) \/ DeleteRow(i) \/ SetDiscoverable(i) \/ StopRecording(i) \/ SetAutoRecord(i)

-----------------------------------------------------------------------------
(* The answers.                                                            *)

Done(i, op) == reqs[i].op = op /\ reqs[i].st = "done"
Without(i) == RemoveAt(reqs, i)
Closing == UNCHANGED <<server, page, dlg, acts, history>>

\* Mutant of Connected: the spinner goes only if the device was connected.
ConnectedIfDone(i) == IF reqs[i].st = "error" \/ reqs[i].of = "gone" THEN onb.mac ELSE None
\* onSuccess and onError end the spinner of the component that asked.
Connected(i) == IF reqs[i].of = "gone" THEN onb.mac ELSE None
ConnectAnswers(i) ==
    /\ reqs[i].op = "connect" /\ reqs[i].st \in {"done", "error"}
    /\ reqs' = Without(i) /\ onb' = [onb EXCEPT !.mac = Connected(i)]
    /\ status' = IF reqs[i].st = "done" THEN Refetch(status) ELSE status
    /\ UNCHANGED list /\ Closing

\* What the settings page asked for: both queries are invalidated.
SettingsAnswers(i) ==
    /\ \E op \in Owned("settings") : Done(i, op)
    /\ reqs' = Without(i)
    /\ status' = Refetch(status) /\ list' = Invalidate(list, ListObserved)
    /\ UNCHANGED onb /\ Closing
SettingsFails(i) ==
    /\ reqs[i].op \in Owned("settings") /\ reqs[i].st = "error"
    /\ reqs' = Without(i)
    /\ UNCHANGED <<status, list, onb>> /\ Closing

SilentlyAnswers(i) ==
    /\ \E op \in {"discoverable", "autoOff"} : Done(i, op)
    /\ reqs' = Without(i)
    /\ UNCHANGED <<status, list, onb>> /\ Closing
SwitchAnswers(i) ==
    /\ Done(i, "autoRecord") /\ reqs' = Without(i)
    /\ status' = Refetch(status)
    /\ UNCHANGED <<list, onb>> /\ Closing

\* Mutant of Stopped: automatic recording is left on.
StoppedOnly(i) == Without(i)
\* stopMutation.onSuccess, which also runs if the daemon was not reached.
Stopped(i) == Sent(Without(i), Request("autoOff"))
StopAnswers(i) ==
    /\ Done(i, "stop") /\ reqs' = Stopped(i)
    /\ status' = Refetch(status)
    /\ UNCHANGED <<list, onb>> /\ Closing

Answer(i) ==
    \/ ConnectAnswers(i) \/ SettingsAnswers(i) \/ SettingsFails(i)
    \/ SilentlyAnswers(i) \/ SwitchAnswers(i) \/ StopAnswers(i)

-----------------------------------------------------------------------------
(* The daemon by itself.                                                   *)

Becomes(b) == /\ bridge' = b
              /\ UNCHANGED <<rows, nextId, status, list, page, onb, dlg, reqs, asked>>
Runs(b) == bridge.up /\ Becomes(b) /\ UNCHANGED reason

BridgeStops == bridge.up /\ Acts /\ Becomes([Started EXCEPT !.up = FALSE]) /\ Note(TRUE, "down")
BridgeStarts == ~bridge.up /\ Becomes(Started) /\ UNCHANGED <<acts, reason>>
HeadphoneLeaves == bridge.head # None /\ Acts /\ Runs([bridge EXCEPT !.head = None])
SourceConnects == ~bridge.src /\ Acts /\ Runs([bridge EXCEPT !.src = TRUE])
SourceLeaves == bridge.src /\ Acts /\ Runs([bridge EXCEPT !.src = FALSE])
\* Touch starts a session, and one that is idle ends.
Records == /\ bridge.src /\ bridge.auto /\ ~bridge.session /\ Acts
           /\ Runs([bridge EXCEPT !.session = TRUE])
GoesIdle == bridge.session /\ Acts /\ Runs([bridge EXCEPT !.session = FALSE])

-----------------------------------------------------------------------------

User ==
    \/ \E p \in Pages, elapsed \in BOOLEAN : Go(p, elapsed)
    \/ ClickScan \/ QuickConnect \/ \E m \in Macs : ClickDevice(m)
    \/ \E i \in DOMAIN list.data :
        ClickReconnect(list.data[i]) \/ ClickRemove(list.data[i])
    \/ OpenDialog \/ ClickStopScan \/ ScanAgain \/ \E m \in Macs : HandleSelectDevice(m)
    \/ Back \/ CloseDialog \/ HandleSave
    \/ ClickSwitch \/ ClickStop
Browser ==
    \/ Poll \/ StatusArrives \/ ListArrives \/ ScanFinds
    \/ \E t \in Timers : IntervalFires(t) \/ TimeoutFires(t)
    \/ PollAnswers
    \/ \E i \in DOMAIN reqs : Answer(i)
Server == ReadStatus \/ ReadDevices \/ \E i \in DOMAIN reqs : Serve(i)
Daemon ==
    \/ BridgeStops \/ BridgeStarts \/ HeadphoneLeaves \/ SourceConnects \/ SourceLeaves
    \/ Records \/ GoesIdle

Next == User \/ Browser \/ Server \/ Daemon
Spec == Init /\ [][Next]_vars

-----------------------------------------------------------------------------
(* Properties.                                                             *)

(***************************************************************************)
(* One scanner: while the dialog says that it scans, it is open with no    *)
(* device chosen and has exactly one interval and the timeout that ends    *)
(* it; otherwise no timer is left, on whatever way the scan was ended:     *)
(* Stop, three minutes, a device chosen, Back, Save, the dialog or the     *)
(* page left.                                                              *)
(***************************************************************************)
OneScanner ==
    /\ dlg.intervals = dlg.timeouts
    /\ dlg.intervals = IF dlg.scanning THEN {dlg.ref} ELSE {}
    /\ dlg.scanning => page = "settings" /\ dlg.open /\ dlg.sel = None

(***************************************************************************)
(* A device of the onboarding shows a spinner, which disables the other    *)
(* buttons, only while a request of this onboarding to connect that device *)
(* is on its way, although a second click sends another one and the        *)
(* requests are answered in any order or fail.                             *)
(***************************************************************************)
SpinnerHasRequest ==
    onb.mac # None =>
        \E i \in DOMAIN reqs : /\ reqs[i].op = "connect" /\ reqs[i].mac = onb.mac
                         /\ reqs[i].of # "gone"

(***************************************************************************)
(* The daemon records automatically if and only if the user last asked     *)
(* for it, by the switch or by not stopping a session, as soon as nothing  *)
(* about it is on its way; unless the daemon was started anew or the user  *)
(* used the switch and the Stop button at the same time.                   *)
(***************************************************************************)
SwitchKept ==
    reason = "none" /\ ~InFlight({"stop", "autoOff", "autoRecord"})
        => bridge.auto = asked

=============================================================================
