--------------------------- MODULE SessionManager ---------------------------
(***************************************************************************)
(* The recording-session manager of the Go bridge daemon                   *)
(* (internal/session/session.go) together with the goroutines that call    *)
(* it: the recorders of internal/audio/pwcapture.go and internal/pw/hfp.go *)
(* (Touch), the idle watcher, the API handler of POST recording/stop and   *)
(* the end of main (endCurrentSession).                                    *)
(*                                                                         *)
(* Touch runs under Manager.mu and is one step.  endCurrentSession takes   *)
(* the locks several times and is one step per critical section, so other  *)
(* goroutines run between its steps.                                       *)
(***************************************************************************)
EXTENDS Integers, FiniteSets

CONSTANTS
  Recorders,     \* goroutines that record with pw-cat (captures, calls)
  Handlers,      \* goroutines serving POST /api/v1/recording/stop
  Watcher,       \* the goroutine running RunIdleWatcher
  MaxSessions,   \* bound: sessions one behaviour may start
  MaxTime,       \* bound: the clock stops here
  IdleTimeout,   \* session.idle_timeout
  TickPeriod,    \* period of a recorder's keep-alive ticker
  Slack          \* how late a due ticker may be served

ASSUME WatcherAssumption == Watcher \notin Handlers
ASSUME BoundsAssumption  == MaxSessions \in Nat /\ MaxTime \in Nat
ASSUME TimingAssumption  == /\ IdleTimeout \in Nat \ {0}
                            /\ TickPeriod \in Nat \ {0}
                            /\ Slack \in Nat

VARIABLES
  current,     \* Manager.current
  autoRecord,  \* Manager.autoRecord
  nStarted,    \* sessions started so far; they are numbered from 1
  lastAudio,   \* Session.lastAudio
  closed,      \* the sessions with Session.closed set
  reports,     \* times onEnd was called with each session
  now,         \* the clock
  phase,       \* of the process
  recPc,       \* where each recorder is in its Run
  into,        \* the session whose directory a recorder's file is in
  due,         \* when a recorder's ticker fires next
  endPc,       \* where each ender is in endCurrentSession
  held,        \* the ender's local variable sess
  draining     \* the idle watcher has seen the done channel closed

managerVars == <<current, autoRecord, nStarted, lastAudio, closed, reports>>
recorderVars == <<recPc, into, due>>
enderVars == <<endPc, held, draining>>
vars == <<managerVars, now, phase, recorderVars, enderVars>>

Session == 1 .. MaxSessions
NoSession == 0
Enders == Handlers \union {Watcher}

Up == phase \in {"running", "stopping"}

\* m.current != nil && !m.current.closed
Live == current # NoSession /\ current \notin closed

Init ==
  /\ current = NoSession
  /\ autoRecord = TRUE
  /\ nStarted = 0
  /\ lastAudio = [s \in Session |-> 0]
  /\ closed = {}
  /\ reports = [s \in Session |-> 0]
  /\ now = 0
  /\ phase = "running"
  /\ recPc = [r \in Recorders |-> "off"]
  /\ into = [r \in Recorders |-> NoSession]
  /\ due = [r \in Recorders |-> 0]
  /\ endPc = [e \in Enders |-> "rest"]
  /\ held = [e \in Enders |-> NoSession]
  /\ draining = FALSE

-----------------------------------------------------------------------------
(* Touch: it refreshes the live session, starts one, fails to make its     *)
(* directory, or returns nil because automatic recording is off.           *)

\* Mutant: the session in use is returned, its lastAudio left alone.
TouchKeepsStale == Live /\ UNCHANGED managerVars

TouchKeeps ==
  /\ Live
  /\ lastAudio' = [lastAudio EXCEPT ![current] = now]
  /\ UNCHANGED <<current, autoRecord, nStarted, closed, reports>>

TouchStarts ==
  /\ ~Live
  /\ autoRecord
  /\ nStarted < MaxSessions
  /\ nStarted' = nStarted + 1
  /\ current' = nStarted + 1
  /\ lastAudio' = [lastAudio EXCEPT ![nStarted + 1] = now]
  /\ UNCHANGED <<autoRecord, closed, reports>>

TouchFails == ~Live /\ autoRecord /\ UNCHANGED managerVars

TouchNil == ~Live /\ ~autoRecord /\ UNCHANGED managerVars

-----------------------------------------------------------------------------
(* Recorders *)

\* onTransportAcquire or startCall starts the goroutine.
Launch(r) ==
  /\ phase = "running"
  /\ recPc[r] = "off"
  /\ recPc' = [recPc EXCEPT ![r] = "touch"]
  /\ UNCHANGED <<managerVars, now, phase, into, due, enderVars>>

\* No PipeWire node appears, or the context is cancelled while waiting for it.
NodeNotFound(r) ==
  /\ Up
  /\ recPc[r] = "touch"
  /\ recPc' = [recPc EXCEPT ![r] = "off"]
  /\ UNCHANGED <<managerVars, now, phase, into, due, enderVars>>

\* Touch returns a session; its directory receives the file, the ticker starts.
FirstTouch(r) ==
  /\ Up
  /\ recPc[r] = "touch"
  /\ TouchKeeps \/ TouchStarts
  /\ recPc' = [recPc EXCEPT ![r] = "recording"]
  /\ into' = [into EXCEPT ![r] = current']
  /\ due' = [due EXCEPT ![r] = now + TickPeriod]
  /\ UNCHANGED <<now, phase, enderVars>>

\* pw-cat cannot be started: the session has been touched for nothing.
PwCatFails(r) ==
  /\ Up
  /\ recPc[r] = "touch"
  /\ TouchKeeps \/ TouchStarts
  /\ recPc' = [recPc EXCEPT ![r] = "off"]
  /\ UNCHANGED <<now, phase, into, due, enderVars>>

\* Touch returns an error, and Run returns.
FirstTouchFails(r) ==
  /\ Up
  /\ recPc[r] = "touch"
  /\ TouchFails
  /\ recPc' = [recPc EXCEPT ![r] = "off"]
  /\ UNCHANGED <<now, phase, into, due, enderVars>>

\* Touch returns a nil session and no error: sess.Dir panics, and an
\* unrecovered panic in a goroutine ends the daemon.
FirstTouchNil(r) ==
  /\ Up
  /\ recPc[r] = "touch"
  /\ TouchNil
  /\ phase' = "crashed"
  /\ UNCHANGED <<now, recorderVars, enderVars>>

\* The ticker case of the select: the result of Touch is dropped.
TickTouch(r) ==
  /\ Up
  /\ recPc[r] = "recording"
  /\ due[r] <= now
  /\ TouchKeeps \/ TouchStarts \/ TouchFails \/ TouchNil
  /\ due' = [due EXCEPT ![r] = @ + TickPeriod]
  /\ UNCHANGED <<now, phase, recPc, into, enderVars>>

\* done is closed, the context is cancelled or pw-cat exits.
Finish(r) ==
  /\ Up
  /\ recPc[r] = "recording"
  /\ recPc' = [recPc EXCEPT ![r] = "off"]
  /\ into' = [into EXCEPT ![r] = NoSession]
  /\ due' = [due EXCEPT ![r] = 0]
  /\ UNCHANGED <<managerVars, now, phase, enderVars>>

-----------------------------------------------------------------------------
(* The idle watcher *)

\* Mutant: the age of the session is compared with a limit it never reaches.
WatchAgeNever ==
  /\ Up
  /\ endPc[Watcher] = "age"
  /\ endPc' = [endPc EXCEPT ![Watcher] = "rest"]
  /\ UNCHANGED <<managerVars, now, phase, recorderVars, held, draining>>

\* checkIdle reads the current session, unlocks, and goes on if it is open.
WatchTick ==
  /\ Up
  /\ endPc[Watcher] = "rest"
  /\ Live
  /\ endPc' = [endPc EXCEPT ![Watcher] = "age"]
  /\ held' = [held EXCEPT ![Watcher] = current]
  /\ UNCHANGED <<managerVars, now, phase, recorderVars, draining>>

\* It then reads that session's lastAudio, under the session's own lock.
WatchAge ==
  /\ Up
  /\ endPc[Watcher] = "age"
  /\ endPc' = [endPc EXCEPT ![Watcher] =
                 IF now - lastAudio[held[Watcher]] >= IdleTimeout THEN "begin" ELSE "rest"]
  /\ UNCHANGED <<managerVars, now, phase, recorderVars, held, draining>>

\* The done case of the select: the last endCurrentSession of the watcher.
WatchDone ==
  /\ phase = "stopping"
  /\ endPc[Watcher] = "rest"
  /\ endPc' = [endPc EXCEPT ![Watcher] = "begin"]
  /\ draining' = TRUE
  /\ UNCHANGED <<managerVars, now, phase, recorderVars, held>>

-----------------------------------------------------------------------------
(* endCurrentSession, run by the watcher and by the API handlers *)

StopRequest(h) ==
  /\ Up
  /\ endPc[h] = "rest"
  /\ endPc' = [endPc EXCEPT ![h] = "begin"]
  /\ UNCHANGED <<managerVars, now, phase, recorderVars, held, draining>>

\* Where an ender goes when endCurrentSession returns.
Return(e) == IF e = Watcher /\ draining THEN "off" ELSE "rest"

\* Mutants: closed is never written; the callback is skipped; current is kept.
EndCloseForgotten(e) ==
  /\ Up
  /\ endPc[e] = "close"
  /\ endPc' = [endPc EXCEPT ![e] = "report"]
  /\ UNCHANGED <<managerVars, now, phase, recorderVars, held, draining>>

EndReportSkipped(e) ==
  /\ Up
  /\ endPc[e] = "report"
  /\ endPc' = [endPc EXCEPT ![e] = "forget"]
  /\ UNCHANGED <<managerVars, now, phase, recorderVars, held, draining>>

EndForgetKeeps(e) ==
  /\ Up
  /\ endPc[e] = "forget"
  /\ endPc' = [endPc EXCEPT ![e] = Return(e)]
  /\ held' = [held EXCEPT ![e] = NoSession]
  /\ UNCHANGED <<managerVars, now, phase, recorderVars, draining>>

\* Read current under the lock; return if there is none or it is closed.
EndBegin(e) ==
  /\ Up
  /\ endPc[e] = "begin"
  /\ endPc' = [endPc EXCEPT ![e] = IF Live THEN "close" ELSE Return(e)]
  /\ held' = [held EXCEPT ![e] = IF Live THEN current ELSE NoSession]
  /\ UNCHANGED <<managerVars, now, phase, recorderVars, draining>>

EndClose(e) ==
  /\ Up
  /\ endPc[e] = "close"
  /\ closed' = closed \union {held[e]}
  /\ endPc' = [endPc EXCEPT ![e] = "report"]
  /\ UNCHANGED <<current, autoRecord, nStarted, lastAudio, reports,
                 now, phase, recorderVars, held, draining>>

EndReport(e) ==
  /\ Up
  /\ endPc[e] = "report"
  /\ reports' = [reports EXCEPT ![held[e]] = @ + 1]
  /\ endPc' = [endPc EXCEPT ![e] = "forget"]
  /\ UNCHANGED <<current, autoRecord, nStarted, lastAudio, closed,
                 now, phase, recorderVars, held, draining>>

\* current is cleared whichever session it holds by now.
EndForget(e) ==
  /\ Up
  /\ endPc[e] = "forget"
  /\ current' = NoSession
  /\ endPc' = [endPc EXCEPT ![e] = Return(e)]
  /\ held' = [held EXCEPT ![e] = NoSession]
  /\ UNCHANGED <<autoRecord, nStarted, lastAudio, closed, reports,
                 now, phase, recorderVars, draining>>

-----------------------------------------------------------------------------
(* The toggle of the web page, the process and the clock *)

SetAutoRecord(enabled) ==
  /\ Up
  /\ autoRecord' = enabled
  /\ UNCHANGED <<current, nStarted, lastAudio, closed, reports,
                 now, phase, recorderVars, enderVars>>

\* main closes the done channel ...
Shutdown ==
  /\ phase = "running"
  /\ phase' = "stopping"
  /\ UNCHANGED <<managerVars, now, recorderVars, enderVars>>

\* ... and returns without waiting for the watcher or the recorders.
Exit ==
  /\ phase = "stopping"
  /\ phase' = "exited"
  /\ UNCHANGED <<managerVars, now, recorderVars, enderVars>>

\* Time passes, but a due ticker is served within Slack.
Elapse ==
  /\ Up
  /\ now < MaxTime
  /\ \A r \in Recorders : recPc[r] = "recording" => now < due[r] + Slack
  /\ now' = now + 1
  /\ UNCHANGED <<managerVars, phase, recorderVars, enderVars>>

EndStep(e) == EndBegin(e) \/ EndClose(e) \/ EndReport(e) \/ EndForget(e)

WatchStep == WatchTick \/ WatchAge \/ WatchDone

Next ==
  \/ \E r \in Recorders :
       \/ Launch(r) \/ NodeNotFound(r) \/ FirstTouch(r) \/ PwCatFails(r)
       \/ FirstTouchFails(r) \/ FirstTouchNil(r) \/ TickTouch(r) \/ Finish(r)
  \/ \E h \in Handlers : StopRequest(h)
  \/ WatchStep
  \/ \E e \in Enders : EndStep(e)
  \/ \E enabled \in BOOLEAN : SetAutoRecord(enabled)
  \/ Shutdown
  \/ Exit
  \/ Elapse

\* The watcher's ticker and a goroutine inside endCurrentSession keep running;
\* nothing makes audio, requests or a shutdown happen.
Fairness == WF_vars(WatchStep) /\ \A e \in Enders : WF_vars(EndStep(e))

Spec == Init /\ [][Next]_vars /\ Fairness

-----------------------------------------------------------------------------
(* Properties *)

\* Every variable has its type.
TypeOK ==
  /\ nStarted \in 0 .. MaxSessions
  /\ current \in Session \union {NoSession}
  /\ autoRecord \in BOOLEAN
  /\ lastAudio \in [Session -> Nat]
  /\ closed \in SUBSET Session
  /\ reports \in [Session -> Nat]
  /\ now \in Nat
  /\ phase \in {"running", "stopping", "exited", "crashed"}
  /\ recPc \in [Recorders -> {"off", "touch", "recording"}]
  /\ into \in [Recorders -> Session \union {NoSession}]
  /\ due \in [Recorders -> Nat]
  /\ endPc \in [Enders -> {"rest", "off", "age", "begin", "close", "report", "forget"}]
  /\ held \in [Enders -> Session \union {NoSession}]
  /\ draining \in BOOLEAN

\* A closed session is still Manager.current only while the goroutine that
\* closed it has yet to clear it: no closed session stays current for good,
\* where Touch and handleStatus would keep finding it (session.go:153-176).
ClosedCurrentHasEnder ==
  current \in closed =>
    \E e \in Enders : endPc[e] \in {"report", "forget"} /\ held[e] = current

\* While a recorder is recording, the session Touch keeps alive is never old
\* enough for the idle watcher to end it: "Touch the session to prevent idle
\* timeout while recording" (pwcapture.go:107).
KeptAlive ==
  \A r \in Recorders :
    recPc[r] = "recording" /\ Live => now - lastAudio[current] < IdleTimeout

\* An open session stops being current only when an ender that had taken an
\* earlier session clears the field late: a session is never dropped unclosed
\* by the ender that took it, by a Touch or by the toggle (session.go:173-175).
OpenLostOnlyToLateEnder ==
  [][Live /\ current' # current =>
       \E e \in Enders : endPc[e] = "forget" /\ held[e] \notin {current, NoSession}]_vars

\* Every session that is closed is handed to the OnSessionEnd callback, unless
\* the process goes away first.
ClosedIsReported ==
  \A s \in Session : s \in closed ~> (reports[s] > 0 \/ ~Up)

\* An idle current session ends unless audio arrives or another ender clears
\* it, until shutdown: "Ends after idle_timeout of no Touch() calls"
\* (architecture.md:126).
IdleEnds ==
  \A s \in Session :
    (current = s /\ now - lastAudio[s] >= IdleTimeout)
      ~> (\/ s \in closed \/ current # s \/ now - lastAudio[s] < IdleTimeout
              \/ phase # "running")

=============================================================================
