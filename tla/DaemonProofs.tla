---------------------------- MODULE DaemonProofs ----------------------------
(***************************************************************************)
(* Proofs about three parts of the bridge daemon that share no state: the  *)
(* session manager, the call router and the log. Each is proved for any    *)
(* values of its own constants.                                            *)
(***************************************************************************)
EXTENDS SessionManager, CallRouting, LogRotation, TLAPS

-----------------------------------------------------------------------------
(* The session manager, for any number of goroutines and sessions.         *)

\* An ender between taking a session and clearing the field holds one, which
\* is closed from its EndClose on; so does the watcher while it reads the age.
Held ==
  \A e \in Enders :
    /\ endPc[e] \in {"age", "close", "report", "forget"} => held[e] # NoSession
    /\ endPc[e] \in {"report", "forget"} => held[e] \in closed

\* Numbers are handed out in order: the next one has been used by nobody.
Issued ==
  /\ current <= nStarted
  /\ \A s \in closed : s <= nStarted
  /\ \A e \in Enders : held[e] <= nStarted

\* A recorder's ticker is never later than Slack, and the live session has
\* been touched since the tick before the one that is due.
Ticking ==
  \A r \in Recorders :
    recPc[r] = "recording" =>
      /\ now <= due[r] + Slack
      /\ due[r] <= now + TickPeriod
      /\ Live => lastAudio[current] >= due[r] - TickPeriod

\* Whatever Touch does, the manager's fields keep their types, and nothing is
\* closed, reported or toggled.
LEMMA TouchTypes ==
  ASSUME TypeOK, TouchKeeps \/ TouchStarts \/ TouchFails \/ TouchNil
  PROVE  /\ nStarted' \in 0 .. MaxSessions
         /\ current' \in Session \union {NoSession}
         /\ lastAudio' \in [Session -> Nat]
         /\ UNCHANGED <<autoRecord, closed, reports>>
<1> USE BoundsAssumption DEF TypeOK, Session, NoSession
<1>1. CASE TouchKeeps
  BY <1>1 DEF TouchKeeps, Live
<1>2. CASE TouchStarts
  BY <1>2 DEF TouchStarts
<1>3. CASE TouchFails \/ TouchNil
  BY <1>3 DEF TouchFails, TouchNil, managerVars
<1>4. QED
  BY <1>1, <1>2, <1>3

LEMMA TypeInit == Init => TypeOK /\ Held
<1> SUFFICES ASSUME Init PROVE TypeOK /\ Held
  OBVIOUS
<1> USE BoundsAssumption DEF Init, Session, NoSession
<1>1. Held
  BY DEF Held
<1>2. TypeOK
  <2>1. lastAudio \in [Session -> Nat] /\ reports \in [Session -> Nat]
    OBVIOUS
  <2>2. into \in [Recorders -> Session \union {NoSession}] /\ due \in [Recorders -> Nat]
    OBVIOUS
  <2>3. held \in [Enders -> Session \union {NoSession}]
    OBVIOUS
  <2>4. recPc \in [Recorders -> {"off", "touch", "recording"}]
    OBVIOUS
  <2>5. endPc \in [Enders -> {"rest", "off", "age", "begin", "close", "report", "forget"}]
    OBVIOUS
  <2>6. nStarted \in 0 .. MaxSessions /\ now \in Nat
    OBVIOUS
  <2>7. QED
    BY <2>1, <2>2, <2>3, <2>4, <2>5, <2>6, Zenon DEF TypeOK
<1>3. QED
  BY <1>1, <1>2

\* The type invariant is inductive together with Held.
LEMMA TypeStep == TypeOK /\ Held /\ [Next]_vars => TypeOK' /\ Held'
<1> SUFFICES ASSUME TypeOK, Held, [Next]_vars PROVE TypeOK' /\ Held'
  OBVIOUS
<1> USE BoundsAssumption, TimingAssumption
    DEF TypeOK, Held, Session, NoSession, Live, Up, managerVars, recorderVars, enderVars
<1>1. ASSUME NEW r \in Recorders, Launch(r) \/ NodeNotFound(r) PROVE TypeOK' /\ Held'
  BY <1>1 DEF Launch, NodeNotFound
<1>2. ASSUME NEW r \in Recorders, FirstTouch(r) PROVE TypeOK' /\ Held'
  <2>1. /\ TouchKeeps \/ TouchStarts
        /\ recPc' = [recPc EXCEPT ![r] = "recording"]
        /\ into' = [into EXCEPT ![r] = current']
        /\ due' = [due EXCEPT ![r] = now + TickPeriod]
        /\ UNCHANGED <<now, phase, enderVars>>
    BY <1>2, Zenon DEF FirstTouch
  <2>2. /\ nStarted' \in 0 .. MaxSessions
        /\ current' \in Session \union {NoSession}
        /\ lastAudio' \in [Session -> Nat]
        /\ UNCHANGED <<autoRecord, closed, reports>>
    BY <2>1, TouchTypes
  <2>3. due' \in [Recorders -> Nat] /\ into' \in [Recorders -> Session \union {NoSession}]
    BY <2>1, <2>2
  <2>4. Held' /\ endPc' = endPc /\ held' = held
    BY <2>1, <2>2
  <2>5. QED
    BY <2>1, <2>2, <2>3, <2>4
<1>3. ASSUME NEW r \in Recorders, FirstTouchFails(r) PROVE TypeOK' /\ Held'
  BY <1>3 DEF FirstTouchFails, TouchFails
<1>21. ASSUME NEW r \in Recorders, PwCatFails(r) PROVE TypeOK' /\ Held'
  <2>1. /\ TouchKeeps \/ TouchStarts
        /\ recPc' = [recPc EXCEPT ![r] = "off"]
        /\ UNCHANGED <<now, phase, into, due, enderVars>>
    BY <1>21, Zenon DEF PwCatFails
  <2>2. /\ nStarted' \in 0 .. MaxSessions
        /\ current' \in Session \union {NoSession}
        /\ lastAudio' \in [Session -> Nat]
        /\ UNCHANGED <<autoRecord, closed, reports>>
    BY <2>1, TouchTypes
  <2>3. QED
    BY <2>1, <2>2
<1>4. ASSUME NEW r \in Recorders, FirstTouchNil(r) PROVE TypeOK' /\ Held'
  BY <1>4 DEF FirstTouchNil, TouchNil
<1>5. ASSUME NEW r \in Recorders, TickTouch(r) PROVE TypeOK' /\ Held'
  <2>1. /\ TouchKeeps \/ TouchStarts \/ TouchFails \/ TouchNil
        /\ due' = [due EXCEPT ![r] = @ + TickPeriod]
        /\ UNCHANGED <<now, phase, recPc, into, enderVars>>
    BY <1>5, Zenon DEF TickTouch
  <2>2. /\ nStarted' \in 0 .. MaxSessions
        /\ current' \in Session \union {NoSession}
        /\ lastAudio' \in [Session -> Nat]
        /\ UNCHANGED <<autoRecord, closed, reports>>
    BY <2>1, TouchTypes
  <2>3. due' \in [Recorders -> Nat] /\ into' \in [Recorders -> Session \union {NoSession}]
    BY <2>1, <2>2
  <2>4. Held' /\ endPc' = endPc /\ held' = held
    BY <2>1, <2>2
  <2>5. QED
    BY <2>1, <2>2, <2>3, <2>4
<1>6. ASSUME NEW r \in Recorders, Finish(r) PROVE TypeOK' /\ Held'
  BY <1>6 DEF Finish
<1>7. ASSUME NEW h \in Handlers, StopRequest(h) PROVE TypeOK' /\ Held'
  BY <1>7 DEF StopRequest, Enders
<1>8. CASE WatchTick
  BY <1>8 DEF WatchTick, Enders
<1>9. CASE WatchAge
  BY <1>9 DEF WatchAge, Enders
<1>10. CASE WatchDone
  BY <1>10 DEF WatchDone, Enders
<1>11. ASSUME NEW e \in Enders, EndBegin(e) PROVE TypeOK' /\ Held'
  BY <1>11 DEF EndBegin, Return
<1>12. ASSUME NEW e \in Enders, EndClose(e) PROVE TypeOK' /\ Held'
  BY <1>12 DEF EndClose
<1>13. ASSUME NEW e \in Enders, EndReport(e) PROVE TypeOK' /\ Held'
  <2>1. held[e] \in Session
    BY <1>13 DEF EndReport
  <2>2. reports' \in [Session -> Nat]
    BY <1>13, <2>1 DEF EndReport
  <2>3. QED
    BY <1>13, <2>2 DEF EndReport
<1>14. ASSUME NEW e \in Enders, EndForget(e) PROVE TypeOK' /\ Held'
  BY <1>14 DEF EndForget, Return
<1>15. ASSUME NEW enabled \in BOOLEAN, SetAutoRecord(enabled) PROVE TypeOK' /\ Held'
  BY <1>15 DEF SetAutoRecord
<1>16. CASE Shutdown
  BY <1>16 DEF Shutdown
<1>17. CASE Exit
  BY <1>17 DEF Exit
<1>18. CASE Elapse
  BY <1>18 DEF Elapse
<1>19. CASE UNCHANGED vars
  BY <1>19 DEF vars
<1>20. QED
  BY <1>1, <1>2, <1>3, <1>4, <1>5, <1>6, <1>7, <1>8, <1>9, <1>10, <1>11, <1>12,
     <1>13, <1>14, <1>15, <1>16, <1>17, <1>18, <1>19, <1>21
     DEF Next, WatchStep, EndStep

\* Type correctness, for every value of the constants.
THEOREM TypeCorrect == Spec => [](TypeOK /\ Held)
  BY TypeInit, TypeStep, PTL DEF Spec
-----------------------------------------------------------------------------
(* A closed session stays current only while the ender that closed it has  *)
(* yet to clear it.                                                        *)

\* A Touch hands out a new number or changes none, so a current session that
\* is closed afterwards was current and closed before.
LEMMA TouchCurrent ==
  ASSUME TypeOK, Issued, TouchKeeps \/ TouchStarts \/ TouchFails \/ TouchNil
  PROVE  /\ nStarted <= nStarted' /\ current' <= nStarted' /\ closed' = closed
         /\ current' \in closed => current' = current
  BY BoundsAssumption DEF TypeOK, Issued, Session, NoSession, TouchKeeps, TouchStarts,
     TouchFails, TouchNil, managerVars

\* ClosedCurrentHasEnder is inductive together with Issued: only EndClose makes
\* the current session closed, and its ender then holds it; only EndForget takes
\* such an ender away, and it clears the field.
LEMMA EnderStep ==
  TypeOK /\ Held /\ Issued /\ ClosedCurrentHasEnder /\ [Next]_vars
    => Issued' /\ ClosedCurrentHasEnder'
<1> SUFFICES ASSUME TypeOK, Held, Issued, ClosedCurrentHasEnder, [Next]_vars
             PROVE  Issued' /\ ClosedCurrentHasEnder'
  OBVIOUS
<1>1. ASSUME NEW r \in Recorders, FirstTouch(r) \/ PwCatFails(r) \/ TickTouch(r)
      PROVE  Issued' /\ ClosedCurrentHasEnder'
  <2>1. /\ TouchKeeps \/ TouchStarts \/ TouchFails \/ TouchNil
        /\ endPc' = endPc /\ held' = held
    BY <1>1, Zenon DEF FirstTouch, PwCatFails, TickTouch, enderVars
  <2>2. /\ nStarted <= nStarted' /\ current' <= nStarted' /\ closed' = closed
        /\ current' \in closed => current' = current
    BY <2>1, TouchCurrent
  <2>3. nStarted \in Nat /\ nStarted' \in Nat
    BY <2>1, TouchTypes, BoundsAssumption DEF TypeOK
  <2>4. \A s \in closed : s <= nStarted'
    BY <2>2, <2>3 DEF Issued, TypeOK, Session
  <2>5. \A e \in Enders : held[e] <= nStarted'
    BY <2>2, <2>3 DEF Issued, TypeOK, Session, NoSession
  <2>6. QED
    BY <2>1, <2>2, <2>4, <2>5 DEF Issued, ClosedCurrentHasEnder
<1>2. CASE UNCHANGED <<current, closed, nStarted, endPc, held>>
  BY <1>2 DEF Issued, ClosedCurrentHasEnder
<1>3. ASSUME NEW h \in Handlers, StopRequest(h)
      PROVE  Issued' /\ ClosedCurrentHasEnder'
  BY <1>3 DEF StopRequest, Issued, ClosedCurrentHasEnder, managerVars, TypeOK, Enders
<1>4. CASE WatchTick
  BY <1>4 DEF WatchTick, Issued, ClosedCurrentHasEnder, managerVars, TypeOK, Enders
<1>5. CASE WatchAge \/ WatchDone
  BY <1>5 DEF WatchAge, WatchDone, Issued, ClosedCurrentHasEnder, managerVars, TypeOK, Enders
<1>6. ASSUME NEW e \in Enders, EndBegin(e)
      PROVE  Issued' /\ ClosedCurrentHasEnder'
  BY <1>6, BoundsAssumption
     DEF EndBegin, Issued, ClosedCurrentHasEnder, managerVars, TypeOK, NoSession
<1>7. ASSUME NEW e \in Enders, EndClose(e)
      PROVE  Issued' /\ ClosedCurrentHasEnder'
  BY <1>7 DEF EndClose, Issued, ClosedCurrentHasEnder, managerVars, TypeOK
<1>8. ASSUME NEW e \in Enders, EndReport(e)
      PROVE  Issued' /\ ClosedCurrentHasEnder'
  BY <1>8 DEF EndReport, Issued, ClosedCurrentHasEnder, managerVars, TypeOK
<1>9. ASSUME NEW e \in Enders, EndForget(e)
      PROVE  Issued' /\ ClosedCurrentHasEnder'
  BY <1>9, BoundsAssumption
     DEF EndForget, Issued, ClosedCurrentHasEnder, managerVars, TypeOK, Session, NoSession
<1>10. QED
  BY <1>1, <1>2, <1>3, <1>4, <1>5, <1>6, <1>7, <1>8, <1>9
     DEF Next, WatchStep, EndStep, vars, managerVars, enderVars, recorderVars, Launch,
         NodeNotFound, FirstTouchFails, FirstTouchNil, TouchFails, TouchNil, Finish, SetAutoRecord,
         Shutdown, Exit, Elapse

\* ClosedCurrentHasEnder holds in every state, for every value of the constants.
THEOREM EnderPending == Spec => []ClosedCurrentHasEnder
<1>1. Init => Issued /\ ClosedCurrentHasEnder
  BY DEF Init, Issued, ClosedCurrentHasEnder, NoSession
<1>2. QED
  BY <1>1, TypeInit, TypeStep, EnderStep, PTL DEF Spec

-----------------------------------------------------------------------------
(* An open session leaves Manager.current only by a late EndForget.        *)

LEMMA OpenLostStep ==
  ASSUME TypeOK, Held, [Next]_vars, Live, current' # current
  PROVE  \E e \in Enders : endPc[e] = "forget" /\ held[e] \notin {current, NoSession}
<1>1. PICK e \in Enders : EndForget(e)
  BY DEF Next, WatchStep, EndStep, vars, managerVars, enderVars, recorderVars, Launch,
         NodeNotFound, PwCatFails, FirstTouch, FirstTouchFails, FirstTouchNil, TickTouch, TouchKeeps, TouchStarts,
         TouchFails, TouchNil, Finish, StopRequest, WatchTick, WatchAge, WatchDone,
         EndBegin, EndClose, EndReport, SetAutoRecord, Shutdown, Exit, Elapse
<1>2. endPc[e] = "forget" /\ held[e] \in closed /\ held[e] # NoSession
  BY <1>1 DEF EndForget, Held
<1>3. QED
  BY <1>1, <1>2 DEF Live

\* OpenLostOnlyToLateEnder holds of every step, for every value of the constants.
THEOREM OpenLost == Spec => OpenLostOnlyToLateEnder
<1>1. TypeOK /\ Held /\ [Next]_vars
        => [Live /\ current' # current =>
              \E e \in Enders : endPc[e] = "forget" /\ held[e] \notin {current, NoSession}]_vars
  BY OpenLostStep
<1>2. QED
  BY <1>1, TypeCorrect, PTL DEF Spec, OpenLostOnlyToLateEnder

-----------------------------------------------------------------------------
(* A recorder keeps the current session young.                             *)

\* After any Touch the current session, if it is open, was refreshed just now.
LEMMA TouchFresh ==
  ASSUME TypeOK, TouchKeeps \/ TouchStarts \/ TouchFails \/ TouchNil
  PROVE  Live' => lastAudio'[current'] = now
<1> USE BoundsAssumption DEF TypeOK, Session, NoSession, Live
<1>1. CASE TouchKeeps
  BY <1>1 DEF TouchKeeps
<1>2. CASE TouchStarts
  BY <1>2 DEF TouchStarts
<1>3. CASE TouchFails \/ TouchNil
  BY <1>3 DEF TouchFails, TouchNil, managerVars
<1>4. QED
  BY <1>1, <1>2, <1>3

\* No step makes a recorder's tickers later than Slack, and the steps that move
\* a due time, the clock or the current session keep the two in the same window.
LEMMA TickingStep == TypeOK /\ Ticking /\ [Next]_vars => Ticking'
<1> SUFFICES ASSUME TypeOK, Ticking, [Next]_vars PROVE Ticking'
  OBVIOUS
<1> USE TimingAssumption
<1>1. ASSUME NEW r \in Recorders, FirstTouch(r) PROVE Ticking'
  <2>1. /\ TouchKeeps \/ TouchStarts
        /\ recPc' = [recPc EXCEPT ![r] = "recording"]
        /\ due' = [due EXCEPT ![r] = now + TickPeriod]
        /\ now' = now
    BY <1>1, Zenon DEF FirstTouch
  <2>2. Live' => lastAudio'[current'] = now
    BY <2>1, TouchFresh
  <2>3. QED
    BY <2>1, <2>2 DEF TypeOK, Ticking
<1>9. ASSUME NEW r \in Recorders, PwCatFails(r) PROVE Ticking'
  <2>1. /\ TouchKeeps \/ TouchStarts
        /\ recPc' = [recPc EXCEPT ![r] = "off"]
        /\ due' = due /\ now' = now
    BY <1>9, Zenon DEF PwCatFails
  <2>2. Live' => lastAudio'[current'] = now
    BY <2>1, TouchFresh
  <2>3. QED
    BY <2>1, <2>2 DEF TypeOK, Ticking
<1>2. ASSUME NEW r \in Recorders, TickTouch(r) PROVE Ticking'
  <2>1. /\ TouchKeeps \/ TouchStarts \/ TouchFails \/ TouchNil
        /\ recPc[r] = "recording" /\ due[r] <= now
        /\ due' = [due EXCEPT ![r] = @ + TickPeriod]
        /\ recPc' = recPc /\ now' = now
    BY <1>2, Zenon DEF TickTouch
  <2>2. Live' => lastAudio'[current'] = now
    BY <2>1, TouchFresh
  <2>3. QED
    BY <2>1, <2>2 DEF TypeOK, Ticking
<1>3. ASSUME NEW r \in Recorders, Finish(r) PROVE Ticking'
  BY <1>3 DEF Finish, Ticking, TypeOK, managerVars, Live
<1>4. ASSUME NEW r \in Recorders,
             Launch(r) \/ NodeNotFound(r) \/ FirstTouchFails(r) \/ FirstTouchNil(r)
      PROVE  Ticking'
  BY <1>4 DEF Launch, NodeNotFound, FirstTouchFails, FirstTouchNil, TouchFails, TouchNil, Ticking,
     TypeOK, managerVars, recorderVars, Live
<1>5. ASSUME NEW e \in Enders, EndClose(e) \/ EndForget(e) PROVE Ticking'
  BY <1>5 DEF EndClose, EndForget, recorderVars, Ticking, Live
<1>6. CASE Elapse
  BY <1>6 DEF Elapse, managerVars, recorderVars, Ticking, Live, TypeOK
<1>7. CASE UNCHANGED <<current, closed, lastAudio, now, recorderVars>>
  BY <1>7 DEF recorderVars, Ticking, Live
<1>8. QED
  BY <1>1, <1>2, <1>3, <1>4, <1>5, <1>6, <1>7, <1>9
     DEF Next, WatchStep, EndStep, vars, managerVars, StopRequest, WatchTick, WatchAge,
         WatchDone, EndBegin, EndReport, SetAutoRecord, Shutdown, Exit

\* As long as the ticker, served late by at most Slack, beats the idle timeout,
\* the session a recorder keeps touching never looks idle to the watcher.
THEOREM KeptAliveHolds ==
  ASSUME TickPeriod + Slack < IdleTimeout
  PROVE  Spec => []KeptAlive
<1>1. Init => Ticking
  BY DEF Init, Ticking
<1>2. TypeOK /\ Ticking => KeptAlive
  <2> SUFFICES ASSUME TypeOK, Ticking, NEW r \in Recorders, recPc[r] = "recording", Live
               PROVE  now - lastAudio[current] < IdleTimeout
    BY DEF KeptAlive
  <2>1. now <= due[r] + Slack /\ lastAudio[current] >= due[r] - TickPeriod
    BY DEF Ticking
  <2>2. now \in Nat /\ due[r] \in Nat /\ lastAudio[current] \in Nat
    BY DEF TypeOK, Live
  <2>3. QED
    BY <2>1, <2>2, TimingAssumption
<1>3. QED
  BY <1>1, <1>2, TickingStep, TypeInit, TypeStep, PTL DEF Spec

-----------------------------------------------------------------------------
(* The call router, for any recordings and any number of lines.            *)

\* callCancel is set exactly during a call; startCall runs in one, whose
\* recording it has not launched yet; endCall's restoration comes after it, and
\* so does the end of Run, unless the context is done or pactl ended by itself.
CallHeld ==
  /\ inCall => call # None
  /\ ~inCall => call = None
  /\ run \in {"switch", "launch"} => inCall /\ recorder[call] = "off"
  /\ run \in {"warmup", "restore", "leave"} => ~inCall
  /\ run = "returned" /\ inCall => deserted \/ cancelled
  /\ deserted => run = "returned"

CallInv == CallTypeOK /\ CallHeld /\ HeadphoneHasCall /\ NoStrayRecording /\ MixerHasRecording

LEMMA CallInvInit == CallInit => CallInv
<1> SUFFICES ASSUME CallInit PROVE CallInv
  OBVIOUS
<1>1. CallTypeOK
  <2>1. lines \in 0 .. MaxLines
    BY LinesAssumption DEF CallInit
  <2>2. recorder \in [Recordings -> {"off", "load", "loaded", "ports", "find", "record", "unload"}]
    BY DEF CallInit
  <2>3. QED
    BY <2>1, <2>2 DEF CallInit, CallTypeOK
<1>2. CallHeld /\ HeadphoneHasCall
  BY DEF CallInit, CallHeld, HeadphoneHasCall
<1>3. NoStrayRecording /\ MixerHasRecording
  BY DEF CallInit, NoStrayRecording, MixerHasRecording
<1>4. QED
  BY <1>1, <1>2, <1>3 DEF CallInv

\* A line more or none: the count stays in its range.
LEMMA LineTyped ==
  ASSUME lines \in 0 .. MaxLines, subscribed \in BOOLEAN, Line
  PROVE  lines' \in 0 .. MaxLines /\ subscribed' \in BOOLEAN
BY LinesAssumption DEF Line

\* Changes in PipeWire, and the end of pactl, of time and of the context,
\* touch no call: only the context's end, which stops every recording.
LEMMA OutsideKeeps ==
  CallInv /\ (Environment \/ PactlEnds \/ RecentEnds \/ Cancel \/ MainReturns) => CallInv'
<1> SUFFICES ASSUME CallInv, Environment \/ PactlEnds \/ RecentEnds \/ Cancel \/ MainReturns
             PROVE  CallInv'
  OBVIOUS
<1> USE DEF CallInv, cards, pactl, router, recordings
<1>1. ASSUME NEW profile \in {"a2dp", "hfp"}, PhoneSwitches(profile) PROVE CallInv'
  <2>1. lines' \in 0 .. MaxLines /\ subscribed' \in BOOLEAN
    BY <1>1, LineTyped DEF PhoneSwitches, CallTypeOK
  <2>2. QED
    BY <1>1, <2>1 DEF PhoneSwitches, CallTypeOK, CallHeld, HeadphoneHasCall,
       NoStrayRecording, MixerHasRecording, Cancelled
<1>2. CASE HeadphoneGoes \/ HeadphoneComes
  <2>1. lines' \in 0 .. MaxLines /\ subscribed' \in BOOLEAN
    BY <1>2, LineTyped DEF HeadphoneGoes, HeadphoneComes, CallTypeOK
  <2>2. QED
    BY <1>2, <2>1 DEF HeadphoneGoes, HeadphoneComes, CallTypeOK, CallHeld, HeadphoneHasCall,
       NoStrayRecording, MixerHasRecording, Cancelled
<1>3. CASE OtherChange
  <2>1. lines' \in 0 .. MaxLines /\ subscribed' \in BOOLEAN
    BY <1>3, LineTyped DEF OtherChange, CallTypeOK
  <2>2. QED
    BY <1>3, <2>1 DEF OtherChange, CallTypeOK, CallHeld, HeadphoneHasCall,
       NoStrayRecording, MixerHasRecording, Cancelled
<1>4. CASE PactlEnds \/ RecentEnds \/ MainReturns
  <2>1. CallTypeOK'
    <3>1. CASE PactlEnds
      <4>1. /\ subscribed' \in BOOLEAN
            /\ UNCHANGED <<phone, headphone, lines, recent, run, seen, inCall, call, ended,
                           recorder, mixers, leaked, deserted, cancelled, exited>>
        BY <3>1 DEF PactlEnds
      <4>2. QED
        BY <4>1 DEF CallTypeOK
    <3>2. CASE RecentEnds
      <4>1. /\ recent' \in BOOLEAN
            /\ UNCHANGED <<phone, headphone, subscribed, lines, run, seen, inCall, call, ended,
                           recorder, mixers, leaked, deserted, cancelled, exited>>
        BY <3>2 DEF RecentEnds
      <4>2. QED
        BY <4>1 DEF CallTypeOK
    <3>3. CASE MainReturns
      BY <3>3 DEF MainReturns, CallTypeOK
    <3>4. QED
      BY <1>4, <3>1, <3>2, <3>3
  <2>2. UNCHANGED <<cards, run, inCall, call, ended, recordings, deserted, cancelled>>
    BY <1>4 DEF PactlEnds, RecentEnds, MainReturns
  <2>3. QED
    BY <2>1, <2>2 DEF CallHeld, HeadphoneHasCall, NoStrayRecording, MixerHasRecording,
       Cancelled
<1>5. CASE Cancel
  <2>1. CallTypeOK'
    BY <1>5 DEF Cancel, CallTypeOK
  <2>2. QED
    BY <1>5, <2>1 DEF Cancel, CallHeld, HeadphoneHasCall, NoStrayRecording,
       MixerHasRecording, Cancelled
<1>6. QED
  BY <1>1, <1>2, <1>3, <1>4, <1>5 DEF Environment

\* The steps of Run that change no call.
LEMMA ScanKeeps ==
  CallInv /\ (Subscribe \/ NoSubscription \/ DropLine \/ CheckLine \/ EndOfLines
             \/ Look \/ LookFails \/ NoChange \/ Leave)
    => CallInv'
<1> SUFFICES ASSUME CallInv,
                    Subscribe \/ NoSubscription \/ DropLine \/ CheckLine \/ EndOfLines
                      \/ Look \/ LookFails \/ NoChange \/ Leave
             PROVE  CallInv'
  OBVIOUS
<1> USE DEF cards, pactl, router, recordings
<1>1. lines' \in 0 .. MaxLines
  BY LinesAssumption DEF CallInv, CallTypeOK, Subscribe, NoSubscription, DropLine, CheckLine,
     EndOfLines, Look, LookFails, NoChange, Leave
<1>2. seen' \in BOOLEAN /\ subscribed' \in BOOLEAN /\ recent' \in BOOLEAN
  <2>1. CASE Look
    BY <2>1 DEF CallInv, CallTypeOK, Look
  <2>2. CASE ~Look
    BY <2>2 DEF CallInv, CallTypeOK, Subscribe, NoSubscription, DropLine, CheckLine,
       EndOfLines, LookFails, NoChange, Leave
  <2>3. QED
    BY <2>1, <2>2
<1>3. /\ run' \in {"scan", "check", "judge", "returned"}
      /\ run # "restore"
  BY DEF Subscribe, NoSubscription, DropLine, CheckLine, EndOfLines, Look, LookFails,
     NoChange, Leave
<1>4. /\ UNCHANGED <<cards, inCall, call, ended, recordings, cancelled, exited>>
      /\ run # "returned" /\ deserted' \in BOOLEAN
      /\ run' = "returned" /\ inCall => deserted' \/ cancelled
      /\ run' = "returned" \/ deserted' = deserted
  BY DEF Subscribe, NoSubscription, DropLine, CheckLine, EndOfLines, Look, LookFails,
     NoChange, Leave, CallInv, CallTypeOK, CallHeld
<1>5. CallTypeOK'
  BY <1>1, <1>2, <1>3, <1>4 DEF CallInv, CallTypeOK
<1>6. CallHeld' /\ HeadphoneHasCall'
  <2>1. inCall /\ run' = "returned" => deserted' \/ cancelled
    BY <1>4
  <2>2. CallHeld'
    BY <1>3, <1>4, <2>1 DEF CallInv, CallHeld
  <2>3. ~deserted
    BY <1>4 DEF CallInv, CallHeld
  <2>4. HeadphoneHasCall'
    BY <1>3, <1>4, <2>1, <2>3 DEF CallInv, HeadphoneHasCall
  <2>5. QED
    BY <2>2, <2>4
<1>7. NoStrayRecording' /\ MixerHasRecording'
  BY <1>4 DEF CallInv, NoStrayRecording, MixerHasRecording, Cancelled
<1>8. QED
  BY <1>5, <1>6, <1>7 DEF CallInv

\* endCall's part under the mutex: the recording of the call joins those that
\* were told to stop, and there is no current one.
LEMMA EndCallKeeps ==
  ASSUME CallInv, inCall, EndCall, UNCHANGED <<recordings, deserted, cancelled>>
  PROVE  ~inCall' /\ call' = None /\ ended' \in SUBSET Recordings
         /\ NoStrayRecording' /\ MixerHasRecording'
<1>1. call \in Recordings
  BY DEF CallInv, CallTypeOK, CallHeld
<1>2. QED
  BY <1>1 DEF EndCall, recordings, CallInv, CallTypeOK, NoStrayRecording, MixerHasRecording,
     Cancelled

\* startCall and endCall, with the switch of the headphone's card.
LEMMA CallKeeps ==
  CallInv /\ (StopCall \/ (\E g \in Recordings : StartCall(g)) \/ SwitchToHFP
             \/ SwitchToHFPFails \/ LaunchRecording \/ Restore \/ RestoreFails
             \/ LeaveInCall \/ LeaveRestored)
    => CallInv'
<1> SUFFICES ASSUME CallInv,
                    StopCall \/ (\E g \in Recordings : StartCall(g)) \/ SwitchToHFP
                      \/ SwitchToHFPFails \/ LaunchRecording \/ Restore \/ RestoreFails
                      \/ LeaveInCall \/ LeaveRestored
             PROVE  CallInv'
  OBVIOUS
<1> USE DEF cards, pactl, router, recordings
<1>1. CASE StopCall
  <2>1. EndCall /\ inCall /\ run = "judge" /\ run' = "restore"
        /\ UNCHANGED <<cards, pactl, recent, seen, recordings, deserted, cancelled, exited>>
    BY <1>1 DEF StopCall
  <2>2. ~inCall' /\ call' = None /\ ended' \in SUBSET Recordings
        /\ NoStrayRecording' /\ MixerHasRecording'
    BY <2>1, EndCallKeeps
  <2>3. inCall' \in BOOLEAN
    BY <2>1 DEF EndCall
  <2>4. QED
    BY <2>1, <2>2, <2>3 DEF CallInv, CallTypeOK, CallHeld, HeadphoneHasCall
<1>2. ASSUME NEW g \in Recordings, StartCall(g) PROVE CallInv'
  <2>1. /\ run = "judge" /\ ~inCall /\ recorder[g] = "off"
        /\ inCall' = TRUE /\ call' = g /\ ended' = ended \ {g} /\ run' = "switch"
        /\ UNCHANGED <<cards, pactl, recent, seen, recordings, deserted, cancelled, exited>>
    BY <1>2 DEF StartCall
  <2>2. CallTypeOK'
    BY <2>1 DEF CallInv, CallTypeOK
  <2>3. NoStrayRecording'
    <3>1. SUFFICES ASSUME NEW h \in Recordings, recorder'[h] # "off", h # call'
                   PROVE  Cancelled(h)'
      BY DEF NoStrayRecording
    <3>2. h # call /\ h # g
      BY <2>1, <3>1, RecordingsAssumption DEF CallInv, CallHeld
    <3>3. Cancelled(h)
      BY <2>1, <3>1, <3>2 DEF CallInv, NoStrayRecording
    <3>4. QED
      BY <2>1, <3>2, <3>3 DEF Cancelled
  <2>4. CallHeld' /\ HeadphoneHasCall' /\ MixerHasRecording'
    BY <2>1, RecordingsAssumption DEF CallInv, CallHeld, HeadphoneHasCall, MixerHasRecording
  <2>5. QED
    BY <2>2, <2>3, <2>4 DEF CallInv
<1>3. CASE SwitchToHFP \/ Restore
  <2>1. lines' \in 0 .. MaxLines /\ subscribed' \in BOOLEAN
    BY <1>3, LineTyped DEF SwitchToHFP, Restore, CallInv, CallTypeOK
  <2>2. CallTypeOK'
    BY <1>3, <2>1 DEF SwitchToHFP, Restore, CallInv, CallTypeOK
  <2>3. CallHeld' /\ HeadphoneHasCall'
    BY <1>3 DEF SwitchToHFP, Restore, CallInv, CallHeld, HeadphoneHasCall
  <2>4. NoStrayRecording' /\ MixerHasRecording'
    BY <1>3 DEF SwitchToHFP, Restore, CallInv, NoStrayRecording, MixerHasRecording, Cancelled
  <2>5. QED
    BY <2>2, <2>3, <2>4 DEF CallInv
<1>4. CASE SwitchToHFPFails \/ RestoreFails
  <2>1. CallTypeOK'
    BY <1>4 DEF SwitchToHFPFails, RestoreFails, CallInv, CallTypeOK
  <2>2. CallHeld' /\ HeadphoneHasCall'
    BY <1>4 DEF SwitchToHFPFails, RestoreFails, CallInv, CallHeld, HeadphoneHasCall
  <2>3. NoStrayRecording' /\ MixerHasRecording'
    BY <1>4 DEF SwitchToHFPFails, RestoreFails, CallInv, NoStrayRecording,
       MixerHasRecording, Cancelled
  <2>4. QED
    BY <2>1, <2>2, <2>3 DEF CallInv
<1>5. CASE LaunchRecording
  <2>1. /\ run = "launch" /\ run' = "scan"
        /\ recorder' = [recorder EXCEPT ![call] = "load"]
        /\ UNCHANGED <<cards, pactl, recent, seen, inCall, call, ended, mixers,
                       leaked, deserted, cancelled, exited>>
    BY <1>5 DEF LaunchRecording
  <2>2. CallTypeOK' /\ CallHeld' /\ HeadphoneHasCall'
    BY <2>1 DEF CallInv, CallTypeOK, CallHeld, HeadphoneHasCall
  <2>3. NoStrayRecording'
    BY <2>1 DEF CallInv, CallTypeOK, NoStrayRecording, Cancelled
  <2>4. MixerHasRecording'
    BY <2>1 DEF CallInv, CallTypeOK, CallHeld, MixerHasRecording
  <2>5. QED
    BY <2>2, <2>3, <2>4 DEF CallInv
<1>6. CASE LeaveInCall
  <2>1. EndCall /\ inCall /\ lines > 0 /\ lines' = lines - 1 /\ subscribed' = FALSE
        /\ run = "scan" /\ run' = "leave" /\ cancelled
        /\ UNCHANGED <<cards, recent, seen, recordings, deserted, cancelled, exited>>
    BY <1>6 DEF LeaveInCall
  <2>2. ~inCall' /\ call' = None /\ ended' \in SUBSET Recordings
        /\ NoStrayRecording' /\ MixerHasRecording'
    BY <2>1, EndCallKeeps
  <2>3. inCall' \in BOOLEAN
    BY <2>1 DEF EndCall
  <2>4. lines' \in 0 .. MaxLines
    BY <2>1, LinesAssumption DEF CallInv, CallTypeOK
  <2>5. QED
    BY <2>1, <2>2, <2>3, <2>4 DEF CallInv, CallTypeOK, CallHeld, HeadphoneHasCall
<1>7. CASE LeaveRestored
  BY <1>7 DEF LeaveRestored, CallInv, CallTypeOK, CallHeld, HeadphoneHasCall,
     NoStrayRecording, MixerHasRecording, Cancelled
<1>8. QED
  BY <1>1, <1>2, <1>3, <1>4, <1>5, <1>6, <1>7

\* A recording keeps its mixer until it unloads it or its load is killed, and
\* ends by itself only.
LEMMA RecordingKeeps ==
  ASSUME CallInv, NEW g \in Recordings, RecordStep(g)
  PROVE  CallInv'
<1> USE DEF CallInv, cards, pactl, router, recordings
<1>1. CASE LoadMixer(g) \/ Record(g)
  <2>1. lines' \in 0 .. MaxLines /\ subscribed' \in BOOLEAN
    BY <1>1, LineTyped DEF LoadMixer, Record, CallTypeOK
  <2>2. /\ recorder[g] # "off"
        /\ \/ recorder' = [recorder EXCEPT ![g] = "loaded"] /\ mixers' = mixers \union {g}
           \/ recorder' = [recorder EXCEPT ![g] = "record"] /\ mixers' = mixers
        /\ UNCHANGED <<cards, router, leaked, deserted, cancelled, exited>>
    BY <1>1 DEF LoadMixer, Record
  <2>3. CallTypeOK'
    BY <2>1, <2>2 DEF CallTypeOK
  <2>4. CallHeld' /\ HeadphoneHasCall' /\ NoStrayRecording' /\ MixerHasRecording'
    BY <2>2 DEF CallTypeOK, CallHeld, HeadphoneHasCall, NoStrayRecording, MixerHasRecording,
       Cancelled
  <2>5. QED
    BY <2>3, <2>4
<1>2. CASE ReadModule(g) \/ FallBack(g) \/ GiveUp(g) \/ PwCatExits(g)
  BY <1>2 DEF ReadModule, FallBack, GiveUp, PwCatExits, CallTypeOK, CallHeld, HeadphoneHasCall,
     NoStrayRecording, MixerHasRecording, Cancelled
<1>3. CASE UnloadMixer(g)
  <2>1. lines' \in 0 .. MaxLines /\ subscribed' \in BOOLEAN
    BY <1>3, LineTyped DEF UnloadMixer, CallTypeOK
  <2>2. /\ mixers' = mixers \ ({g} \ leaked) /\ recorder' = [recorder EXCEPT ![g] = "off"]
        /\ UNCHANGED <<cards, router, leaked, deserted, cancelled, exited>>
    BY <1>3 DEF UnloadMixer
  <2>3. QED
    BY <2>1, <2>2 DEF CallTypeOK, CallHeld, HeadphoneHasCall, NoStrayRecording,
       MixerHasRecording, Cancelled
<1>4. CASE LoadKilled(g)
  BY <1>4 DEF LoadKilled, CallTypeOK, CallHeld, HeadphoneHasCall, NoStrayRecording,
     MixerHasRecording, Cancelled
<1>5. QED
  BY <1>1, <1>2, <1>3, <1>4 DEF RecordStep

LEMMA CallInvStep == CallInv /\ [CallNext]_callVars => CallInv'
<1> SUFFICES ASSUME CallInv, [CallNext]_callVars PROVE CallInv'
  OBVIOUS
<1>1. CASE Environment \/ PactlEnds \/ RecentEnds \/ Cancel \/ MainReturns
  BY <1>1, OutsideKeeps
<1>2. CASE RunStep
  BY <1>2, ScanKeeps, CallKeeps DEF RunStep
<1>3. CASE \E g \in Recordings : RecordStep(g)
  BY <1>3, RecordingKeeps
<1>4. CASE UNCHANGED callVars
  BY <1>4 DEF callVars, cards, pactl, router, recordings, CallInv, CallTypeOK, CallHeld,
     HeadphoneHasCall, NoStrayRecording, MixerHasRecording, Cancelled
<1>5. QED
  BY <1>1, <1>2, <1>3, <1>4 DEF CallNext

-----------------------------------------------------------------------------

\* The inductive invariant holds in every reachable state.
THEOREM CallInvHolds == CallSpec => []CallInv
  BY CallInvInit, CallInvStep, PTL DEF CallSpec

\* Every variable has its type, for any recordings and number of lines.
THEOREM CallTypeCorrect == CallSpec => []CallTypeOK
  BY CallInvHolds, PTL DEF CallInv

\* The headphone is in the call profile only during a call that Run watches or
\* its restoration, unless Run returned in the call because pactl ended.
THEOREM HeadphoneCovered == CallSpec => []HeadphoneHasCall
  BY CallInvHolds, PTL DEF CallInv

\* No recording is left behind that nobody can cancel.
THEOREM RecordingsHeld == CallSpec => []NoStrayRecording
  BY CallInvHolds, PTL DEF CallInv

\* No null sink is left behind that nobody unloads, but for those whose load was
\* killed before their id was read.
THEOREM MixersHeld == CallSpec => []MixerHasRecording
  BY CallInvHolds, PTL DEF CallInv

-----------------------------------------------------------------------------
(* The log, for any limit, any number of backups and any records.          *)

\* A new log is newer than every log there is.
Known ==
  /\ base <= born
  /\ \A k \in Slots : backup[k] <= born

\* The bound on the logs leaves room for the one that is created next.
Room == base = 0 \/ pc \in {"remove", "shift", "move", "open"} => born < MaxLogs

\* fw.size is the length of the open file, which has room for the record that
\* is about to be appended unless it could not be moved away.
Measured ==
  /\ open => base # 0 /\ size = length
  /\ base = 0 => length = 0
  /\ pc \in {"remove", "shift", "move", "open"} => ~open
  /\ pc = "open" /\ base # 0 => stuck
  /\ pc = "append" /\ open /\ ~stuck => length + record <= MaxSize

\* The slot that rotate fills next is free, but for the last, whose log is the
\* oldest, and for those that a failed rename left behind.
Vacated ==
  /\ pc = "shift" => i >= 1
  /\ pc = "move" => i = 0
  /\ pc \in {"shift", "move"} /\ ~jammed => backup[i + 1] = 0 \/ i + 1 = MaxBackups

LogInv == LogTypeOK /\ Known /\ Room /\ Measured /\ NewestFirst /\ WithinLimit /\ Vacated

LEMMA LogInvInit == LogInit => LogInv
<1> SUFFICES ASSUME LogInit PROVE LogInv
  OBVIOUS
<1>1. LogTypeOK
  <2>1. 0 \in 0 .. MaxBackups - 1 /\ 0 \in 0 .. MaxSize /\ 1 \in Logs /\ 0 \in Logs
    BY BackupsAssumption, SizeAssumption DEF Logs
  <2>2. QED
    BY <2>1 DEF LogInit, LogTypeOK
<1>2. Known /\ Room /\ Measured /\ NewestFirst /\ WithinLimit /\ Vacated
  BY SizeAssumption DEF LogInit, Known, Room, Measured, NewestFirst, WithinLimit, Vacated
<1>3. QED
  BY <1>1, <1>2 DEF LogInv

\* The next slot to shift, or the move.
LEMMA NextShiftTyped ==
  ASSUME NEW k \in 0 .. MaxBackups - 1, NextShift(k)
  PROVE  i' \in 0 .. MaxBackups - 1 /\ pc' \in {"shift", "move"}
         /\ i' = k /\ (pc' = "shift" => k >= 1) /\ (pc' = "move" => k = 0)
BY BackupsAssumption DEF NextShift

\* Steps that change no file and no backup.
LEMMA WriteKeeps ==
  ASSUME LogInv, NEW n \in Sizes, WriteFitting(n) \/ WriteRotating(n)
  PROVE  LogInv'
<1>1. n \in 1 .. MaxSize
  BY SizeAssumption
<1>2. UNCHANGED <<base, length, backup, born, size, i, stuck, marred>> /\ record' = n
  BY DEF WriteFitting, WriteRotating, files, writer, history
<1>3. \/ pc' = "append" /\ UNCHANGED <<open, jammed>> /\ size + n <= MaxSize
      \/ pc' = "remove" /\ open' = FALSE /\ jammed' = FALSE
  BY DEF WriteFitting, WriteRotating, Fits, writer, history
<1>4. LogTypeOK'
  <2>1. open' \in BOOLEAN /\ jammed' \in BOOLEAN
    BY <1>3 DEF LogInv, LogTypeOK
  <2>2. pc' \in {"append", "remove"} /\ record' \in 0 .. MaxSize
    BY <1>1, <1>2, <1>3, SizeAssumption
  <2>3. QED
    BY <1>2, <2>1, <2>2 DEF LogInv, LogTypeOK
<1>5. Known' /\ NewestFirst' /\ WithinLimit' /\ Vacated'
  BY <1>2, <1>3 DEF LogInv, Known, NewestFirst, WithinLimit, Vacated
<1>6. Measured'
  BY <1>1, <1>2, <1>3, SizeAssumption DEF LogInv, LogTypeOK, Measured
<1>7. Room'
  BY <1>2 DEF LogInv, Room, WriteFitting, WriteRotating
<1>8. QED
  BY <1>4, <1>5, <1>6, <1>7 DEF LogInv

LEMMA AppendKeeps ==
  ASSUME LogInv, NEW n \in 0 .. MaxSize, Append(n)
  PROVE  LogInv'
<1>1. /\ pc = "append" /\ pc' = "idle" /\ n \in 0 .. record /\ (open \/ n = 0)
      /\ length' = length + n /\ size' = size + n
      /\ UNCHANGED <<base, backup, born, open, i, record, jammed, stuck, marred>>
  BY DEF Append, history
<1>2. LogTypeOK'
  BY <1>1, SizeAssumption DEF LogInv, LogTypeOK
<1>3. Known' /\ Room' /\ NewestFirst' /\ Vacated'
  BY <1>1 DEF LogInv, Known, Room, NewestFirst, Vacated
<1>4. Measured'
  BY <1>1, SizeAssumption DEF LogInv, LogTypeOK, Measured
<1>5. WithinLimit'
  BY <1>1, SizeAssumption DEF LogInv, LogTypeOK, Measured, WithinLimit
<1>6. QED
  BY <1>2, <1>3, <1>4, <1>5 DEF LogInv

\* The oldest backup goes, or does not.
LEMMA RemoveKeeps ==
  ASSUME LogInv, Remove \/ RemoveFails
  PROVE  LogInv'
<1>1. MaxBackups - 1 \in 0 .. MaxBackups - 1 /\ MaxBackups \in Slots
  BY BackupsAssumption DEF Slots
<1>2. /\ pc = "remove" /\ NextShift(MaxBackups - 1)
      /\ \/ backup' = [backup EXCEPT ![MaxBackups] = 0]
         \/ backup' = backup
      /\ UNCHANGED <<base, length, born, open, size, record, jammed, stuck, marred>>
  BY DEF Remove, RemoveFails, files, writer, history
<1>3. /\ i' \in 0 .. MaxBackups - 1 /\ pc' \in {"shift", "move"} /\ i' = MaxBackups - 1
      /\ pc' = "shift" => i' >= 1
      /\ pc' = "move" => i' = 0
  BY <1>1, <1>2, NextShiftTyped
<1>4. backup' \in [Slots -> Logs] /\ \A k \in Slots : backup'[k] = 0 \/ backup'[k] = backup[k]
  BY <1>1, <1>2, BackupsAssumption DEF LogInv, LogTypeOK, Logs
<1>5. LogTypeOK'
  BY <1>2, <1>3, <1>4 DEF LogInv, LogTypeOK
<1>6. Known'
  BY <1>2, <1>4 DEF LogInv, LogTypeOK, Known, Logs
<1>7. NewestFirst'
  BY <1>2, <1>4 DEF LogInv, NewestFirst
<1>8. Room' /\ Measured' /\ WithinLimit' /\ Vacated'
  BY <1>2, <1>3, BackupsAssumption DEF LogInv, Room, Measured, WithinLimit, Vacated
<1>9. QED
  BY <1>5, <1>6, <1>7, <1>8 DEF LogInv

\* A backup moves one slot up, over whatever is there, or does not.
LEMMA ShiftKeeps ==
  ASSUME LogInv, Shift \/ ShiftFails
  PROVE  LogInv'
<1>1. i - 1 \in 0 .. MaxBackups - 1 /\ i \in Slots /\ i + 1 \in Slots
  BY BackupsAssumption DEF LogInv, LogTypeOK, Vacated, Shift, ShiftFails, Slots
<1>2. /\ pc = "shift" /\ NextShift(i - 1)
      /\ \/ backup' = Shifted(i) /\ jammed' = jammed /\ marred' = marred
         \/ backup' = backup /\ jammed' = TRUE /\ marred' = TRUE
      /\ UNCHANGED <<base, length, born, open, size, record, stuck>>
  BY DEF Shift, ShiftFails, files, writer, history
<1>3. /\ i' \in 0 .. MaxBackups - 1 /\ pc' \in {"shift", "move"} /\ i' = i - 1
      /\ pc' = "shift" => i' >= 1
      /\ pc' = "move" => i' = 0
  BY <1>1, <1>2, NextShiftTyped
<1>4. /\ backup' \in [Slots -> Logs]
      /\ \A k \in Slots : \/ backup'[k] = backup[k] \/ backup'[k] = 0
                          \/ k = i + 1 /\ backup'[k] = backup[i] /\ backup'[i] = 0
  <2>1. CASE backup' = backup
    BY <2>1 DEF LogInv, LogTypeOK
  <2>2. CASE backup' = [backup EXCEPT ![i + 1] = backup[i], ![i] = 0]
    <3>1. 0 \in Logs /\ backup[i] \in Logs /\ i # i + 1
      BY <1>1, BackupsAssumption DEF LogInv, LogTypeOK, Logs, Slots
    <3>2. backup' \in [Slots -> Logs]
      BY <1>1, <2>2, <3>1 DEF LogInv, LogTypeOK
    <3>3. \A k \in Slots : backup'[k] = IF k = i THEN 0 ELSE IF k = i + 1 THEN backup[i]
                                       ELSE backup[k]
      BY <1>1, <2>2, <3>1 DEF LogInv, LogTypeOK
    <3>4. QED
      BY <1>1, <3>1, <3>2, <3>3
  <2>3. QED
    BY <1>2, <2>1, <2>2 DEF Shifted
<1>5. ~jammed' => backup'[i] = 0
  BY <1>1, <1>2 DEF LogInv, LogTypeOK, Shifted
<1>6. LogTypeOK'
  <2>1. jammed' \in BOOLEAN /\ marred' \in BOOLEAN
    BY <1>2 DEF LogInv, LogTypeOK
  <2>2. QED
    BY <1>2, <1>3, <1>4, <2>1 DEF LogInv, LogTypeOK
<1>7. Known'
  BY <1>1, <1>2, <1>4 DEF LogInv, LogTypeOK, Known, Logs
<1>8. NewestFirst'
  <2>1. \A k \in Slots : base # 0 /\ backup'[k] # 0 => backup'[k] < base
    BY <1>1, <1>4 DEF LogInv, NewestFirst
  <2>2. ASSUME NEW k \in Slots, NEW m \in Slots, k < m, backup'[k] # 0, backup'[m] # 0
        PROVE  backup'[m] < backup'[k]
    <3>1. CASE backup'[k] = backup[k] /\ backup'[m] = backup[m]
      BY <2>2, <3>1 DEF LogInv, NewestFirst
    <3>2. CASE k = i + 1 /\ backup'[k] = backup[i]
      <4>1. i < m /\ m # i + 1
        BY <1>1, <2>2, <3>2 DEF Slots
      <4>2. backup'[m] = backup[m]
        BY <1>4, <2>2, <4>1
      <4>3. QED
        BY <1>1, <2>2, <3>2, <4>1, <4>2 DEF LogInv, NewestFirst
    <3>3. CASE m = i + 1 /\ backup'[m] = backup[i] /\ backup'[i] = 0 /\ k # i + 1
      <4>1. k < i
        BY <1>1, <2>2, <3>3 DEF Slots
      <4>2. backup'[k] = backup[k]
        BY <1>4, <2>2, <3>3
      <4>3. QED
        BY <1>1, <2>2, <3>3, <4>1, <4>2 DEF LogInv, NewestFirst
    <3>4. QED
      BY <1>4, <2>2, <3>1, <3>2, <3>3
  <2>3. base' = base
    BY <1>2
  <2>4. QED
    BY <2>1, <2>2, <2>3 DEF NewestFirst
<1>9. Room' /\ Measured' /\ WithinLimit'
  BY <1>2, <1>3 DEF LogInv, Room, Measured, WithinLimit
<1>10. Vacated'
  <2>1. i' + 1 = i
    BY <1>1, <1>3 DEF LogInv, LogTypeOK, Slots
  <2>2. QED
    BY <1>3, <1>5, <2>1 DEF Vacated
<1>11. QED
  BY <1>6, <1>7, <1>8, <1>9, <1>10 DEF LogInv

\* bridge.log becomes the newest backup, or stays.
LEMMA MoveKeeps ==
  ASSUME LogInv, Move \/ MoveFails
  PROVE  LogInv'
<1>1. 1 \in Slots
  BY BackupsAssumption DEF Slots
<1>2. /\ pc = "move" /\ pc' = "open"
      /\ UNCHANGED <<born, open, size, i, record, jammed>>
      /\ marred' = marred \/ marred' = TRUE
  BY DEF Move, MoveFails, files, writer
<1>3. CASE Move
  <2>1. /\ base # 0 /\ base' = 0 /\ length' = 0 /\ stuck' = FALSE
        /\ backup' = [backup EXCEPT ![1] = base]
    BY <1>3 DEF Move
  <2>2. backup' \in [Slots -> Logs]
    BY <1>1, <2>1 DEF LogInv, LogTypeOK
  <2>3. \A k \in Slots : backup'[k] = IF k = 1 THEN base ELSE backup[k]
    BY <2>1 DEF LogInv, LogTypeOK
  <2>4. LogTypeOK'
    <3>1. base' \in Logs /\ length' \in Nat
      BY <2>1, BackupsAssumption DEF Logs
    <3>2. stuck' \in BOOLEAN /\ marred' \in BOOLEAN
      BY <1>2, <2>1 DEF LogInv, LogTypeOK
    <3>3. QED
      BY <1>2, <2>2, <3>1, <3>2 DEF LogInv, LogTypeOK
  <2>5. Known'
    BY <1>2, <2>1, <2>3 DEF LogInv, LogTypeOK, Known, Logs
  <2>6. NewestFirst'
    BY <2>1, <2>3 DEF LogInv, NewestFirst, Slots
  <2>7. Room' /\ Measured' /\ WithinLimit' /\ Vacated'
    BY <1>2, <2>1, SizeAssumption DEF LogInv, Room, Measured, WithinLimit, Vacated
  <2>8. QED
    BY <2>4, <2>5, <2>6, <2>7 DEF LogInv
<1>4. CASE MoveFails
  <2>1. stuck' = (base # 0) /\ UNCHANGED <<base, length, backup>>
    BY <1>4 DEF MoveFails, files
  <2>2. stuck' \in BOOLEAN /\ marred' \in BOOLEAN
    BY <1>2, <2>1 DEF LogInv, LogTypeOK
  <2>3. base # 0 => stuck'
    BY <2>1
  <2>4. LogTypeOK'
    BY <1>2, <2>1, <2>2 DEF LogInv, LogTypeOK
  <2>5. Known' /\ Room' /\ NewestFirst' /\ Vacated'
    BY <1>2, <2>1 DEF LogInv, Known, Room, NewestFirst, Vacated
  <2>6. Measured'
    BY <1>2, <2>1, <2>3 DEF LogInv, Measured
  <2>7. WithinLimit'
    BY <1>2, <2>1, <2>3, SizeAssumption DEF LogInv, LogTypeOK, Measured, WithinLimit
  <2>8. QED
    BY <2>4, <2>5, <2>6, <2>7 DEF LogInv
<1>5. QED
  BY <1>3, <1>4

\* A file is opened and measured; one that is created is the newest.
LEMMA OpenKeeps ==
  ASSUME LogInv, Open \/ Restart
  PROVE  LogInv'
<1>1. OpenFile /\ UNCHANGED <<i, record, jammed, stuck, marred>>
  BY DEF Open, Restart, history
<1>2. \/ pc = "open" /\ pc' = "append"
      \/ pc = "down" /\ pc' = "idle"
  BY DEF Open, Restart
<1>3. open' = TRUE /\ size' = length /\ length' = length /\ backup' = backup
  BY <1>1 DEF OpenFile, CreateIfMissing
<1>4. \/ base = 0 /\ base' = born + 1 /\ born' = born + 1
      \/ base # 0 /\ base' = base /\ born' = born
  BY <1>1 DEF OpenFile, CreateIfMissing
<1>5. LogTypeOK'
  <2>1. base' \in Logs /\ born' \in Logs
    BY <1>4, BackupsAssumption DEF LogInv, LogTypeOK, Room, Logs
  <2>2. open' \in BOOLEAN /\ size' \in Nat
    BY <1>3 DEF LogInv, LogTypeOK
  <2>3. QED
    BY <1>1, <1>2, <1>3, <2>1, <2>2 DEF LogInv, LogTypeOK
<1>6. Known' /\ Room'
  BY <1>2, <1>3, <1>4 DEF LogInv, LogTypeOK, Known, Room, Logs
<1>7. NewestFirst'
  BY <1>3, <1>4 DEF LogInv, LogTypeOK, Known, NewestFirst, Logs
<1>8. Measured'
  BY <1>1, <1>2, <1>3, <1>4, SizeAssumption DEF LogInv, LogTypeOK, Measured, Logs
<1>9. WithinLimit' /\ Vacated'
  BY <1>1, <1>2, <1>3 DEF LogInv, WithinLimit, Vacated
<1>10. QED
  BY <1>5, <1>6, <1>7, <1>8, <1>9 DEF LogInv

\* No file is open after a crash; Write goes on without one after a failure.
LEMMA ClosedKeeps ==
  ASSUME LogInv, Crash \/ OpenFails
  PROVE  LogInv'
<1>1. /\ UNCHANGED <<length, backup, size, i, record, jammed, stuck>>
      /\ pc' = "down" \/ (pc = "open" /\ pc' = "append")
      /\ \/ UNCHANGED <<base, born>>
         \/ pc = "open" /\ base = 0 /\ base' = born + 1 /\ born' = born + 1
  BY DEF Crash, OpenFails, CreateIfMissing, files, writer, history
<1>2. open' = FALSE
  BY DEF Crash, OpenFails, writer, LogInv, Measured, LogTypeOK
<1>3. LogTypeOK'
  <2>1. base' \in Logs /\ born' \in Logs
    BY <1>1, BackupsAssumption DEF LogInv, LogTypeOK, Room, Logs
  <2>2. open' \in BOOLEAN /\ marred' \in BOOLEAN
    BY <1>2 DEF Crash, OpenFails, LogInv, LogTypeOK
  <2>3. QED
    BY <1>1, <2>1, <2>2 DEF LogInv, LogTypeOK
<1>4. Known' /\ Room' /\ NewestFirst'
  BY <1>1 DEF LogInv, LogTypeOK, Known, Room, NewestFirst, Logs
<1>5. Measured' /\ WithinLimit' /\ Vacated'
  BY <1>1, <1>2 DEF LogInv, LogTypeOK, Measured, WithinLimit, Vacated, Logs
<1>6. QED
  BY <1>3, <1>4, <1>5 DEF LogInv

LEMMA LogInvStep == LogInv /\ [LogNext]_logVars => LogInv'
<1> SUFFICES ASSUME LogInv, [LogNext]_logVars PROVE LogInv'
  OBVIOUS
<1>1. CASE UNCHANGED logVars
  BY <1>1 DEF logVars, files, writer, history, LogInv, LogTypeOK, Known, Room, Measured,
     NewestFirst, WithinLimit, Vacated
<1>2. QED
  BY <1>1, WriteKeeps, AppendKeeps, RemoveKeeps, ShiftKeeps, MoveKeeps, OpenKeeps,
     ClosedKeeps DEF LogNext

-----------------------------------------------------------------------------

\* The inductive invariant holds in every reachable state.
THEOREM LogInvHolds == LogSpec => []LogInv
  BY LogInvInit, LogInvStep, PTL DEF LogSpec

\* Every variable has its type, for any limits and records.
THEOREM LogTypeCorrect == LogSpec => []LogTypeOK
  BY LogInvHolds, PTL DEF LogInv

\* The files are in the order of their age, after any failures and crashes.
THEOREM NewestFirstHolds == LogSpec => []NewestFirst
  BY LogInvHolds, PTL DEF LogInv

\* No log grows over the limit unless it cannot be moved away.
THEOREM WithinLimitHolds == LogSpec => []WithinLimit
  BY LogInvHolds, PTL DEF LogInv
-----------------------------------------------------------------------------

\* The last backup is the oldest log.
LEMMA LastIsOldest ==
  ASSUME LogInv, backup[MaxBackups] # 0, NEW h \in Stored
  PROVE  backup[MaxBackups] <= h
<1>1. MaxBackups \in Slots
  BY BackupsAssumption DEF Slots
<1>2. CASE h = base
  BY <1>1, <1>2 DEF Stored, LogInv, LogTypeOK, Logs, NewestFirst
<1>3. CASE h # base
  <2>1. PICK k \in Slots : h = backup[k]
    BY <1>3 DEF Stored
  <2>2. CASE k = MaxBackups
    BY <1>1, <2>1, <2>2 DEF LogInv, LogTypeOK, Logs
  <2>3. CASE k # MaxBackups
    <3>1. k < MaxBackups /\ backup[k] # 0
      BY <2>1, <2>3, BackupsAssumption DEF Slots, Stored
    <3>2. backup[MaxBackups] < backup[k]
      BY <1>1, <3>1 DEF LogInv, NewestFirst
    <3>3. QED
      BY <1>1, <2>1, <3>2 DEF LogInv, LogTypeOK, Logs
  <2>4. QED
    BY <2>2, <2>3
<1>4. QED
  BY <1>2, <1>3

\* A log that one step takes away is the last backup, unless a rename failed.
LEMMA LastGoes ==
  ASSUME LogInv, [LogNext]_logVars, ~jammed, NEW g \in Stored, g \notin Stored'
  PROVE  g = backup[MaxBackups] /\ g # 0
<1> USE DEF Stored
<1>1. g # 0 /\ (g = base \/ \E k \in Slots : g = backup[k])
  OBVIOUS
<1>2. g # base' /\ \A k \in Slots : g # backup'[k]
  BY <1>1
<1>3. CASE Remove
  <2>1. base' = base /\ backup' = [backup EXCEPT ![MaxBackups] = 0]
    BY <1>3 DEF Remove
  <2>2. \A k \in Slots : k # MaxBackups => backup'[k] = backup[k]
    BY <2>1 DEF LogInv, LogTypeOK
  <2>3. QED
    BY <1>1, <1>2, <2>1, <2>2
<1>4. CASE Shift
  <2>1. base' = base /\ backup' = Shifted(i) /\ i \in Slots /\ i + 1 \in Slots /\ i # i + 1
    BY <1>4, BackupsAssumption DEF Shift, LogInv, LogTypeOK, Vacated, Slots
  <2>2. PICK k \in Slots : g = backup[k]
    BY <1>1, <1>2, <2>1
  <2>3. backup[i] # 0
    BY <1>2, <2>1, <2>2 DEF Shifted
  <2>4. backup' = [backup EXCEPT ![i + 1] = backup[i], ![i] = 0]
    BY <2>1, <2>3 DEF Shifted
  <2>5. /\ backup'[i + 1] = backup[i]
        /\ \A m \in Slots : m # i /\ m # i + 1 => backup'[m] = backup[m]
    BY <2>1, <2>4 DEF LogInv, LogTypeOK
  <2>6. k = i + 1
    BY <1>2, <2>1, <2>2, <2>5
  <2>7. i + 1 = MaxBackups
    BY <1>1, <1>4, <2>2, <2>6 DEF Shift, LogInv, Vacated
  <2>8. QED
    BY <1>1, <2>2, <2>6, <2>7
<1>5. CASE Move
  <2>1. backup' = [backup EXCEPT ![1] = base] /\ 1 \in Slots
    BY <1>5, BackupsAssumption DEF Move, Slots
  <2>2. backup'[1] = base /\ \A m \in Slots : m # 1 => backup'[m] = backup[m]
    BY <2>1 DEF LogInv, LogTypeOK
  <2>3. g = backup[1]
    BY <1>1, <1>2, <2>1, <2>2
  <2>4. MaxBackups = 1
    BY <1>1, <1>5, <2>3 DEF Move, LogInv, Vacated
  <2>5. QED
    BY <1>1, <2>3, <2>4
<1>6. CASE UNCHANGED <<base, backup>>
  BY <1>1, <1>2, <1>6
<1>7. CASE Open \/ Restart \/ OpenFails
  <2>1. backup' = backup /\ (base # 0 => base' = base)
    BY <1>7 DEF Open, Restart, OpenFails, OpenFile, CreateIfMissing, files
  <2>2. QED
    BY <1>1, <1>2, <2>1
<1>8. QED
  BY <1>3, <1>4, <1>5, <1>6, <1>7 DEF LogNext, WriteFitting, WriteRotating, Append,
     RemoveFails, ShiftFails, MoveFails, Crash, logVars, files, writer, history

\* A log that goes is the oldest one, unless a rename of the rotation failed.
THEOREM OldestGoesFirstHolds == LogSpec => OldestGoesFirst
<1>1. LogInv /\ [LogNext]_logVars
        => [\A g \in Stored \ Stored' : (\A h \in Stored : g <= h) \/ jammed]_logVars
  BY LastGoes, LastIsOldest
<1>2. QED
  BY <1>1, LogInvHolds, PTL DEF LogSpec, OldestGoesFirst
-----------------------------------------------------------------------------

\* Where the logs are while no rotation has failed: the newest in bridge.log
\* and each of the others one slot after the next newer one, in the old slots
\* up to rotate's i and in the new ones beyond.
Before(k) == IF base > k THEN base - k ELSE 0
After(k) == IF base > k - 1 THEN base - (k - 1) ELSE 0

Settled == base = born /\ \A k \in Slots : backup[k] = Before(k)

Shifting ==
  /\ base = born
  /\ \A k \in Slots : /\ k <= i => backup[k] = Before(k)
                      /\ k = i + 1 => backup[k] \in {0, Before(k)}
                      /\ k > i + 1 => backup[k] = After(k)

Moved ==
  /\ base = 0
  /\ \A k \in Slots : backup[k] = IF born >= k THEN born - (k - 1) ELSE 0

Layout ==
  ~marred =>
    /\ pc \in {"idle", "append", "remove", "down"} => Settled
    /\ pc \in {"shift", "move"} => Shifting
    /\ pc = "open" => Moved

LEMMA LayoutInit == LogInit => Layout
  BY DEF LogInit, Layout, Settled, Before, Slots

LEMMA LayoutStep == LogInv /\ Layout /\ [LogNext]_logVars => Layout'
<1> SUFFICES ASSUME LogInv, Layout, [LogNext]_logVars, ~marred' PROVE Layout'
  BY DEF Layout
<1>1. base \in Logs /\ born \in Logs /\ backup \in [Slots -> Logs] /\ i \in 0 .. MaxBackups - 1
  BY DEF LogInv, LogTypeOK
<1>2. ~marred
  BY DEF LogInv, LogTypeOK, LogNext, WriteFitting, WriteRotating, Append, Remove, RemoveFails, Shift,
     ShiftFails, Move, MoveFails, Open, OpenFails, Crash, Restart, logVars, history
<1>3. ASSUME UNCHANGED <<base, born, backup>>,
             pc \in {"idle", "append", "remove", "down"},
             pc' \in {"idle", "append", "remove", "down"}
      PROVE  Layout'
  BY <1>2, <1>3 DEF Layout, Settled, Before
<1>4. CASE UNCHANGED logVars
  BY <1>2, <1>4 DEF logVars, files, Layout, Settled, Shifting, Moved, Before, After
<1>5. CASE \E n \in Sizes : WriteFitting(n) \/ WriteRotating(n)
  BY <1>3, <1>5 DEF WriteFitting, WriteRotating, files
<1>6. CASE \E n \in 0 .. MaxSize : Append(n)
  BY <1>3, <1>6 DEF Append
<1>7. CASE Remove \/ RemoveFails
  <2>1. /\ pc = "remove" /\ NextShift(MaxBackups - 1)
        /\ \A k \in Slots : \/ backup'[k] = backup[k]
                            \/ k = MaxBackups /\ backup'[k] = 0
        /\ UNCHANGED <<base, born>>
    BY <1>1, <1>7 DEF Remove, RemoveFails, files
  <2>2. pc' \in {"shift", "move"} /\ i' = MaxBackups - 1
    BY <2>1 DEF NextShift
  <2>3. Settled
    BY <1>2, <2>1 DEF Layout
  <2>4. Shifting'
    BY <2>1, <2>2, <2>3, BackupsAssumption DEF Settled, Shifting, Before, Slots
  <2>5. QED
    BY <2>2, <2>4 DEF Layout
<1>8. CASE Shift
  <2>1. /\ pc = "shift" /\ NextShift(i - 1) /\ backup' = Shifted(i)
        /\ UNCHANGED <<base, born>>
    BY <1>8 DEF Shift
  <2>2. pc' \in {"shift", "move"} /\ i' = i - 1
    BY <2>1 DEF NextShift
  <2>3. Shifting
    BY <1>2, <2>1 DEF Layout
  <2>4. i \in Slots /\ i + 1 \in Slots /\ i # i + 1 /\ i \in Nat
    BY <1>1, <2>1, BackupsAssumption DEF LogInv, Vacated, Slots
  <2>5. backup[i] = Before(i) /\ backup[i + 1] \in {0, Before(i + 1)}
    BY <2>3, <2>4 DEF Shifting
  <2>6. backup'[i] = 0
    BY <1>1, <2>1, <2>4 DEF Shifted
  <2>7. backup'[i + 1] = After(i + 1)
    <3>1. CASE backup[i] = 0
      BY <1>1, <2>1, <2>4, <2>5, <3>1 DEF Shifted, Before, After, Logs
    <3>2. CASE backup[i] # 0
      BY <1>1, <2>1, <2>4, <2>5, <3>2 DEF Shifted, Before, After, Logs
    <3>3. QED
      BY <3>1, <3>2
  <2>8. \A k \in Slots : k # i /\ k # i + 1 => backup'[k] = backup[k]
    BY <1>1, <2>1, <2>4 DEF Shifted
  <2>9. \A k \in Slots : /\ k <= i - 1 => backup'[k] = Before(k)
                         /\ k > i => backup'[k] = After(k)
    BY <2>3, <2>4, <2>7, <2>8 DEF Shifting, Slots
  <2>10. Shifting'
    BY <2>1, <2>2, <2>3, <2>4, <2>6, <2>9 DEF Shifting, Before, After, Slots
  <2>11. QED
    BY <2>2, <2>10 DEF Layout
<1>9. CASE Move
  <2>1. /\ pc = "move" /\ pc' = "open" /\ base' = 0 /\ born' = born
        /\ backup' = [backup EXCEPT ![1] = base]
    BY <1>9 DEF Move
  <2>2. \A k \in Slots : backup'[k] = IF k = 1 THEN base ELSE backup[k]
    BY <1>1, <2>1
  <2>3. Shifting /\ i = 0
    BY <1>2, <2>1 DEF Layout, LogInv, Vacated
  <2>4. base # 0 /\ base = born
    BY <1>9, <2>3 DEF Move, Shifting
  <2>5. Moved'
    BY <1>1, <2>1, <2>2, <2>3, <2>4 DEF Moved, Shifting, After, Slots, Logs
  <2>6. QED
    BY <2>1, <2>5 DEF Layout
<1>10. CASE Open
  <2>1. pc = "open" /\ pc' = "append" /\ backup' = backup /\ Moved
    BY <1>2, <1>10 DEF Open, OpenFile, CreateIfMissing, Layout
  <2>2. base' = born + 1 /\ born' = born + 1
    BY <1>10, <2>1 DEF Open, OpenFile, CreateIfMissing, Moved
  <2>3. Settled'
    BY <1>1, <2>1, <2>2 DEF Moved, Settled, Before, Slots, Logs
  <2>4. QED
    BY <2>1, <2>3 DEF Layout
<1>11. CASE Crash
  <2>1. pc \in {"idle", "append"} /\ pc' = "down" /\ UNCHANGED <<base, born, backup>>
    BY <1>11 DEF Crash, files
  <2>2. QED
    BY <1>3, <2>1
<1>12. CASE Restart
  <2>1. pc = "down" /\ pc' = "idle" /\ backup' = backup
    BY <1>12 DEF Restart, OpenFile, CreateIfMissing
  <2>2. Settled
    BY <1>2, <2>1 DEF Layout
  <2>3. CASE base # 0
    BY <1>3, <1>12, <2>1, <2>3 DEF Restart, OpenFile, CreateIfMissing
  <2>4. CASE base = 0
    <3>1. born = 0 /\ base' = 1 /\ born' = 1 /\ \A k \in Slots : backup[k] = 0
      BY <1>12, <2>2, <2>4 DEF Restart, OpenFile, CreateIfMissing, Settled, Before, Slots
    <3>2. Settled'
      BY <2>1, <3>1 DEF Settled, Before, Slots
    <3>3. QED
      BY <2>1, <3>2 DEF Layout
  <2>5. QED
    BY <2>3, <2>4
<1>13. QED
  BY <1>4, <1>5, <1>6, <1>7, <1>8, <1>9, <1>10, <1>11, <1>12
     DEF LogNext, ShiftFails, MoveFails, OpenFails

LEMMA LayoutKeepsRecent == LogInv /\ Layout => KeepsRecent
<1> SUFFICES ASSUME LogInv, Layout, ~marred, NEW g \in 1 .. born, g > born - MaxBackups
             PROVE  g \in Stored
  BY DEF KeepsRecent
<1>1. base \in Logs /\ born \in Logs /\ i \in 0 .. MaxBackups - 1 /\ g # 0
  BY DEF LogInv, LogTypeOK
<1>2. CASE base = born /\ g = base
  BY <1>1, <1>2 DEF Stored
<1>3. CASE Settled /\ g # base
  <2>1. base - g \in Slots /\ backup[base - g] = g
    BY <1>1, <1>3, BackupsAssumption DEF Settled, Before, Slots, Logs
  <2>2. QED
    BY <1>1, <2>1 DEF Stored
<1>4. CASE Shifting /\ g # base
  <2>1. CASE base - g <= i
    <3>1. base - g \in Slots /\ backup[base - g] = g
      BY <1>1, <1>4, <2>1, BackupsAssumption DEF Shifting, Before, Slots, Logs
    <3>2. QED
      BY <1>1, <3>1 DEF Stored
  <2>2. CASE base - g > i
    <3>1. base - g + 1 \in Slots /\ backup[base - g + 1] = g
      BY <1>1, <1>4, <2>2, BackupsAssumption DEF Shifting, After, Slots, Logs
    <3>2. QED
      BY <1>1, <3>1 DEF Stored
  <2>3. QED
    BY <1>1, <2>1, <2>2 DEF Logs
<1>5. CASE Moved
  <2>1. born - g + 1 \in Slots /\ backup[born - g + 1] = g
    BY <1>1, <1>5, BackupsAssumption DEF Moved, Slots, Logs
  <2>2. QED
    BY <1>1, <2>1 DEF Stored
<1>6. QED
  BY <1>2, <1>3, <1>4, <1>5 DEF Layout, LogInv, LogTypeOK, Settled, Shifting

\* Until a rotation has failed or was cut short, the latest MaxBackups logs
\* are all there, at every step of a rotation.
THEOREM KeepsRecentHolds == LogSpec => []KeepsRecent
<1>1. LogInit => Layout
  BY LayoutInit
<1>2. LogInv /\ Layout /\ [LogNext]_logVars => Layout'
  BY LayoutStep
<1>3. LogInv /\ Layout => KeepsRecent
  BY LayoutKeepsRecent
<1>4. QED
  BY <1>1, <1>2, <1>3, LogInvHolds, PTL DEF LogSpec
=============================================================================
