----------------------------- MODULE CallRouting -----------------------------
(***************************************************************************)
(* The call router of the bridge daemon (internal/pw/hfp.go): it watches   *)
(* PipeWire for the phone's card to enter and leave the call profile,      *)
(* switches the headphone's card along, and records the call.              *)
(*                                                                         *)
(* Run is one goroutine, each call recording another; cmd/bridge/main.go   *)
(* cancels the router's context.  pactl and pw-link are external: what the *)
(* router does with one of their answers, or without one, is a step.       *)
(* SwitchCardProfile to a2dp fails only if its context is done or the card *)
(* is gone.  The links of LinkHFP vanish with the nodes and are left out.  *)
(***************************************************************************)
EXTENDS Integers, FiniteSets

CONSTANTS
  Recordings,  \* bound: one that is over is used again, unless its mixer leaked
  None,        \* no recording
  MaxLines     \* bound: unread lines of pactl told apart

ASSUME RecordingsAssumption == None \notin Recordings
ASSUME LinesAssumption == MaxLines \in Nat \ {0}

VARIABLES
  phone,       \* the profile of the phone's card
  headphone,   \* the profile of the headphone's card, or "absent"
  subscribed,  \* pactl subscribe is running
  lines,       \* its lines that Run has not read
  recent,      \* less than 300 ms have passed since lastCheck
  run,         \* where Run is
  seen,        \* phoneInHFP of checkCallState
  inCall,      \* HFPRouter.inCall
  call,        \* the recording that callCancel cancels
  ended,       \* the recordings whose callCtx was cancelled by endCall
  recorder,    \* where each recordCall is
  mixers,      \* the null sinks that are loaded, each for its recording
  leaked,      \* those whose load was killed before their id was read
  deserted,    \* Run has returned in a call, its context live
  cancelled,   \* the router's context is done
  exited       \* the process has ended

cards == <<phone, headphone>>
pactl == <<subscribed, lines>>
router == <<recent, run, seen, inCall, call, ended>>
recordings == <<recorder, mixers, leaked>>
callVars == <<cards, pactl, router, recordings, deserted, cancelled, exited>>

CallInit ==
  /\ phone = "a2dp"
  /\ headphone \in {"absent", "a2dp"}
  /\ subscribed = FALSE
  /\ lines = 0
  /\ recent = FALSE
  /\ run = "warmup"
  /\ seen = FALSE
  /\ inCall = FALSE
  /\ call = None
  /\ ended = {}
  /\ recorder = [g \in Recordings |-> "off"]
  /\ mixers = {}
  /\ leaked = {}
  /\ deserted = FALSE
  /\ cancelled = FALSE
  /\ exited = FALSE

Running == ~exited

\* A change in PipeWire: pactl prints a line, if it is running.
Line ==
  /\ lines' = IF subscribed /\ lines < MaxLines THEN lines + 1 ELSE lines
  /\ UNCHANGED subscribed

-----------------------------------------------------------------------------
(* The phone, the headphone and other clients of PipeWire *)

PhoneSwitches(profile) ==
  /\ Running
  /\ phone # profile
  /\ phone' = profile
  /\ Line
  /\ UNCHANGED <<headphone, router, recordings, deserted, cancelled, exited>>

HeadphoneGoes ==
  /\ Running
  /\ headphone # "absent"
  /\ headphone' = "absent"
  /\ Line
  /\ UNCHANGED <<phone, router, recordings, deserted, cancelled, exited>>

HeadphoneComes ==
  /\ Running
  /\ headphone = "absent"
  /\ headphone' = "a2dp"
  /\ Line
  /\ UNCHANGED <<phone, router, recordings, deserted, cancelled, exited>>

OtherChange ==
  /\ Running
  /\ subscribed /\ lines < MaxLines
  /\ Line
  /\ UNCHANGED <<cards, router, recordings, deserted, cancelled, exited>>

\* pactl is killed when the context is done; it may also end by itself.
PactlEnds ==
  /\ Running
  /\ subscribed
  /\ subscribed' = FALSE
  /\ UNCHANGED <<cards, lines, router, recordings, deserted, cancelled, exited>>

-----------------------------------------------------------------------------
(* Run *)

\* Two seconds have passed.
Subscribe ==
  /\ Running
  /\ run = "warmup" /\ ~cancelled
  /\ subscribed' = TRUE
  /\ run' = "scan"
  /\ UNCHANGED <<cards, lines, recent, seen, inCall, call, ended, recordings, deserted,
                 cancelled, exited>>

\* The context is done before, or pactl does not start.
NoSubscription ==
  /\ Running
  /\ run = "warmup"
  /\ run' = "returned"
  /\ UNCHANGED <<cards, pactl, recent, seen, inCall, call, ended, recordings, deserted,
                 cancelled, exited>>

\* Mutant: every line is dropped.
DropAny ==
  /\ Running
  /\ run = "scan" /\ ~cancelled /\ lines > 0
  /\ lines' = lines - 1
  /\ UNCHANGED <<cards, subscribed, router, recordings, deserted, cancelled, exited>>

\* A line within 300 ms of the last check is dropped.
DropLine ==
  /\ Running
  /\ run = "scan" /\ ~cancelled /\ lines > 0
  /\ recent
  /\ lines' = lines - 1
  /\ UNCHANGED <<cards, subscribed, router, recordings, deserted, cancelled, exited>>

CheckLine ==
  /\ Running
  /\ run = "scan" /\ ~cancelled /\ lines > 0
  /\ ~recent
  /\ lines' = lines - 1
  /\ recent' = TRUE
  /\ run' = "check"
  /\ UNCHANGED <<cards, subscribed, seen, inCall, call, ended, recordings, deserted,
                 cancelled, exited>>

\* End of file: pactl has ended and all its lines are read.  Run does not wait
\* for its context, and does not end the call.
EndOfLines ==
  /\ Running
  /\ run = "scan" /\ ~subscribed /\ lines = 0
  /\ run' = "returned"
  /\ deserted' = (inCall /\ ~cancelled)
  /\ UNCHANGED <<cards, pactl, recent, seen, inCall, call, ended, recordings,
                 cancelled, exited>>

\* 300 ms have passed since the last check.
RecentEnds ==
  /\ Running
  /\ recent
  /\ recent' = FALSE
  /\ UNCHANGED <<cards, pactl, run, seen, inCall, call, ended, recordings, deserted,
                 cancelled, exited>>

-----------------------------------------------------------------------------
(* checkCallState *)

\* isCardInHFP reads the card ...
Look ==
  /\ Running
  /\ run = "check" /\ ~cancelled
  /\ seen' = (phone = "hfp")
  /\ run' = "judge"
  /\ UNCHANGED <<cards, pactl, recent, inCall, call, ended, recordings, deserted,
                 cancelled, exited>>

\* ... or answers "not in a call" because pactl list fails, as it does when the
\* context is done.
LookFails ==
  /\ Running
  /\ run = "check"
  /\ seen' = FALSE
  /\ run' = "judge"
  /\ UNCHANGED <<cards, pactl, recent, inCall, call, ended, recordings, deserted,
                 cancelled, exited>>

NoChange ==
  /\ Running
  /\ run = "judge" /\ seen = inCall
  /\ run' = "scan"
  /\ UNCHANGED <<cards, pactl, recent, seen, inCall, call, ended, recordings, deserted,
                 cancelled, exited>>

StartCall(g) ==
  /\ Running
  /\ run = "judge" /\ seen /\ ~inCall
  /\ recorder[g] = "off" /\ g \notin leaked
  /\ inCall' = TRUE
  /\ call' = g
  /\ ended' = ended \ {g}
  /\ run' = "switch"
  /\ UNCHANGED <<cards, pactl, recent, seen, recordings, deserted, cancelled, exited>>

\* Mutant: the context of the recording is not cancelled.
EndCallForgets ==
  /\ inCall' = FALSE
  /\ call' = None
  /\ UNCHANGED ended

\* What endCall does under its mutex.
EndCall ==
  /\ inCall' = FALSE
  /\ call' = None
  /\ ended' = ended \union {call}

\* Mutant: endCall does not restore the headphone.
StopCallOnly ==
  /\ Running
  /\ run = "judge" /\ ~seen /\ inCall
  /\ EndCall
  /\ run' = "scan"
  /\ UNCHANGED <<cards, pactl, recent, seen, recordings, deserted, cancelled, exited>>

StopCall ==
  /\ Running
  /\ run = "judge" /\ ~seen /\ inCall
  /\ EndCall
  /\ run' = "restore"
  /\ UNCHANGED <<cards, pactl, recent, seen, recordings, deserted, cancelled, exited>>

-----------------------------------------------------------------------------
(* SwitchCardProfile of the headphone *)

SwitchToHFP ==
  /\ Running
  /\ run = "switch" /\ ~cancelled
  /\ headphone # "absent"
  /\ headphone' = "hfp"
  /\ Line
  /\ run' = "launch"
  /\ UNCHANGED <<phone, recent, seen, inCall, call, ended, recordings, deserted, cancelled, exited>>

\* No card, no such profile, or the context is done: startCall goes on.
SwitchToHFPFails ==
  /\ Running
  /\ run = "switch"
  /\ run' = "launch"
  /\ UNCHANGED <<cards, pactl, recent, seen, inCall, call, ended, recordings, deserted,
                 cancelled, exited>>

\* Ports are linked, or not; startCall starts recordCall and returns.
LaunchRecording ==
  /\ Running
  /\ run = "launch"
  /\ recorder' = [recorder EXCEPT ![call] = "load"]
  /\ run' = "scan"
  /\ UNCHANGED <<cards, pactl, recent, seen, inCall, call, ended, mixers, leaked, deserted,
                 cancelled, exited>>

Restore ==
  /\ Running
  /\ run = "restore" /\ ~cancelled
  /\ headphone # "absent"
  /\ headphone' = "a2dp"
  /\ Line
  /\ run' = "scan"
  /\ UNCHANGED <<phone, recent, seen, inCall, call, ended, recordings, deserted, cancelled, exited>>

RestoreFails ==
  /\ Running
  /\ run = "restore"
  /\ cancelled \/ headphone = "absent"
  /\ run' = "scan"
  /\ UNCHANGED <<cards, pactl, recent, seen, inCall, call, ended, recordings, deserted,
                 cancelled, exited>>

-----------------------------------------------------------------------------
(* The context is done *)

Cancel ==
  /\ Running
  /\ ~cancelled
  /\ cancelled' = TRUE
  /\ UNCHANGED <<cards, pactl, router, recordings, deserted, exited>>

\* Run reads another line and finds the context done: endCall, if in a call.
LeaveInCall ==
  /\ Running
  /\ run = "scan" /\ cancelled /\ lines > 0 /\ inCall
  /\ lines' = lines - 1
  /\ subscribed' = FALSE
  /\ EndCall
  /\ run' = "leave"
  /\ UNCHANGED <<cards, recent, seen, recordings, deserted, cancelled, exited>>

Leave ==
  /\ Running
  /\ run = "scan" /\ cancelled /\ lines > 0 /\ ~inCall
  /\ lines' = lines - 1
  /\ subscribed' = FALSE
  /\ run' = "returned"
  /\ UNCHANGED <<cards, recent, seen, inCall, call, ended, recordings, deserted, cancelled, exited>>

\* This endCall has a context of its own.
LeaveRestored ==
  /\ Running
  /\ run = "leave"
  /\ headphone' = IF headphone = "absent" THEN "absent" ELSE "a2dp"
  /\ run' = "returned"
  /\ UNCHANGED <<phone, pactl, recent, seen, inCall, call, ended, recordings, deserted,
                 cancelled, exited>>

\* main returns: it waits for no goroutine.
MainReturns ==
  /\ Running
  /\ cancelled
  /\ exited' = TRUE
  /\ UNCHANGED <<cards, pactl, router, recordings, deserted, cancelled>>

-----------------------------------------------------------------------------
(* recordCall *)

Cancelled(g) == g \in ended \/ cancelled

\* PipeWire loads the null sink that pactl load-module asks for ...
LoadMixer(g) ==
  /\ Running
  /\ recorder[g] = "load" /\ ~Cancelled(g)
  /\ mixers' = mixers \union {g}
  /\ recorder' = [recorder EXCEPT ![g] = "loaded"]
  /\ Line
  /\ UNCHANGED <<cards, router, leaked, deserted, cancelled, exited>>

\* ... and its id is read from pactl's output.
ReadModule(g) ==
  /\ Running
  /\ recorder[g] = "loaded"
  /\ recorder' = [recorder EXCEPT ![g] = "ports"]
  /\ UNCHANGED <<cards, pactl, router, mixers, leaked, deserted, cancelled, exited>>

\* Or the context ends in between and pactl is killed: loadCallMixer fails, no
\* unloadCallMixer is deferred, and nobody knows the sink that was loaded.
LoadKilled(g) ==
  /\ Running
  /\ recorder[g] = "loaded" /\ Cancelled(g)
  /\ leaked' = leaked \union {g}
  /\ recorder' = [recorder EXCEPT ![g] = "find"]
  /\ UNCHANGED <<cards, pactl, router, mixers, deserted, cancelled, exited>>

\* No sink was loaded, or it has no ports: the phone's side only.
FallBack(g) ==
  /\ Running
  /\ recorder[g] \in {"load", "ports"}
  /\ recorder' = [recorder EXCEPT ![g] = "find"]
  /\ UNCHANGED <<cards, pactl, router, mixers, leaked, deserted, cancelled, exited>>

\* Touch and pw-cat.
Record(g) ==
  /\ Running
  /\ recorder[g] \in {"ports", "find"} /\ ~Cancelled(g)
  /\ recorder' = [recorder EXCEPT ![g] = "record"]
  /\ Line
  /\ UNCHANGED <<cards, router, mixers, leaked, deserted, cancelled, exited>>

\* Mutant: without a recording, the mixer is left to itself.
GiveUpAtOnce(g) ==
  /\ Running
  /\ recorder[g] \in {"ports", "find"}
  /\ recorder' = [recorder EXCEPT ![g] = "off"]
  /\ UNCHANGED <<cards, pactl, router, mixers, leaked, deserted, cancelled, exited>>

\* The phone's node is not found, Touch fails, or pw-cat does not start.
GiveUp(g) ==
  /\ Running
  /\ recorder[g] \in {"ports", "find"}
  /\ recorder' = [recorder EXCEPT ![g] = "unload"]
  /\ UNCHANGED <<cards, pactl, router, mixers, leaked, deserted, cancelled, exited>>

\* pw-cat exits by itself ...
PwCatExits(g) ==
  /\ Running
  /\ recorder[g] = "record"
  /\ recorder' = [recorder EXCEPT ![g] = "unload"]
  /\ UNCHANGED <<cards, pactl, router, mixers, leaked, deserted, cancelled, exited>>

\* Mutant: the recording looks at the router's context only.
StopRecordingLast(g) == cancelled /\ PwCatExits(g)

\* ... or because callCtx is done.
StopRecording(g) == Cancelled(g) /\ PwCatExits(g)

\* The deferred unloadCallMixer, if the id of a mixer was read.
UnloadMixer(g) ==
  /\ Running
  /\ recorder[g] = "unload"
  /\ mixers' = mixers \ ({g} \ leaked)
  /\ recorder' = [recorder EXCEPT ![g] = "off"]
  /\ IF g \in mixers \ leaked THEN Line ELSE UNCHANGED pactl
  /\ UNCHANGED <<cards, router, leaked, deserted, cancelled, exited>>

-----------------------------------------------------------------------------

Environment ==
  \/ \E profile \in {"a2dp", "hfp"} : PhoneSwitches(profile)
  \/ HeadphoneGoes \/ HeadphoneComes \/ OtherChange

RunStep ==
  \/ Subscribe \/ NoSubscription \/ DropLine \/ CheckLine \/ EndOfLines
  \/ Look \/ LookFails \/ NoChange \/ StopCall \/ \E g \in Recordings : StartCall(g)
  \/ SwitchToHFP \/ SwitchToHFPFails \/ LaunchRecording \/ Restore \/ RestoreFails
  \/ LeaveInCall \/ Leave \/ LeaveRestored

RecordStep(g) ==
  \/ LoadMixer(g) \/ ReadModule(g) \/ LoadKilled(g) \/ FallBack(g)
  \/ Record(g) \/ GiveUp(g) \/ PwCatExits(g) \/ UnloadMixer(g)

CallNext ==
  \/ Environment
  \/ PactlEnds
  \/ RunStep
  \/ RecentEnds
  \/ \E g \in Recordings : RecordStep(g)
  \/ Cancel
  \/ MainReturns

\* The goroutines keep running and time passes; pactl is killed with its
\* context.  Nothing makes calls, changes in PipeWire or a cancellation happen.
CallFairness ==
  /\ WF_callVars(RunStep)
  /\ WF_callVars(RecentEnds)
  /\ WF_callVars(cancelled /\ PactlEnds)
  /\ \A g \in Recordings :
       /\ WF_callVars(ReadModule(g)) /\ WF_callVars(FallBack(g)) /\ WF_callVars(GiveUp(g))
       /\ WF_callVars(StopRecording(g)) /\ WF_callVars(UnloadMixer(g))

CallSpec == CallInit /\ [][CallNext]_callVars /\ CallFairness

-----------------------------------------------------------------------------
(* Properties *)

\* Every variable has its type.
CallTypeOK ==
  /\ phone \in {"a2dp", "hfp"}
  /\ headphone \in {"absent", "a2dp", "hfp"}
  /\ subscribed \in BOOLEAN
  /\ lines \in 0 .. MaxLines
  /\ recent \in BOOLEAN
  /\ run \in {"warmup", "scan", "check", "judge", "switch", "launch", "restore",
              "leave", "returned"}
  /\ seen \in BOOLEAN
  /\ inCall \in BOOLEAN
  /\ call \in Recordings \union {None}
  /\ ended \in SUBSET Recordings
  /\ recorder \in [Recordings -> {"off", "load", "loaded", "ports", "find", "record", "unload"}]
  /\ mixers \in SUBSET Recordings
  /\ leaked \in SUBSET Recordings
  /\ deserted \in BOOLEAN
  /\ cancelled \in BOOLEAN
  /\ exited \in BOOLEAN

\* While the router's context is live the headphone is in the call profile only
\* during a call that Run still watches, or while it is being restored: no order
\* of checks, failures and reconnections leaves it there (hfp.go:201-224).  The
\* exception: when pactl subscribe ends by itself in a call, Run returns without
\* endCall (hfp.go:122), and the headphone stays in the call profile for good.
HeadphoneHasCall ==
  headphone = "hfp" /\ ~cancelled
    => (inCall /\ run # "returned") \/ run = "restore" \/ deserted

\* A recording that is not of the current call has been told to stop: endCall
\* and the next startCall leave none behind that nobody can cancel.
NoStrayRecording ==
  \A g \in Recordings : recorder[g] # "off" /\ g # call => Cancelled(g)

\* Every mixer has a recordCall that is going to unload it, whatever that was
\* waiting for when the call ended, but for those whose load was killed between
\* PipeWire's loading the sink and the reading of its id (hfp.go:238, 353-362).
MixerHasRecording ==
  \A g \in mixers :
    g \in leaked \/ recorder[g] \in {"loaded", "ports", "find", "record", "unload"}

\* When a call ends, its recording ends and its mixer goes, unless its load was
\* killed half-way, which leaves the recording no mixer to unload.
EndedRecordingCleared ==
  \A g \in Recordings :
    g \in ended
      ~> (recorder[g] = "off" /\ g \notin mixers \ leaked) \/ g \notin ended \/ ~Running

\* The end of a call is noticed if PipeWire reports anything once the last
\* check is 300 ms old.
EndSeenLater ==
  (inCall /\ phone = "a2dp" /\ lines > 0 /\ ~recent)
    ~> (~inCall \/ phone = "hfp" \/ run = "returned" \/ ~Running)

=============================================================================
