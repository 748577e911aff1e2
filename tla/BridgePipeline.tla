--------------------------- MODULE BridgePipeline ---------------------------
(***************************************************************************)
(* The main function of the bridge daemon (cmd/bridge/main.go) with the    *)
(* transport watcher of the Bluetooth adapter (internal/bt/adapter.go):    *)
(* which recording pipeline and which call router run, for which phone.    *)
(*                                                                         *)
(* BlueZ announces the transports of the devices with D-Bus signals, which *)
(* the watcher goroutine handles one at a time; main runs the shutdown     *)
(* sequence beside it.  What they share is guarded by pipelineMu: one step *)
(* per critical section.  currentSourceMAC and headphoneMAC are used by    *)
(* the watcher only.                                                       *)
(*                                                                         *)
(* Pipelines are numbered in the order they start; a call router has the   *)
(* number of the pipeline it was started with.  The transports stored by   *)
(* SetTransport are left out: nothing calls it.                            *)
(***************************************************************************)
EXTENDS Integers, Sequences

CONSTANTS
  Phones,        \* devices connected through the sink adapter
  Headphones,    \* devices connected through the source adapter
  NoDevice,      \* the empty MAC
  DualMode,      \* Adapter.dualMode: two adapters are configured
  Target,        \* bluetooth.target_headphone, or NoDevice
  MaxPipelines,  \* bound: pipelines one behaviour may start
  MaxInbox       \* bound: signals not handled yet

ASSUME DevicesAssumption ==
  NoDevice \notin Phones \union Headphones /\ Phones \intersect Headphones = {}
ASSUME ConfigAssumption == DualMode \in BOOLEAN /\ Target \in Headphones \union {NoDevice}
ASSUME BoundsAssumption == MaxPipelines \in Nat /\ MaxInbox \in Nat

VARIABLES
  transport,      \* BlueZ: the state of each device's media transport
  inbox,          \* the D-Bus signals on their way to the watcher
  watcher,        \* where the watcher goroutine is
  dev,            \* the device of the signal it is handling
  sinkDevice,     \* Adapter.sinkDevice
  headphone,      \* headphoneMAC
  source,         \* currentSourceMAC
  pipeline,       \* the pipeline of pipelineDone and pipelineCancel; 0 for nil
  nPipelines,     \* pipelines started so far
  phoneOf,        \* the phone of each pipeline
  cancelled,      \* the pipelines whose context is cancelled and done closed
  hfpSource,      \* currentHFPMAC
  hfp,            \* the router of hfpCancel; 0 for nil
  routers,        \* the call routers whose context is live
  capture,        \* the recorder goroutine of each pipeline
  main            \* where main is

bluez == <<transport, inbox>>
handling == <<watcher, dev>>
pipes == <<pipeline, nPipelines, phoneOf, cancelled>>
calls == <<hfpSource, hfp, routers>>
vars == <<bluez, handling, sinkDevice, headphone, source, pipes, calls,
          capture, main>>

Devices == Phones \union Headphones
Pipelines == 1 .. MaxPipelines
None == 0
Signals == [kind : {"added", "started", "stopped", "removed"}, dev : Devices]

Init ==
  /\ transport = [d \in Devices |-> "none"]
  /\ inbox = <<>>
  /\ watcher = "select"
  /\ dev = NoDevice
  /\ sinkDevice = NoDevice
  /\ headphone = NoDevice
  /\ source = NoDevice
  /\ pipeline = None
  /\ nPipelines = 0
  /\ phoneOf = [g \in Pipelines |-> NoDevice]
  /\ cancelled = {}
  /\ hfpSource = NoDevice
  /\ hfp = None
  /\ routers = {}
  /\ capture = [g \in Pipelines |-> "off"]
  /\ main = "running"

Up == main # "exited"

-----------------------------------------------------------------------------
(* BlueZ and the devices *)

Announce(d, state, kind) ==
  /\ Up
  /\ Len(inbox) < MaxInbox
  /\ transport' = [transport EXCEPT ![d] = state]
  /\ inbox' = Append(inbox, [kind |-> kind, dev |-> d])
  /\ UNCHANGED <<handling, sinkDevice, headphone, source, pipes, calls,
                 capture, main>>

Connect(d) == transport[d] = "none" /\ Announce(d, "idle", "added")

\* State becomes pending, and then active: two signals of the same kind.
Play(d) == transport[d] # "none" /\ Announce(d, "active", "started")

Pause(d) == transport[d] = "active" /\ Announce(d, "idle", "stopped")

Disconnect(d) == transport[d] # "none" /\ Announce(d, "none", "removed")

-----------------------------------------------------------------------------
(* The watcher takes a signal *)

\* With one adapter every transport counts as a sink.
Role(d) == IF DualMode /\ d \in Headphones THEN "source" ELSE "sink"

Take(kinds) ==
  /\ Up
  /\ watcher = "select" /\ inbox # <<>> /\ Head(inbox).kind \in kinds
  /\ inbox' = Tail(inbox)

\* The transport of a phone appears or starts to stream: it is tracked, and
\* onTransportAcquire is called.
TakeSinkAcquire ==
  /\ Take({"added", "started"})
  /\ Role(Head(inbox).dev) = "sink"
  /\ dev' = Head(inbox).dev
  /\ sinkDevice' = dev'
  /\ watcher' = "acquire"
  /\ UNCHANGED <<transport, headphone, source, pipes, calls, capture, main>>

\* onTransportAcquire only remembers the headphone.
TakeSourceAcquire ==
  /\ Take({"added", "started"})
  /\ Role(Head(inbox).dev) = "source"
  /\ headphone' = Head(inbox).dev
  /\ UNCHANGED <<transport, handling, sinkDevice, source, pipes, calls, capture, main>>

\* A transport disappears or goes idle, whosever it is: onTransportRelease.
TakeRelease ==
  /\ Take({"removed", "stopped"})
  /\ sinkDevice' = IF Head(inbox).kind = "removed" /\ Role(Head(inbox).dev) = "sink"
                   THEN NoDevice ELSE sinkDevice
  /\ watcher' = "release"
  /\ UNCHANGED <<transport, dev, headphone, source, pipes, calls, capture, main>>

\* The context is done: WatchTransports may return, or take another signal.
Leave ==
  /\ Up
  /\ main # "running" /\ watcher = "select"
  /\ watcher' = "off"
  /\ UNCHANGED <<bluez, dev, sinkDevice, headphone, source, pipes, calls,
                 capture, main>>

-----------------------------------------------------------------------------
(* stopPipeline: cancel the context and close done, if there are any *)

StopPipelineForgets == pipeline' = None /\ UNCHANGED cancelled   \* mutant

StopPipeline ==
  /\ cancelled' = IF pipeline = None THEN cancelled ELSE cancelled \union {pipeline}
  /\ pipeline' = None

-----------------------------------------------------------------------------
(* onTransportAcquire for a phone *)

\* Skip if there is a pipeline for this device already.
Debounce ==
  /\ Up
  /\ watcher = "acquire"
  /\ watcher' = IF source = dev /\ pipeline # None THEN "select" ELSE "stop"
  /\ dev' = IF source = dev /\ pipeline # None THEN NoDevice ELSE dev
  /\ UNCHANGED <<bluez, sinkDevice, headphone, source, pipes, calls,
                 capture, main>>

StopOld ==
  /\ Up
  /\ watcher = "stop"
  /\ StopPipeline
  /\ watcher' = "start"
  /\ UNCHANGED <<bluez, dev, sinkDevice, headphone, source, nPipelines, phoneOf,
                 calls, capture, main>>

\* Mutant: currentSourceMAC is not updated.
StartNewKeepsSource ==
  /\ Up
  /\ watcher = "start"
  /\ nPipelines < MaxPipelines
  /\ nPipelines' = nPipelines + 1
  /\ pipeline' = nPipelines'
  /\ phoneOf' = [phoneOf EXCEPT ![nPipelines'] = dev]
  /\ source' = IF source = NoDevice THEN dev ELSE source
  /\ watcher' = "router"
  /\ UNCHANGED <<bluez, dev, sinkDevice, headphone, cancelled, calls, capture, main>>

\* A new done channel and a new context.
StartNew ==
  /\ Up
  /\ watcher = "start"
  /\ nPipelines < MaxPipelines
  /\ nPipelines' = nPipelines + 1
  /\ pipeline' = nPipelines'
  /\ phoneOf' = [phoneOf EXCEPT ![nPipelines'] = dev]
  /\ source' = dev
  /\ watcher' = "router"
  /\ UNCHANGED <<bluez, dev, sinkDevice, headphone, cancelled, calls, capture, main>>

\* The configured headphone, or else the detected one: only the watcher writes
\* headphoneMAC, so that it still is what it was when the pipeline started.
hpMAC == IF Target # NoDevice THEN Target ELSE headphone

NeedsRouterAlways == hpMAC # NoDevice   \* mutant

NeedsRouter == hpMAC # NoDevice /\ hfpSource # dev

\* Mutant: the router of the phone before is not cancelled.
StartRouterOnly ==
  /\ Up
  /\ watcher = "router" /\ NeedsRouter
  /\ routers' = routers \union {nPipelines}
  /\ hfp' = nPipelines
  /\ hfpSource' = dev
  /\ watcher' = "launch"
  /\ UNCHANGED <<bluez, dev, sinkDevice, headphone, source, pipes, capture, main>>

\* The router of another phone is cancelled and one for this phone starts.
StartRouter ==
  /\ Up
  /\ watcher = "router" /\ NeedsRouter
  /\ routers' = (routers \ {hfp}) \union {nPipelines}
  /\ hfp' = nPipelines
  /\ hfpSource' = dev
  /\ watcher' = "launch"
  /\ UNCHANGED <<bluez, dev, sinkDevice, headphone, source, pipes, capture, main>>

KeepRouter ==
  /\ Up
  /\ watcher = "router" /\ ~NeedsRouter
  /\ watcher' = "launch"
  /\ UNCHANGED <<bluez, dev, sinkDevice, headphone, source, pipes, calls,
                 capture, main>>

LaunchCapture ==
  /\ Up
  /\ watcher = "launch"
  /\ capture' = [capture EXCEPT ![nPipelines] = "finding"]
  /\ watcher' = "select"
  /\ dev' = NoDevice
  /\ UNCHANGED <<bluez, sinkDevice, headphone, source, pipes, calls, main>>

-----------------------------------------------------------------------------
(* onTransportRelease *)

\* Mutant: the pipeline is left running.
ForgetSourceOnly ==
  /\ Up
  /\ watcher = "release"
  /\ source' = NoDevice
  /\ watcher' = "select"
  /\ UNCHANGED <<bluez, dev, sinkDevice, headphone, pipes, calls, capture, main>>

ForgetSource ==
  /\ Up
  /\ watcher = "release"
  /\ source' = NoDevice
  /\ watcher' = "stopping"
  /\ UNCHANGED <<bluez, dev, sinkDevice, headphone, pipes, calls, capture, main>>

StopReleased ==
  /\ Up
  /\ watcher = "stopping"
  /\ StopPipeline
  /\ watcher' = "select"
  /\ UNCHANGED <<bluez, dev, sinkDevice, headphone, source, nPipelines, phoneOf,
                 calls, capture, main>>

-----------------------------------------------------------------------------
(* The recorder goroutines *)

\* A pipeline's context is cancelled on its own, or with main's.
Cancelled(g) == g \in cancelled \/ main # "running"

Record(g) ==
  /\ Up
  /\ capture[g] = "finding" /\ ~Cancelled(g)
  /\ capture' = [capture EXCEPT ![g] = "recording"]
  /\ UNCHANGED <<bluez, handling, sinkDevice, headphone, source, pipes, calls, main>>

\* No node appears within 10 s, or the context is cancelled.
NoNode(g) ==
  /\ Up
  /\ capture[g] = "finding"
  /\ capture' = [capture EXCEPT ![g] = "off"]
  /\ UNCHANGED <<bluez, handling, sinkDevice, headphone, source, pipes, calls, main>>

\* pw-cat exits by itself; pipelineDone and currentSourceMAC stay as they are.
PwCatExits(g) ==
  /\ Up
  /\ capture[g] = "recording"
  /\ capture' = [capture EXCEPT ![g] = "off"]
  /\ UNCHANGED <<bluez, handling, sinkDevice, headphone, source, pipes, calls, main>>

\* Mutant: the recorder only watches the context of main.
StopRecordingLast(g) == main # "running" /\ PwCatExits(g)

\* pw-cat is killed with its context, or interrupted because done is closed.
StopRecording(g) == Cancelled(g) /\ PwCatExits(g)

-----------------------------------------------------------------------------
(* main: the signal cancels the context, then stopHFP, stopPipeline, return *)

Interrupt ==
  /\ main = "running"
  /\ main' = "cancelled"
  /\ UNCHANGED <<bluez, handling, sinkDevice, headphone, source, pipes, calls, capture>>

StopHFP ==
  /\ main = "cancelled"
  /\ routers' = routers \ {hfp}
  /\ hfp' = None
  /\ hfpSource' = NoDevice
  /\ main' = "hfpStopped"
  /\ UNCHANGED <<bluez, handling, sinkDevice, headphone, source, pipes, capture>>

StopLast ==
  /\ main = "hfpStopped"
  /\ StopPipeline
  /\ main' = "stopped"
  /\ UNCHANGED <<bluez, handling, sinkDevice, headphone, source, nPipelines, phoneOf,
                 calls, capture>>

Exit ==
  /\ main = "stopped"
  /\ main' = "exited"
  /\ UNCHANGED <<bluez, handling, sinkDevice, headphone, source, pipes, calls, capture>>

WatcherStep ==
  \/ TakeSinkAcquire \/ TakeSourceAcquire \/ TakeRelease \/ Leave
  \/ Debounce \/ StopOld \/ StartNew \/ StartRouter \/ KeepRouter \/ LaunchCapture
  \/ ForgetSource \/ StopReleased

Next ==
  \/ \E d \in Devices : Connect(d) \/ Play(d) \/ Pause(d) \/ Disconnect(d)
  \/ WatcherStep
  \/ \E g \in Pipelines : Record(g) \/ NoNode(g) \/ PwCatExits(g)
  \/ Interrupt \/ StopHFP \/ StopLast \/ Exit

\* The goroutines keep running; nothing makes devices connect or stream, or
\* the daemon stop.
Fairness ==
  /\ WF_vars(WatcherStep)
  /\ \A g \in Pipelines : WF_vars(NoNode(g)) /\ WF_vars(StopRecording(g))
  /\ WF_vars(StopHFP) /\ WF_vars(StopLast) /\ WF_vars(Exit)

Spec == Init /\ [][Next]_vars /\ Fairness

-----------------------------------------------------------------------------
(* Properties *)

\* Every variable has its type.
TypeOK ==
  /\ transport \in [Devices -> {"none", "idle", "active"}]
  /\ inbox \in Seq(Signals)
  /\ watcher \in {"select", "acquire", "stop", "start", "router", "launch",
                  "release", "stopping", "off"}
  /\ dev \in Devices \union {NoDevice}
  /\ sinkDevice \in Devices \union {NoDevice}
  /\ headphone \in Headphones \union {NoDevice}
  /\ source \in Devices \union {NoDevice}
  /\ nPipelines \in 0 .. MaxPipelines
  /\ pipeline \in Pipelines \union {None}
  /\ phoneOf \in [Pipelines -> Devices \union {NoDevice}]
  /\ cancelled \in SUBSET Pipelines
  /\ hfpSource \in Devices \union {NoDevice}
  /\ hfp \in Pipelines \union {None}
  /\ routers \in SUBSET Pipelines
  /\ capture \in [Pipelines -> {"off", "finding", "recording"}]
  /\ main \in {"running", "cancelled", "hfpStopped", "stopped", "exited"}

\* A recorder that is not of the current pipeline has been told to stop: no
\* acquire, release or shutdown leaves a recorder behind that nothing can stop
\* any more (main.go:132-144, 198-208).
NoStrayRecorder ==
  \A g \in Pipelines :
    capture[g] # "off" /\ g # pipeline => Cancelled(g)

\* The debounce compares with the phone that is really being recorded: while
\* there is a pipeline and a source, the pipeline is that phone's.
DebounceIsSound ==
  pipeline # None /\ source # NoDevice => phoneOf[pipeline] = source

\* One call router at most has a live context, it is the one stopHFP would
\* stop, and it serves the phone in currentHFPMAC.
OneRouter ==
  \A g \in routers : g = hfp /\ phoneOf[g] = hfpSource

\* "Runs on the main ctx so it survives A2DP->HFP profile switches"
\* (main.go:116-117): a router loses its context only to a router for another
\* phone or to the shutdown.
RouterSurvives ==
  [][\A g \in routers :
       g \notin routers' =>
         \/ main # "running"
         \/ hfp' \in routers' /\ phoneOf[hfp'] # phoneOf[g]]_vars

\* The signal of a device's departure is among these.
Leaving(signals, d) ==
  \E i \in 1 .. Len(signals) : signals[i] = [kind |-> "removed", dev |-> d]

\* Neither the pipeline of a phone nor its place as the tracked device, which
\* the API shows as connected, outlives the phone's transport: the signal of
\* its departure is on its way, or being handled.
NothingOutlivesTransport ==
  /\ pipeline # None /\ transport[phoneOf[pipeline]] = "none" =>
       Leaving(inbox, phoneOf[pipeline]) \/ watcher \in {"release", "stopping"}
  /\ sinkDevice # NoDevice /\ transport[sinkDevice] = "none" => Leaving(inbox, sinkDevice)

\* A recorder whose pipeline is stopped ends.
StoppedRecorderEnds ==
  \A g \in Pipelines :
    g \in cancelled ~> capture[g] = "off" \/ ~Up

=============================================================================
