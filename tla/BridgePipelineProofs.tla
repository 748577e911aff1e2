------------------------ MODULE BridgePipelineProofs ------------------------
(***************************************************************************)
(* Proofs about BridgePipeline for any devices, either adapter mode and    *)
(* any bounds.                                                             *)
(***************************************************************************)
EXTENDS BridgePipeline, SequenceTheorems, TLAPS

\* Numbers are handed out in order, and the watcher starts a pipeline only
\* when there is none.
Numbered ==
  /\ pipeline <= nPipelines
  /\ \A g \in routers : g <= nPipelines
  /\ \A g \in Pipelines : capture[g] # "off" => g <= nPipelines
  /\ pipeline # None => phoneOf[pipeline] \in Devices
  /\ watcher = "start" => pipeline = None
  /\ watcher \in {"acquire", "stop", "start", "router", "launch"} => dev \in Devices
  /\ watcher \in {"router", "launch"} =>
       nPipelines \in Pipelines /\ phoneOf[nPipelines] = dev

\* Every pipeline started before the current one has been stopped.
OthersStopped ==
  \A g \in Pipelines : g <= nPipelines /\ g # pipeline => Cancelled(g)

IInv == TypeOK /\ Numbered /\ OthersStopped /\ DebounceIsSound /\ OneRouter

LEMMA InvInit == Init => IInv
<1> SUFFICES ASSUME Init PROVE IInv
  OBVIOUS
<1> USE BoundsAssumption, DevicesAssumption DEF Init, Pipelines, None
<1>1. TypeOK
  BY DEF TypeOK, Signals, Devices
<1>2. Numbered /\ OthersStopped /\ DebounceIsSound /\ OneRouter
  BY DEF Numbered, OthersStopped, DebounceIsSound, OneRouter
<1>3. QED
  BY <1>1, <1>2 DEF IInv

\* The devices change the transports and add signals, nothing else.
LEMMA AnnounceKeeps ==
  ASSUME IInv, NEW d \in Devices, NEW state \in {"none", "idle", "active"},
         NEW kind \in {"added", "started", "stopped", "removed"},
         Announce(d, state, kind)
  PROVE  IInv'
<1>1. /\ transport' = [transport EXCEPT ![d] = state]
      /\ inbox' = Append(inbox, [kind |-> kind, dev |-> d])
      /\ UNCHANGED <<handling, sinkDevice, headphone, source, pipes, calls, capture, main>>
  BY DEF Announce
<1>2. TypeOK'
  <2>1. [kind |-> kind, dev |-> d] \in Signals
    BY DEF Signals
  <2>2. inbox' \in Seq(Signals)
    BY <1>1, <2>1 DEF IInv, TypeOK
  <2>3. transport' \in [Devices -> {"none", "idle", "active"}]
    BY <1>1 DEF IInv, TypeOK
  <2>4. QED
    BY <1>1, <2>2, <2>3 DEF IInv, TypeOK, handling, pipes, calls
<1>3. Numbered' /\ OthersStopped' /\ DebounceIsSound' /\ OneRouter'
  BY <1>1 DEF IInv, Numbered, OthersStopped, DebounceIsSound, OneRouter, Cancelled,
     handling, pipes, calls
<1>4. QED
  BY <1>2, <1>3 DEF IInv

\* stopPipeline leaves no pipeline, and the one there was is cancelled.
LEMMA StopKeeps ==
  ASSUME TypeOK, OthersStopped, StopPipeline, UNCHANGED <<nPipelines, phoneOf>>,
         main' # "running" \/ UNCHANGED main
  PROVE  /\ pipeline' = None
         /\ cancelled' \in SUBSET Pipelines
         /\ \A g \in Pipelines : g <= nPipelines => Cancelled(g)'
<1>1. /\ pipeline' = None
      /\ cancelled' = IF pipeline = None THEN cancelled ELSE cancelled \union {pipeline}
  BY DEF StopPipeline
<1>2. cancelled \subseteq cancelled' /\ (pipeline # None => pipeline \in cancelled')
  BY <1>1
<1>3. cancelled' \in SUBSET Pipelines
  BY <1>1 DEF TypeOK
<1>4. ASSUME NEW g \in Pipelines, g <= nPipelines
      PROVE  Cancelled(g)'
  <2>1. CASE g = pipeline
    BY <1>2, <2>1 DEF Cancelled, Pipelines, None
  <2>2. CASE g # pipeline
    BY <1>2, <1>4, <2>2 DEF Cancelled, OthersStopped
  <2>3. QED
    BY <2>1, <2>2
<1>5. QED
  BY <1>1, <1>3, <1>4

LEMMA WatcherKeeps == IInv /\ WatcherStep => IInv'
<1> SUFFICES ASSUME IInv, WatcherStep PROVE IInv'
  OBVIOUS
<1> USE BoundsAssumption
<1> USE DEF IInv, handling, bluez, pipes, calls
<1>a. inbox # <<>> =>
        Tail(inbox) \in Seq(Signals) /\ Head(inbox) \in Signals /\ Head(inbox).dev \in Devices
  <2>1. inbox # <<>> => Tail(inbox) \in Seq(Signals) /\ Head(inbox) \in Signals
    BY HeadTailProperties DEF TypeOK
  <2>2. QED
    BY <2>1 DEF Signals
<1>1. CASE TakeSinkAcquire
  BY <1>a, <1>1 DEF TakeSinkAcquire, Take, TypeOK, Numbered, OthersStopped,
     DebounceIsSound, OneRouter, Cancelled
<1>2. CASE TakeSourceAcquire
  <2>1. Head(inbox).dev \in Headphones
    BY <1>a, <1>2 DEF TakeSourceAcquire, Take, Role, Devices
  <2>2. QED
    BY <1>a, <1>2, <2>1 DEF TakeSourceAcquire, Take, TypeOK, Numbered, OthersStopped,
       DebounceIsSound, OneRouter, Cancelled
<1>3. CASE TakeRelease
  BY <1>a, <1>3 DEF TakeRelease, Take, TypeOK, Numbered, OthersStopped,
     DebounceIsSound, OneRouter, Cancelled
<1>4. CASE Leave
  BY <1>4 DEF Leave, TypeOK, Numbered, OthersStopped, DebounceIsSound, OneRouter, Cancelled
<1>5. CASE Debounce
  BY <1>5 DEF Debounce, TypeOK, Numbered, OthersStopped, DebounceIsSound, OneRouter, Cancelled
<1>6. CASE StopOld
  <2>1. /\ watcher = "stop" /\ watcher' = "start" /\ StopPipeline
        /\ UNCHANGED <<bluez, dev, sinkDevice, headphone, source, nPipelines, phoneOf,
                       calls, capture, main>>
    BY <1>6 DEF StopOld
  <2>2. /\ pipeline' = None
        /\ cancelled' \in SUBSET Pipelines
        /\ \A g \in Pipelines : g <= nPipelines => Cancelled(g)'
    BY <2>1, StopKeeps
  <2>3. TypeOK'
    BY <2>1, <2>2 DEF TypeOK
  <2>4. Numbered' /\ OthersStopped'
    BY <2>1, <2>2 DEF Numbered, OthersStopped, None, TypeOK
  <2>5. DebounceIsSound' /\ OneRouter'
    BY <2>1, <2>2 DEF DebounceIsSound, OneRouter
  <2>6. QED
    BY <2>3, <2>4, <2>5
<1>7. CASE StartNew
  <2>1. /\ watcher = "start" /\ watcher' = "router" /\ nPipelines < MaxPipelines
        /\ nPipelines' = nPipelines + 1 /\ pipeline' = nPipelines'
        /\ phoneOf' = [phoneOf EXCEPT ![nPipelines'] = dev]
        /\ source' = dev
        /\ UNCHANGED <<bluez, dev, sinkDevice, headphone, cancelled, calls, capture, main>>
    BY <1>7 DEF StartNew
  <2>2. pipeline = None /\ dev \in Devices
    BY <2>1 DEF Numbered
  <2>3. nPipelines' \in Pipelines /\ nPipelines \in Nat
    BY <2>1 DEF TypeOK, Pipelines
  <2>4. phoneOf'[nPipelines'] = dev /\ phoneOf' \in [Pipelines -> Devices \union {NoDevice}]
    BY <2>1, <2>2, <2>3 DEF TypeOK
  <2>5. TypeOK'
    BY <2>1, <2>2, <2>3, <2>4 DEF TypeOK, Pipelines
  <2>6. Numbered'
    BY <2>1, <2>2, <2>3, <2>4 DEF Numbered, TypeOK, Pipelines
  <2>7. OthersStopped'
    <3>1. SUFFICES ASSUME NEW g \in Pipelines, g <= nPipelines', g # pipeline'
                   PROVE  Cancelled(g)'
      BY DEF OthersStopped
    <3>2. g <= nPipelines /\ g # pipeline
      BY <2>1, <2>2, <2>3, <3>1 DEF Pipelines, None
    <3>3. QED
      BY <2>1, <3>2 DEF OthersStopped, Cancelled
  <2>8. DebounceIsSound'
    BY <2>1, <2>4 DEF DebounceIsSound
  <2>9. OneRouter'
    <3>1. SUFFICES ASSUME NEW g \in routers PROVE g = hfp /\ phoneOf'[g] = hfpSource
      BY <2>1 DEF OneRouter
    <3>2. g \in Pipelines /\ g # nPipelines'
      BY <2>1, <2>3 DEF Numbered, TypeOK, Pipelines
    <3>3. QED
      BY <2>1, <2>3, <3>2 DEF OneRouter, TypeOK
  <2>10. QED
    BY <2>5, <2>6, <2>7, <2>8, <2>9
<1>8. CASE StartRouter
  <2>1. /\ watcher = "router" /\ watcher' = "launch"
        /\ routers' = (routers \ {hfp}) \union {nPipelines}
        /\ hfp' = nPipelines /\ hfpSource' = dev
        /\ UNCHANGED <<bluez, dev, sinkDevice, headphone, source, pipes, capture, main>>
    BY <1>8 DEF StartRouter
  <2>2. nPipelines \in Pipelines /\ phoneOf[nPipelines] = dev /\ dev \in Devices
    BY <2>1 DEF Numbered
  <2>3. routers' = {nPipelines}
    BY <2>1 DEF OneRouter
  <2>4. QED
    BY <2>1, <2>2, <2>3 DEF TypeOK, Numbered, OthersStopped, DebounceIsSound, OneRouter,
       Cancelled, Pipelines
<1>9. CASE KeepRouter
  BY <1>9 DEF KeepRouter, TypeOK, Numbered, OthersStopped, DebounceIsSound, OneRouter, Cancelled
<1>10. CASE LaunchCapture
  <2>1. /\ watcher = "launch" /\ watcher' = "select" /\ dev' = NoDevice
        /\ capture' = [capture EXCEPT ![nPipelines] = "finding"]
        /\ UNCHANGED <<bluez, sinkDevice, headphone, source, pipes, calls, main>>
    BY <1>10 DEF LaunchCapture
  <2>2. nPipelines \in Pipelines
    BY <2>1 DEF Numbered
  <2>3. TypeOK'
    BY <2>1, <2>2 DEF TypeOK
  <2>4. Numbered'
    BY <2>1, <2>2 DEF Numbered, TypeOK, Pipelines
  <2>5. QED
    BY <2>1, <2>3, <2>4 DEF OthersStopped, DebounceIsSound, OneRouter, Cancelled
<1>11. CASE ForgetSource
  BY <1>11 DEF ForgetSource, TypeOK, Numbered, OthersStopped, DebounceIsSound, OneRouter,
     Cancelled
<1>12. CASE StopReleased
  <2>1. /\ watcher = "stopping" /\ watcher' = "select" /\ StopPipeline
        /\ UNCHANGED <<bluez, dev, sinkDevice, headphone, source, nPipelines, phoneOf,
                       calls, capture, main>>
    BY <1>12 DEF StopReleased
  <2>2. /\ pipeline' = None
        /\ cancelled' \in SUBSET Pipelines
        /\ \A g \in Pipelines : g <= nPipelines => Cancelled(g)'
    BY <2>1, StopKeeps
  <2>3. TypeOK'
    BY <2>1, <2>2 DEF TypeOK
  <2>4. Numbered' /\ OthersStopped'
    BY <2>1, <2>2 DEF Numbered, OthersStopped, None, TypeOK
  <2>5. DebounceIsSound' /\ OneRouter'
    BY <2>1, <2>2 DEF DebounceIsSound, OneRouter
  <2>6. QED
    BY <2>3, <2>4, <2>5
<1>13. QED
  BY <1>1, <1>2, <1>3, <1>4, <1>5, <1>6, <1>7, <1>8, <1>9, <1>10, <1>11, <1>12
  DEF WatcherStep

LEMMA RecorderKeeps ==
  ASSUME IInv, NEW g \in Pipelines, Record(g) \/ NoNode(g) \/ PwCatExits(g)
  PROVE  IInv'
<1> USE BoundsAssumption DEF IInv, handling, bluez, pipes, calls
<1>1. /\ \E state \in {"off", "recording"} : capture' = [capture EXCEPT ![g] = state]
      /\ capture[g] # "off"
      /\ UNCHANGED <<bluez, handling, sinkDevice, headphone, source, pipes, calls, main>>
  BY DEF Record, NoNode, PwCatExits
<1>2. PICK state \in {"off", "recording"} : capture' = [capture EXCEPT ![g] = state]
  BY <1>1
<1>3. TypeOK'
  BY <1>1, <1>2 DEF TypeOK
<1>4. Numbered'
  BY <1>1, <1>2 DEF Numbered, TypeOK
<1>5. OthersStopped' /\ DebounceIsSound' /\ OneRouter'
  BY <1>1 DEF OthersStopped, DebounceIsSound, OneRouter, Cancelled
<1>6. QED
  BY <1>3, <1>4, <1>5

LEMMA MainKeeps == IInv /\ (Interrupt \/ StopHFP \/ StopLast \/ Exit) => IInv'
<1> SUFFICES ASSUME IInv, Interrupt \/ StopHFP \/ StopLast \/ Exit PROVE IInv'
  OBVIOUS
<1> USE BoundsAssumption DEF IInv, handling, bluez, pipes, calls
<1>1. CASE Interrupt
  BY <1>1 DEF Interrupt, TypeOK, Numbered, OthersStopped, DebounceIsSound, OneRouter, Cancelled
<1>2. CASE StopHFP
  <2>1. /\ main = "cancelled" /\ main' = "hfpStopped" /\ routers' = routers \ {hfp}
        /\ hfp' = None /\ hfpSource' = NoDevice
        /\ UNCHANGED <<bluez, handling, sinkDevice, headphone, source, pipes, capture>>
    BY <1>2 DEF StopHFP
  <2>2. routers' = {}
    BY <2>1 DEF OneRouter
  <2>3. QED
    BY <2>1, <2>2 DEF TypeOK, Numbered, OthersStopped, DebounceIsSound, OneRouter, Cancelled
<1>3. CASE StopLast
  <2>1. /\ main' = "stopped" /\ StopPipeline
        /\ UNCHANGED <<bluez, handling, sinkDevice, headphone, source, nPipelines, phoneOf,
                       calls, capture>>
    BY <1>3 DEF StopLast
  <2>2. /\ pipeline' = None
        /\ cancelled' \in SUBSET Pipelines
        /\ \A g \in Pipelines : g <= nPipelines => Cancelled(g)'
    BY <2>1, StopKeeps
  <2>3. TypeOK'
    BY <2>1, <2>2 DEF TypeOK
  <2>4. Numbered' /\ OthersStopped'
    BY <2>1, <2>2 DEF Numbered, OthersStopped, None, TypeOK
  <2>5. DebounceIsSound' /\ OneRouter'
    BY <2>1, <2>2 DEF DebounceIsSound, OneRouter
  <2>6. QED
    BY <2>3, <2>4, <2>5
<1>4. CASE Exit
  BY <1>4 DEF Exit, TypeOK, Numbered, OthersStopped, DebounceIsSound, OneRouter, Cancelled
<1>5. QED
  BY <1>1, <1>2, <1>3, <1>4

LEMMA InvNext == IInv /\ [Next]_vars => IInv'
<1> SUFFICES ASSUME IInv, [Next]_vars PROVE IInv'
  OBVIOUS
<1>1. ASSUME NEW d \in Devices, Connect(d) \/ Play(d) \/ Pause(d) \/ Disconnect(d)
      PROVE  IInv'
  BY <1>1, AnnounceKeeps DEF Connect, Play, Pause, Disconnect
<1>2. CASE WatcherStep
  BY <1>2, WatcherKeeps
<1>3. ASSUME NEW g \in Pipelines, Record(g) \/ NoNode(g) \/ PwCatExits(g)
      PROVE  IInv'
  BY <1>3, RecorderKeeps
<1>4. CASE Interrupt \/ StopHFP \/ StopLast \/ Exit
  BY <1>4, MainKeeps
<1>5. CASE UNCHANGED vars
  BY <1>5 DEF vars, handling, bluez, pipes, calls, IInv, TypeOK, Numbered, OthersStopped,
     DebounceIsSound, OneRouter, Cancelled
<1>6. QED
  BY <1>1, <1>2, <1>3, <1>4, <1>5 DEF Next

LEMMA InvHolds == Spec => []IInv
BY InvInit, InvNext, PTL DEF Spec

-----------------------------------------------------------------------------
\* Every variable has its type, for any devices and bounds (main.go).
THEOREM TypeCorrect == Spec => []TypeOK
<1>1. IInv => TypeOK
  BY DEF IInv
<1>2. QED
  BY <1>1, InvHolds, PTL

\* No recorder escapes: every recorder that is not of the current pipeline has
\* been told to stop (main.go:132-144, 198-208).
THEOREM NoneStray == Spec => []NoStrayRecorder
<1>1. IInv => NoStrayRecorder
  BY DEF IInv, Numbered, OthersStopped, NoStrayRecorder, TypeOK
<1>2. QED
  BY <1>1, InvHolds, PTL

\* The debounce of onTransportAcquire judges the phone that is recorded.
THEOREM DebounceSound == Spec => []DebounceIsSound
<1>1. IInv => DebounceIsSound
  BY DEF IInv
<1>2. QED
  BY <1>1, InvHolds, PTL

\* At most one call router is live, for the phone in currentHFPMAC.
THEOREM RouterUnique == Spec => []OneRouter
<1>1. IInv => OneRouter
  BY DEF IInv
<1>2. QED
  BY <1>1, InvHolds, PTL

\* A call router survives every acquire and release of its own phone's
\* transports (main.go:116-117).
THEOREM RouterSurvivesHolds == Spec => RouterSurvives
<1>1. ASSUME IInv, [Next]_vars, NEW g \in routers, g \notin routers'
      PROVE  main # "running" \/ (hfp' \in routers' /\ phoneOf[hfp'] # phoneOf[g])
  <2> USE DEF pipes, calls
  <2>1. CASE StartRouter
    <3>1. /\ watcher = "router" /\ NeedsRouter /\ hfp' = nPipelines
          /\ routers' = (routers \ {hfp}) \union {nPipelines}
      BY <2>1 DEF StartRouter
    <3>2. phoneOf[nPipelines] = dev /\ phoneOf[g] = hfpSource
      BY <1>1, <3>1 DEF IInv, Numbered, OneRouter
    <3>3. QED
      BY <3>1, <3>2 DEF NeedsRouter
  <2>2. CASE StopHFP
    BY <2>2 DEF StopHFP
  <2>3. CASE UNCHANGED routers
    BY <1>1, <2>3
  <2>4. (StartRouter \/ StopHFP) \/ UNCHANGED routers
    BY <1>1 DEF Next, vars, Connect, Play, Pause, Disconnect, Announce, WatcherStep,
       TakeSinkAcquire, TakeSourceAcquire, TakeRelease, Leave, Debounce, StopOld, StartNew,
       KeepRouter, LaunchCapture, ForgetSource, StopReleased, Record, NoNode, PwCatExits,
       Interrupt, StopLast, Exit
  <2>5. QED
    BY <2>1, <2>2, <2>3, <2>4
<1>2. IInv /\ [Next]_vars =>
        [\A g \in routers :
           g \notin routers' =>
             \/ main # "running"
             \/ hfp' \in routers' /\ phoneOf[hfp'] # phoneOf[g]]_vars
  BY <1>1
<1>3. QED
  BY <1>2, InvHolds, PTL DEF Spec, RouterSurvives

-----------------------------------------------------------------------------
(* NothingOutlivesTransport: what makes it inductive is that the signals   *)
(* are handled in the order BlueZ sent them.                               *)

\* A signal that a transport is in use is followed by the one that it is gone,
\* if it is.
OrderedSignals(signals, states) ==
  \A i \in 1 .. Len(signals) :
    signals[i].kind \in {"added", "started"} /\ states[signals[i].dev] = "none" =>
      \E j \in i + 1 .. Len(signals) :
        signals[j] = [kind |-> "removed", dev |-> signals[i].dev]

\* So is such a signal while it is being handled.
Ordered ==
  /\ OrderedSignals(inbox, transport)
  /\ watcher \in {"acquire", "stop", "start"} /\ transport[dev] = "none" => Leaving(inbox, dev)
  /\ sinkDevice # NoDevice => Role(sinkDevice) = "sink"

TInv == IInv /\ Ordered /\ NothingOutlivesTransport

\* A departure stays among the signals when one is added.
LEMMA LeavingAppend ==
  ASSUME NEW I \in Seq(Signals), NEW m \in Signals, NEW d,
         Leaving(I, d) \/ m = [kind |-> "removed", dev |-> d]
  PROVE  Leaving(Append(I, m), d)
<1>1. /\ Len(Append(I, m)) = Len(I) + 1
      /\ \A i \in 1 .. Len(I) : Append(I, m)[i] = I[i]
      /\ Append(I, m)[Len(I) + 1] = m
      /\ Len(I) \in Nat
  BY AppendProperties, LenProperties
<1>2. QED
  BY <1>1 DEF Leaving

\* It stays among them when another one is taken.
LEMMA LeavingTail ==
  ASSUME NEW I \in Seq(Signals), I # <<>>, NEW d, Leaving(I, d),
         Head(I) # [kind |-> "removed", dev |-> d]
  PROVE  Leaving(Tail(I), d)
<1>1. /\ Len(Tail(I)) = Len(I) - 1
      /\ \A i \in 1 .. Len(Tail(I)) : Tail(I)[i] = I[i + 1]
      /\ Len(I) \in Nat
  BY HeadTailProperties, LenProperties
<1>2. PICK i \in 1 .. Len(I) : I[i] = [kind |-> "removed", dev |-> d]
  BY DEF Leaving
<1>3. i # 1
  BY <1>2
<1>4. i - 1 \in 1 .. Len(Tail(I)) /\ Tail(I)[i - 1] = I[i]
  BY <1>1, <1>2, <1>3
<1>5. QED
  BY <1>2, <1>4 DEF Leaving

\* What is left of ordered signals is ordered, and the one that is taken is
\* followed by its departure.
LEMMA OrderedTail ==
  ASSUME NEW I \in Seq(Signals), I # <<>>, NEW T, OrderedSignals(I, T)
  PROVE  /\ OrderedSignals(Tail(I), T)
         /\ Head(I).kind \in {"added", "started"} /\ T[Head(I).dev] = "none" =>
              Leaving(Tail(I), Head(I).dev)
<1>1. /\ Len(Tail(I)) = Len(I) - 1
      /\ \A i \in 1 .. Len(Tail(I)) : Tail(I)[i] = I[i + 1]
      /\ Len(I) \in Nat
      /\ Head(I) = I[1]
  BY HeadTailProperties, LenProperties
<1>2. Len(I) >= 1
  BY EmptySeq, LenProperties, <1>1
<1>3. ASSUME NEW i \in 1 .. Len(Tail(I)), Tail(I)[i].kind \in {"added", "started"},
             T[Tail(I)[i].dev] = "none"
      PROVE  \E j \in i + 1 .. Len(Tail(I)) :
               Tail(I)[j] = [kind |-> "removed", dev |-> Tail(I)[i].dev]
  <2>1. i + 1 \in 1 .. Len(I) /\ Tail(I)[i] = I[i + 1]
    BY <1>1
  <2>2. PICK j \in (i + 1) + 1 .. Len(I) : I[j] = [kind |-> "removed", dev |-> I[i + 1].dev]
    BY <1>3, <2>1 DEF OrderedSignals
  <2>3. j - 1 \in i + 1 .. Len(Tail(I)) /\ Tail(I)[j - 1] = I[j]
    BY <1>1, <2>2
  <2>4. QED
    BY <2>1, <2>2, <2>3
<1>4. ASSUME Head(I).kind \in {"added", "started"}, T[Head(I).dev] = "none"
      PROVE  Leaving(Tail(I), Head(I).dev)
  <2>1. PICK j \in 1 + 1 .. Len(I) : I[j] = [kind |-> "removed", dev |-> Head(I).dev]
    BY <1>1, <1>2, <1>4 DEF OrderedSignals
  <2>2. j - 1 \in 1 .. Len(Tail(I)) /\ Tail(I)[j - 1] = I[j]
    BY <1>1, <2>1
  <2>3. QED
    BY <2>1, <2>2 DEF Leaving
<1>5. QED
  BY <1>3, <1>4 DEF OrderedSignals

\* They stay ordered when a change of state is announced.
LEMMA OrderedAppend ==
  ASSUME NEW I \in Seq(Signals), NEW T, NEW U, NEW m \in Signals, OrderedSignals(I, T),
         m.kind \in {"added", "started"} => U[m.dev] # "none",
         \A d \in Devices :
           U[d] = "none" => T[d] = "none" \/ m = [kind |-> "removed", dev |-> d]
  PROVE  OrderedSignals(Append(I, m), U)
<1> DEFINE J == Append(I, m)
<1>1. /\ Len(J) = Len(I) + 1
      /\ \A i \in 1 .. Len(I) : J[i] = I[i] /\ I[i] \in Signals
      /\ J[Len(I) + 1] = m
      /\ Len(I) \in Nat
  BY AppendProperties, LenProperties
<1> HIDE DEF J
<1>2. SUFFICES ASSUME NEW i \in 1 .. Len(J), J[i].kind \in {"added", "started"},
                      U[J[i].dev] = "none"
               PROVE  \E j \in i + 1 .. Len(J) : J[j] = [kind |-> "removed", dev |-> J[i].dev]
  BY DEF OrderedSignals, J
<1>3. i # Len(I) + 1
  BY <1>1, <1>2
<1>4. i \in 1 .. Len(I) /\ J[i] = I[i] /\ I[i].dev \in Devices
  BY <1>1, <1>3 DEF Signals
<1>5. CASE T[I[i].dev] = "none"
  <2>1. PICK j \in i + 1 .. Len(I) : I[j] = [kind |-> "removed", dev |-> I[i].dev]
    BY <1>2, <1>4, <1>5 DEF OrderedSignals
  <2>2. j \in i + 1 .. Len(J) /\ J[j] = I[j]
    BY <1>1, <1>4, <2>1
  <2>3. QED
    BY <1>4, <2>1, <2>2
<1>6. CASE m = [kind |-> "removed", dev |-> I[i].dev]
  <2>1. Len(I) + 1 \in i + 1 .. Len(J)
    BY <1>1, <1>4
  <2>2. QED
    BY <1>1, <1>4, <1>6, <2>1
<1>7. QED
  BY <1>2, <1>4, <1>5, <1>6

LEMMA OrderInit == Init => Ordered /\ NothingOutlivesTransport
BY DEF Init, Ordered, OrderedSignals, NothingOutlivesTransport, None

LEMMA OrderAnnounce ==
  ASSUME TInv, NEW d \in Devices, NEW state \in {"none", "idle", "active"},
         NEW kind \in {"added", "started", "stopped", "removed"},
         kind \in {"added", "started"} => state # "none",
         state = "none" => kind = "removed",
         Announce(d, state, kind)
  PROVE  Ordered' /\ NothingOutlivesTransport'
<1> DEFINE m == [kind |-> kind, dev |-> d]
<1>1. /\ transport' = [transport EXCEPT ![d] = state]
      /\ inbox' = Append(inbox, m)
      /\ UNCHANGED <<watcher, dev, sinkDevice, pipeline, phoneOf>>
  BY DEF Announce, handling, pipes
<1>2. /\ m \in Signals /\ inbox \in Seq(Signals) /\ IInv /\ Ordered /\ NothingOutlivesTransport
      /\ transport \in [Devices -> {"none", "idle", "active"}]
  BY DEF Signals, TInv, IInv, TypeOK
<1>3. \A e \in Devices : transport'[e] = "none" => transport[e] = "none" \/ m = [kind |-> "removed", dev |-> e]
  BY <1>1, <1>2
<1>4. ASSUME NEW e \in Devices, transport'[e] = "none", transport[e] = "none" => Leaving(inbox, e)
      PROVE  Leaving(inbox', e)
  BY <1>1, <1>2, <1>3, <1>4, LeavingAppend
<1>5. OrderedSignals(inbox', transport')
  <2>1. m.kind \in {"added", "started"} => transport'[m.dev] # "none"
    BY <1>1, <1>2
  <2>2. OrderedSignals(inbox, transport)
    BY <1>2 DEF Ordered
  <2>3. inbox \in Seq(Signals) /\ m \in Signals /\ inbox' = Append(inbox, m)
    BY <1>1, <1>2
  <2> HIDE DEF m
  <2>4. OrderedSignals(Append(inbox, m), transport')
    BY <1>3, <2>1, <2>2, <2>3, OrderedAppend
  <2>5. QED
    BY <2>3, <2>4
<1>6. watcher \in {"acquire", "stop", "start"} /\ transport'[dev] = "none" => Leaving(inbox', dev)
  BY <1>2, <1>4 DEF IInv, Numbered, Ordered
<1>7. Ordered'
  BY <1>1, <1>2, <1>5, <1>6 DEF Ordered, Role
<1>8. pipeline # None /\ transport'[phoneOf[pipeline]] = "none" =>
        Leaving(inbox', phoneOf[pipeline]) \/ watcher \in {"release", "stopping"}
  BY <1>2, <1>4 DEF IInv, Numbered, NothingOutlivesTransport
<1>9. sinkDevice # NoDevice /\ transport'[sinkDevice] = "none" => Leaving(inbox', sinkDevice)
  BY <1>2, <1>4 DEF IInv, TypeOK, NothingOutlivesTransport
<1>10. NothingOutlivesTransport'
  BY <1>1, <1>8, <1>9 DEF NothingOutlivesTransport
<1>11. QED
  BY <1>7, <1>10

LEMMA OrderWatcher == TInv /\ WatcherStep => Ordered' /\ NothingOutlivesTransport'
<1> SUFFICES ASSUME TInv, WatcherStep PROVE Ordered' /\ NothingOutlivesTransport'
  OBVIOUS
<1>a. IInv /\ Ordered /\ NothingOutlivesTransport /\ inbox \in Seq(Signals)
  BY DEF TInv, IInv, TypeOK
<1>b. inbox # <<>> => Head(inbox) \in Signals /\ Head(inbox).dev \in Devices
  <2>1. inbox # <<>> => Head(inbox) \in Signals
    BY <1>a, HeadTailProperties
  <2>2. QED
    BY <2>1 DEF Signals
<1>c. inbox # <<>> => OrderedSignals(Tail(inbox), transport)
  BY <1>a, OrderedTail DEF Ordered
<1> USE DEF pipes, bluez, handling
<1>1. CASE TakeSinkAcquire
  <2>1. /\ inbox # <<>> /\ inbox' = Tail(inbox) /\ Head(inbox).kind \in {"added", "started"}
        /\ Role(Head(inbox).dev) = "sink" /\ dev' = Head(inbox).dev /\ sinkDevice' = dev'
        /\ watcher = "select" /\ watcher' = "acquire" /\ UNCHANGED <<transport, pipeline, phoneOf>>
    BY <1>1 DEF TakeSinkAcquire, Take
  <2>2. transport[dev'] = "none" => Leaving(inbox', dev')
    BY <1>a, <2>1, OrderedTail DEF Ordered
  <2>3. pipeline # None /\ transport[phoneOf[pipeline]] = "none" =>
          Leaving(inbox', phoneOf[pipeline])
    <3>1. Head(inbox) # [kind |-> "removed", dev |-> phoneOf[pipeline]]
      BY <2>1
    <3>2. QED
      BY <1>a, <2>1, <3>1, LeavingTail DEF NothingOutlivesTransport
  <2>4. Ordered'
    BY <1>c, <2>1, <2>2 DEF Ordered, Role
  <2>5. NothingOutlivesTransport'
    BY <2>1, <2>2, <2>3 DEF NothingOutlivesTransport
  <2>6. QED
    BY <2>4, <2>5
<1>2. CASE TakeSourceAcquire
  <2>1. /\ inbox # <<>> /\ inbox' = Tail(inbox) /\ Head(inbox).kind \in {"added", "started"}
        /\ watcher = "select"
        /\ UNCHANGED <<transport, watcher, dev, sinkDevice, pipeline, phoneOf>>
    BY <1>2 DEF TakeSourceAcquire, Take
  <2>2. \A d : Leaving(inbox, d) => Leaving(inbox', d)
    <3>1. SUFFICES ASSUME NEW d, Leaving(inbox, d) PROVE Leaving(inbox', d)
      OBVIOUS
    <3>2. Head(inbox) # [kind |-> "removed", dev |-> d]
      BY <2>1
    <3>3. QED
      BY <1>a, <2>1, <3>1, <3>2, LeavingTail
  <2>3. Ordered'
    BY <1>a, <1>c, <2>1 DEF Ordered, Role
  <2>4. NothingOutlivesTransport'
    BY <1>a, <2>1, <2>2 DEF NothingOutlivesTransport
  <2>5. QED
    BY <2>3, <2>4
<1>3. CASE TakeRelease
  <2>1. /\ inbox # <<>> /\ inbox' = Tail(inbox)
        /\ sinkDevice' = IF Head(inbox).kind = "removed" /\ Role(Head(inbox).dev) = "sink"
                         THEN NoDevice ELSE sinkDevice
        /\ watcher' = "release" /\ UNCHANGED <<transport, pipeline, phoneOf>>
    BY <1>3 DEF TakeRelease, Take
  <2>2. sinkDevice' # NoDevice /\ transport[sinkDevice'] = "none" => Leaving(inbox', sinkDevice')
    <3>1. SUFFICES ASSUME sinkDevice' # NoDevice, transport[sinkDevice'] = "none"
                   PROVE  Leaving(inbox', sinkDevice')
      OBVIOUS
    <3>2. sinkDevice' = sinkDevice /\ Leaving(inbox, sinkDevice) /\ Role(sinkDevice) = "sink"
      BY <1>a, <2>1, <3>1 DEF NothingOutlivesTransport, Ordered
    <3>3. Head(inbox) # [kind |-> "removed", dev |-> sinkDevice]
      BY <2>1, <3>1, <3>2
    <3>4. QED
      BY <1>a, <2>1, <3>2, <3>3, LeavingTail
  <2>3. Ordered'
    BY <1>a, <1>c, <2>1 DEF Ordered, Role
  <2>4. NothingOutlivesTransport'
    BY <2>1, <2>2 DEF NothingOutlivesTransport
  <2>5. QED
    BY <2>3, <2>4
<1>4. CASE Leave \/ Debounce
  <2>1. /\ \/ watcher = "select" /\ watcher' = "off"
           \/ watcher = "acquire" /\ watcher' \in {"select", "stop"}
        /\ watcher' = "stop" => dev' = dev
        /\ UNCHANGED <<transport, inbox, sinkDevice, pipeline, phoneOf>>
    BY <1>4 DEF Leave, Debounce
  <2>2. Ordered'
    BY <1>a, <2>1 DEF Ordered, Role
  <2>3. NothingOutlivesTransport'
    BY <1>a, <2>1 DEF NothingOutlivesTransport
  <2>4. QED
    BY <2>2, <2>3
<1>5. CASE StopOld \/ StopReleased
  <2>1. /\ (watcher = "stop" /\ watcher' = "start") \/ watcher' = "select"
        /\ pipeline' = None /\ UNCHANGED <<transport, inbox, dev, sinkDevice>>
    BY <1>5 DEF StopOld, StopReleased, StopPipeline
  <2>2. Ordered'
    BY <1>a, <2>1 DEF Ordered, Role
  <2>3. NothingOutlivesTransport'
    BY <1>a, <2>1 DEF NothingOutlivesTransport
  <2>4. QED
    BY <2>2, <2>3
<1>6. CASE StartNew
  <2>1. /\ watcher = "start" /\ watcher' = "router" /\ pipeline' = nPipelines'
        /\ nPipelines < MaxPipelines /\ nPipelines' = nPipelines + 1
        /\ phoneOf' = [phoneOf EXCEPT ![nPipelines'] = dev]
        /\ UNCHANGED <<transport, inbox, dev, sinkDevice>>
    BY <1>6 DEF StartNew
  <2>2. phoneOf'[pipeline'] = dev
    BY <1>a, <2>1, BoundsAssumption DEF IInv, TypeOK, Pipelines
  <2>3. transport[dev] = "none" => Leaving(inbox, dev)
    BY <1>a, <2>1 DEF Ordered
  <2>4. Ordered'
    BY <1>a, <2>1 DEF Ordered, Role
  <2>5. NothingOutlivesTransport'
    BY <1>a, <2>1, <2>2, <2>3 DEF NothingOutlivesTransport
  <2>6. QED
    BY <2>4, <2>5
<1>7. CASE StartRouter \/ KeepRouter \/ LaunchCapture \/ ForgetSource
  <2>1. /\ watcher' \in {"launch", "select", "stopping"}
        /\ watcher = "release" => watcher' = "stopping"
        /\ watcher \in {"router", "launch", "release"}
        /\ UNCHANGED <<transport, inbox, sinkDevice, pipeline, phoneOf>>
    BY <1>7 DEF StartRouter, KeepRouter, LaunchCapture, ForgetSource
  <2>2. Ordered'
    BY <1>a, <2>1 DEF Ordered, Role
  <2>3. NothingOutlivesTransport'
    BY <1>a, <2>1 DEF NothingOutlivesTransport
  <2>4. QED
    BY <2>2, <2>3
<1>8. QED
  BY <1>1, <1>2, <1>3, <1>4, <1>5, <1>6, <1>7 DEF WatcherStep

LEMMA OrderNext == TInv /\ [Next]_vars => Ordered' /\ NothingOutlivesTransport'
<1> SUFFICES ASSUME TInv, [Next]_vars PROVE Ordered' /\ NothingOutlivesTransport'
  OBVIOUS
<1> USE DEF pipes, bluez, handling
<1>1. ASSUME NEW d \in Devices, Connect(d) \/ Play(d) \/ Pause(d) \/ Disconnect(d)
      PROVE  Ordered' /\ NothingOutlivesTransport'
  BY <1>1, OrderAnnounce DEF Connect, Play, Pause, Disconnect
<1>2. CASE WatcherStep
  BY <1>2, OrderWatcher
<1>3. CASE UNCHANGED <<transport, inbox, watcher, dev, sinkDevice, phoneOf>>
           /\ (pipeline' = None \/ UNCHANGED pipeline)
  <2>1. Ordered'
    BY <1>3 DEF TInv, Ordered, Role
  <2>2. NothingOutlivesTransport'
    BY <1>3 DEF TInv, NothingOutlivesTransport
  <2>3. QED
    BY <2>1, <2>2
<1>4. CASE StopLast
  BY <1>3, <1>4 DEF StopLast, StopPipeline
<1>5. ASSUME NEW g \in Pipelines, Record(g) \/ NoNode(g) \/ PwCatExits(g)
      PROVE  Ordered' /\ NothingOutlivesTransport'
  BY <1>3, <1>5 DEF Record, NoNode, PwCatExits
<1>6. CASE Interrupt \/ StopHFP \/ Exit \/ UNCHANGED vars
  BY <1>3, <1>6 DEF Interrupt, StopHFP, Exit, vars
<1>7. QED
  BY <1>1, <1>2, <1>4, <1>5, <1>6 DEF Next

\* Neither a pipeline nor the tracked device outlives the transport it belongs
\* to: the departure is on its way or being handled (adapter.go:848-927).
THEOREM NothingOutlives == Spec => []NothingOutlivesTransport
<1>1. Init => TInv
  BY InvInit, OrderInit DEF TInv
<1>2. TInv /\ [Next]_vars => TInv'
  BY InvNext, OrderNext DEF TInv
<1>3. TInv => NothingOutlivesTransport
  BY DEF TInv
<1>4. QED
  BY <1>1, <1>2, <1>3, PTL DEF Spec
=============================================================================
