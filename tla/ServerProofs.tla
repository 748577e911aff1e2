---------------------------- MODULE ServerProofs ----------------------------
(***************************************************************************)
(* Proofs about two parts of the AI server that share no state: the job    *)
(* queue, with the service it implements, and the memory of the models.    *)
(***************************************************************************)
EXTENDS JobQueue, ModelMemory, TLAPS

-----------------------------------------------------------------------------
(* The job queue, for any number of jobs, any types and times to live.     *)

\* Ids beyond nSubmitted are untouched; the others have a type.
Fresh ==
  \A j \in Jobs :
    /\ j > nSubmitted => status[j] = "absent"
    /\ status[j] = "absent" => event[j] = "none" /\ result[j] = "none" /\ caller[j] = "none"
    /\ status[j] # "absent" => kind[j] \in Types

\* The worker has a job exactly while a handler runs, and that job's row was
\* marked running; only its monitor can have changed it since.
Busy ==
  /\ worker = "handling" <=> working # NoJob
  /\ working # NoJob => status[working] \in {"running", "expired", "deleted"}

\* A caller may wait for a job that is not settled; an event that is set comes
\* with an outcome, which is the timeout if the handler still runs; an answered
\* caller has popped the event.
Told ==
  \A j \in Jobs :
    /\ status[j] \in {"pending", "running"} => event[j] = "unset"
    /\ status[j] \in Settled => event[j] # "unset"
    /\ event[j] = "set" => result[j] # "none"
    /\ event[j] = "set" /\ working = j => result[j] = "timeout"
    /\ event[j] = "none" /\ status[j] # "absent" => caller[j] \in Outcomes
    /\ event[j] = "none" /\ working = j => caller[j] = "timeout"
    /\ caller[j] \in Outcomes => event[j] = "none"

IInv == TypeOK /\ Fresh /\ Busy /\ Told /\ NoLostWakeup

-----------------------------------------------------------------------------
(* Lemmas about the operators *)

\* The job that pop_next takes is pending.
LEMMA NextJobPending ==
  ASSUME NEW j \in NextJob
  PROVE  j \in Jobs /\ status[j] = "pending"
  BY DEF NextJob, Oldest, Pending

\* A new row takes the next id, which no job has used.
LEMMA NextId ==
  ASSUME IInv, nSubmitted < MaxJobs
  PROVE  /\ nSubmitted + 1 \in Jobs
         /\ nSubmitted + 1 \in 0 .. MaxJobs
         /\ status[nSubmitted + 1] = "absent"
  BY NumbersAssumption DEF IInv, TypeOK, Fresh, Jobs

-----------------------------------------------------------------------------
LEMMA InvInit == Init => IInv
<1> SUFFICES ASSUME Init PROVE IInv
  OBVIOUS
<1> USE NumbersAssumption, TypesAssumption DEF Init, NoJob, Settled, Outcomes
<1>1. TypeOK
  <2>1. kind \in [Jobs -> Types \union {NoType}]
    OBVIOUS
  <2>2. status \in [Jobs -> Settled \union {"absent", "pending", "running", "deleted"}]
    OBVIOUS
  <2>3. /\ event \in [Jobs -> {"none", "unset", "set"}]
        /\ result \in [Jobs -> Outcomes \union {"none"}]
        /\ caller \in [Jobs -> Outcomes \union {"none", "waiting"}]
    OBVIOUS
  <2>4. nSubmitted \in 0 .. MaxJobs /\ left \in Nat \union {-1}
    OBVIOUS
  <2>5. QED
    BY <2>1, <2>2, <2>3, <2>4 DEF TypeOK
<1>2. Fresh /\ Busy /\ Told
  BY DEF Fresh, Busy, Told, Jobs
<1>3. NoLostWakeup
  BY DEF NoLostWakeup, Pending
<1>4. QED
  BY <1>1, <1>2, <1>3 DEF IInv

LEMMA InvStep == IInv /\ [Next]_vars => IInv'
<1> SUFFICES ASSUME IInv, [Next]_vars PROVE IInv'
  OBVIOUS
<1> USE NumbersAssumption, TypesAssumption
    DEF IInv, TypeOK, Fresh, Busy, Told, NoLostWakeup, Pending, NoJob, Jobs, Settled, Outcomes,
        rows, answers, loop
<1>1. ASSUME NEW t \in Types, Submit(t) PROVE IInv'
  <2>1. /\ nSubmitted + 1 \in Jobs /\ nSubmitted + 1 \in 0 .. MaxJobs
        /\ status[nSubmitted + 1] = "absent"
    BY <1>1, NextId DEF Submit
  <2>2. TypeOK'
    BY <1>1, <2>1 DEF Submit
  <2>3. Fresh'
    BY <1>1, <2>1 DEF Submit, Jobs
  <2>4. Busy'
    BY <1>1, <2>1 DEF Submit
  <2>5. Told'
    BY <1>1, <2>1 DEF Submit
  <2>6. NoLostWakeup'
    BY <1>1 DEF Submit
  <2>7. QED
    BY <2>2, <2>3, <2>4, <2>5, <2>6
<1>2. ASSUME NEW j \in Jobs, Wait(j) \/ GiveUp(j) PROVE IInv'
  <2>1. /\ caller[j] \in {"none", "waiting"}
        /\ \/ caller' = [caller EXCEPT ![j] = "waiting"]
           \/ caller' = [caller EXCEPT ![j] = "none"]
        /\ event[j] # "none" \/ caller[j] = "waiting"
        /\ UNCHANGED <<nSubmitted, rows, loop, monitoring, answers>>
    BY <1>2, Zenon DEF Wait, GiveUp
  <2>2. caller' \in [Jobs -> Outcomes \union {"none", "waiting"}]
    BY <2>1
  <2>3. status[j] # "absent"
    BY <2>1
  <2>4. Fresh' /\ Told'
    BY <2>1, <2>2, <2>3
  <2>5. TypeOK' /\ Busy' /\ NoLostWakeup'
    BY <2>1, <2>2
  <2>6. QED
    BY <2>4, <2>5
<1>3. ASSUME NEW j \in Jobs, Collect(j) PROVE IInv'
  <2>1. /\ caller[j] = "waiting" /\ event[j] = "set"
        /\ caller' = [caller EXCEPT ![j] = result[j]]
        /\ result' = [result EXCEPT ![j] = "none"]
        /\ event' = [event EXCEPT ![j] = "none"]
        /\ UNCHANGED <<nSubmitted, rows, loop, monitoring>>
    BY <1>3, Zenon DEF Collect
  <2>2. result[j] \in Outcomes /\ status[j] # "absent"
    BY <2>1
  <2>3. TypeOK'
    BY <2>1, <2>2
  <2>4. Fresh'
    BY <2>1, <2>2
  <2>5. Told'
    BY <2>1, <2>2
  <2>6. Busy' /\ NoLostWakeup'
    BY <2>1
  <2>7. QED
    BY <2>3, <2>4, <2>5, <2>6
<1>4. CASE Wake
  <2>1. /\ signal' = FALSE /\ worker' = "popping" /\ worker = "waiting"
        /\ UNCHANGED <<nSubmitted, rows, loaded, working, left, monitoring, answers, caller>>
    BY <1>4, Zenon DEF Wake
  <2>2. TypeOK'
    BY <2>1
  <2>3. Fresh' /\ Told'
    BY <2>1
  <2>4. Busy' /\ NoLostWakeup'
    BY <2>1
  <2>5. QED
    BY <2>2, <2>3, <2>4
<1>14. CASE NothingPending
  BY <1>14 DEF NothingPending
<1>5. ASSUME NEW j \in Jobs, Pop(j) PROVE IInv'
  <2>1. status[j] = "pending" /\ kind[j] \in Types /\ Ttl[kind[j]] \in Nat
    BY <1>5, NextJobPending DEF Pop
  <2>2. QED
    BY <1>5, <2>1 DEF Pop
<1>6. ASSUME NEW j \in Jobs, PopUnhandled(j) PROVE IInv'
  <2>1. status[j] = "pending" /\ kind[j] \in Types
    BY <1>6, NextJobPending DEF PopUnhandled
  <2>2. QED
    BY <1>6, <2>1 DEF PopUnhandled, SignalCompletion
<1>7. CASE HandlerStep
  <2>1. PICK s \in {"done", "failed"}, o \in {"value", "error"} : HandlerEnds(s, o)
    BY <1>7 DEF HandlerStep
  <2>2. QED
    BY <2>1 DEF HandlerEnds, Mark, SignalCompletion
<1>8. CASE Heartbeat
  BY <1>8 DEF Heartbeat
<1>9. CASE MonitorStep
  <2>1. PICK old \in SUBSET Finished : Monitor(old)
    BY <1>9 DEF MonitorStep
  <2>2. QED
    BY <2>1 DEF Monitor, Finished, Stale, SignalCompletion, Suspended
<1>10. CASE Tick
  BY <1>10 DEF Tick
<1>11. CASE Stop
  <2>1. /\ monitoring' = FALSE /\ worker' = "off" /\ working' = NoJob /\ left' = 0
        /\ UNCHANGED <<nSubmitted, rows, signal, loaded, answers, caller>>
    BY <1>11, Zenon DEF Stop
  <2>2. TypeOK'
    BY <2>1
  <2>3. Busy' /\ NoLostWakeup'
    BY <2>1
  <2>4. Fresh'
    BY <2>1
  <2>5. Told'
    BY <2>1
  <2>6. QED
    BY <2>2, <2>3, <2>4, <2>5
<1>12. CASE UNCHANGED vars
  BY <1>12 DEF vars
<1>13. QED
  BY <1>1, <1>2, <1>3, <1>4, <1>5, <1>6, <1>7, <1>8, <1>9, <1>10, <1>11, <1>12, <1>14
     DEF Next, PopNext

THEOREM InvHolds == Spec => []IInv
  BY InvInit, InvStep, PTL DEF Spec

\* TypeOK holds for any jobs, types, handlers and times to live.
THEOREM TypeCorrect == Spec => []TypeOK
  BY InvHolds, PTL DEF IInv

\* The worker never sleeps over a pending job.
THEOREM WakeupKept == Spec => []NoLostWakeup
  BY InvHolds, PTL DEF IInv

\* Whoever ends a job tells its waiter, and with an outcome.
THEOREM SettledSignalled == Spec => []SettledIsSignalled
<1>1. IInv => SettledIsSignalled
  BY DEF IInv, Told, SettledIsSignalled
<1>2. QED
  BY <1>1, InvHolds, PTL

-----------------------------------------------------------------------------
(* The action properties *)

LEMMA SettledStep ==
  ASSUME IInv, [Next]_vars, NEW j \in Jobs, status[j] \in Settled, status'[j] # status[j]
  PROVE  status'[j] = "deleted" \/ (status[j] = "expired" /\ working = j)
<1> USE DEF IInv, TypeOK, Busy, Settled, NoJob, rows
<1>1. ASSUME NEW t \in Types, Submit(t) PROVE FALSE
  BY <1>1, NextId DEF Submit
<1>2. ASSUME NEW i \in Jobs, Pop(i) \/ PopUnhandled(i) PROVE FALSE
  BY <1>2, NextJobPending DEF Pop, PopUnhandled
<1>3. ASSUME NEW s, NEW o, HandlerEnds(s, o) PROVE status[j] = "expired" /\ working = j
  BY <1>3 DEF HandlerEnds, Mark
<1>4. CASE MonitorStep
  BY <1>4 DEF MonitorStep, Monitor, Finished, Stale
<1>5. ASSUME ~MonitorStep,
             \A t \in Types : ~Submit(t),
             \A i \in Jobs : ~(Pop(i) \/ PopUnhandled(i)),
             ~HandlerStep
      PROVE  UNCHANGED status
  BY <1>5 DEF Next, vars, Wait, Collect, GiveUp, Wake, NothingPending, PopNext, Heartbeat,
              Tick, Stop
<1>6. QED
  BY <1>1, <1>2, <1>3, <1>4, <1>5 DEF HandlerStep

\* Only cleaning up, or the late end of an expired job, touches a settled job.
THEOREM SettledStaysHolds == Spec => SettledStays
<1>1. IInv /\ [Next]_vars =>
        [\A j \in Jobs :
           status[j] \in Settled /\ status'[j] # status[j] =>
             status'[j] = "deleted" \/ (status[j] = "expired" /\ working = j)]_vars
  BY SettledStep
<1>2. QED
  BY <1>1, InvHolds, PTL DEF Spec, SettledStays

\* A job that is taken before an older one spares a model swap.
LEMMA NextJobBatches ==
  ASSUME NEW j \in NextJob, NEW i \in Jobs, i < j, status[i] = "pending"
  PROVE  kind[j] = loaded /\ kind[i] # loaded
<1> DEFINE preferred == {k \in Pending : kind[k] = loaded}
<1>1. i \in Pending /\ i \in Int /\ j \in Int /\ ~(j <= i)
  BY NextJobPending, NumbersAssumption DEF Pending, Jobs
<1>2. preferred # {}
  BY <1>1 DEF NextJob, Oldest
<1>3. j \in Oldest(preferred)
  BY <1>2 DEF NextJob
<1> QED BY <1>1, <1>3 DEF Oldest

LEMMA OvertakeStep ==
  ASSUME IInv, [Next]_vars, NEW i \in Jobs, NEW j \in Jobs, i < j,
         status[i] = "pending", status'[i] = "pending",
         status[j] = "pending", status'[j] # "pending"
  PROVE  kind[j] = loaded /\ kind[i] # loaded
<1> USE DEF IInv, TypeOK, Busy, Settled, NoJob, rows
<1>1. ASSUME NEW t \in Types, Submit(t) PROVE FALSE
  BY <1>1, NextId DEF Submit
<1>2. ASSUME NEW k \in Jobs, Pop(k) \/ PopUnhandled(k) PROVE k = j /\ j \in NextJob
  BY <1>2, NextJobPending DEF Pop, PopUnhandled
<1>3. ASSUME NEW s, NEW o, HandlerEnds(s, o) PROVE FALSE
  BY <1>3 DEF HandlerEnds, Mark
<1>4. CASE MonitorStep
  BY <1>4 DEF MonitorStep, Monitor, Finished, Stale
<1>5. ASSUME ~MonitorStep,
             \A t \in Types : ~Submit(t),
             \A k \in Jobs : ~(Pop(k) \/ PopUnhandled(k)),
             ~HandlerStep
      PROVE  FALSE
  BY <1>5 DEF Next, vars, Wait, Collect, GiveUp, Wake, NothingPending, PopNext, Heartbeat,
              Tick, Stop
<1> QED BY <1>1, <1>2, <1>3, <1>4, <1>5, NextJobBatches DEF HandlerStep

\* A job is run before an older one only if its own type is loaded and the other's
\* is not, for any number of jobs and types (queue.py:104-118).
THEOREM OvertakeOnlyToBatchHolds == Spec => OvertakeOnlyToBatch
<1>1. IInv /\ [Next]_vars =>
        [\A i, j \in Jobs :
           i < j /\ status[i] = "pending" /\ status'[i] = "pending"
                 /\ status[j] = "pending" /\ status'[j] # "pending" =>
             kind[j] = loaded /\ kind[i] # loaded]_vars
  BY OvertakeStep
<1> QED BY <1>1, InvHolds, PTL DEF Spec, OvertakeOnlyToBatch

LEMMA StrayStep ==
  ASSUME IInv, [Next]_vars, NEW j \in Jobs,
         event[j] = "none", result[j] = "none", result'[j] # "none"
  PROVE  caller[j] = "timeout"
<1> USE DEF IInv, TypeOK, Told, answers
<1>1. ASSUME NEW k \in Jobs, PopUnhandled(k) PROVE FALSE
  <2>1. status[k] = "pending" /\ result' = [i \in Jobs |-> IF i \in {k} THEN "error" ELSE result[i]]
    BY <1>1, NextJobPending DEF PopUnhandled, SignalCompletion
  <2> QED BY <2>1
<1>2. ASSUME NEW s, NEW o, HandlerEnds(s, o) PROVE working = j
  BY <1>2 DEF HandlerEnds, SignalCompletion
<1>3. CASE MonitorStep
  <2>1. result' = [i \in Jobs |-> IF i \in Stale THEN "timeout" ELSE result[i]]
    BY <1>3 DEF MonitorStep, Monitor, SignalCompletion
  <2> QED BY <2>1 DEF Stale
<1>4. ASSUME NEW k \in Jobs, Collect(k) PROVE FALSE
  BY <1>4 DEF Collect
<1>5. ASSUME ~MonitorStep, ~HandlerStep, \A k \in Jobs : ~PopUnhandled(k) /\ ~Collect(k)
      PROVE  FALSE
  BY <1>5 DEF Next, vars, Submit, Wait, GiveUp, Wake, NothingPending, PopNext, Pop, Heartbeat,
              Tick, Stop
<1> QED BY <1>1, <1>2, <1>3, <1>4, <1>5 DEF HandlerStep

\* A result that nobody collects is that of a job whose caller was told of its
\* expiry, for any jobs and times to live.
THEOREM StrayOnlyExpiredHolds == Spec => StrayOnlyExpired
<1>1. IInv /\ [Next]_vars =>
        [\A j \in Jobs :
           event[j] = "none" /\ result[j] = "none" /\ result'[j] # "none" =>
             caller[j] = "timeout"]_vars
  BY StrayStep
<1> QED BY <1>1, InvHolds, PTL DEF Spec, StrayOnlyExpired

-----------------------------------------------------------------------------
(* The queue implements JobService.                                        *)

\* No job is active for the service while the worker has none.
LEMMA IdleService ==
  ASSUME IInv, worker # "handling"
  PROVE  \A i \in Jobs : stageOf(i) # "active"
  BY DEF IInv, Busy, Jobs, NoJob, stageOf

LEMMA ServiceInit == Init => Service!Init
  BY DEF Init, Service!Init, stageOf, answerOf, NoJob, Jobs

\* A step that changes neither the stage nor the answer of a job stutters.
LEMMA ServiceStutter ==
  ASSUME \A i \in Jobs : stageOf(i)' = stageOf(i) /\ answerOf(i)' = answerOf(i)
  PROVE  UNCHANGED Service!vars
  BY DEF Service!vars

\* One job changes its stage, nobody is answered.
LEMMA ServiceMoves ==
  ASSUME NEW j \in Jobs, NEW s,
         stageOf(j)' = s,
         \A i \in Jobs \ {j} : stageOf(i)' = stageOf(i),
         \A i \in Jobs : answerOf(i)' = answerOf(i),
         \/ stageOf(j) = "absent" /\ s = "queued"
         \/ stageOf(j) = "queued" /\ s = "active" /\ \A i \in Jobs : stageOf(i) # "active"
         \/ /\ stageOf(j) \in {"queued", "active"} /\ s = "over"
            /\ \A i \in Jobs \ {j} : stageOf(i) # "active"
  PROVE  Service!Next
<1> DEFINE stages == [i \in Jobs |-> stageOf(i)]
           answersNow == [i \in Jobs |-> answerOf(i)]
<1>1. stages' = [stages EXCEPT ![j] = s]
  OBVIOUS
<1>2. answersNow' = answersNow
  OBVIOUS
<1>3. stages[j] = stageOf(j) /\ \A i \in Jobs : stages[i] = stageOf(i)
  OBVIOUS
<1>4. CASE stageOf(j) = "absent" /\ s = "queued"
  BY <1>1, <1>2, <1>4 DEF Service!Next, Service!Request
<1>5. CASE stageOf(j) = "queued" /\ s = "active" /\ \A i \in Jobs : stageOf(i) # "active"
  BY <1>1, <1>2, <1>5 DEF Service!Next, Service!Begin
<1>6. CASE /\ stageOf(j) \in {"queued", "active"} /\ s = "over"
           /\ \A i \in Jobs \ {j} : stageOf(i) # "active"
  BY <1>1, <1>2, <1>6 DEF Service!Next, Service!End
<1>7. QED
  BY <1>4, <1>5, <1>6

LEMMA ServiceStep ==
  ASSUME IInv, [Next]_vars
  PROVE  [Service!Next]_Service!vars
<1> USE NumbersAssumption DEF IInv, TypeOK, Busy, NoJob, Jobs, rows, answers, loop
<1>1. ASSUME NEW t \in Types, Submit(t) PROVE Service!Next
  <2>1. PICK j \in Jobs : j = nSubmitted + 1 /\ status[j] = "absent"
    BY <1>1, NextId DEF Submit
  <2>2. /\ status' = [status EXCEPT ![j] = "pending"]
        /\ working' = working /\ caller' = caller
    BY <1>1, <2>1 DEF Submit
  <2>3. working # j
    BY <2>1
  <2>4. stageOf(j) = "absent" /\ stageOf(j)' = "queued"
    BY <2>1, <2>2, <2>3 DEF stageOf
  <2>5. \A i \in Jobs \ {j} : stageOf(i)' = stageOf(i)
    BY <2>1, <2>2 DEF stageOf
  <2>6. \A i \in Jobs : answerOf(i)' = answerOf(i)
    BY <2>2 DEF answerOf
  <2>7. QED
    BY <2>1, <2>4, <2>5, <2>6, ServiceMoves
<1>2. ASSUME NEW j \in Jobs, Pop(j) PROVE Service!Next
  <2>1. status[j] = "pending" /\ worker = "popping"
    BY <1>2, NextJobPending DEF Pop
  <2>2. /\ status' = [status EXCEPT ![j] = "running"]
        /\ working' = j /\ caller' = caller /\ working = NoJob
    BY <1>2, <2>1 DEF Pop
  <2>3. \A i \in Jobs : stageOf(i) # "active"
    BY <2>1, IdleService
  <2>4. stageOf(j) = "queued" /\ stageOf(j)' = "active"
    BY <2>1, <2>2 DEF stageOf
  <2>5. \A i \in Jobs \ {j} : stageOf(i)' = stageOf(i)
    BY <2>1, <2>2 DEF stageOf
  <2>6. \A i \in Jobs : answerOf(i)' = answerOf(i)
    BY <2>2 DEF answerOf
  <2>7. QED
    BY <2>3, <2>4, <2>5, <2>6, ServiceMoves
<1>3. ASSUME NEW j \in Jobs, PopUnhandled(j) PROVE Service!Next
  <2>1. status[j] = "pending" /\ worker = "popping"
    BY <1>3, NextJobPending DEF PopUnhandled
  <2>2. /\ status' = [status EXCEPT ![j] = "failed"]
        /\ working' = working /\ caller' = caller /\ working = NoJob
    BY <1>3, <2>1 DEF PopUnhandled
  <2>3. \A i \in Jobs : stageOf(i) # "active"
    BY <2>1, IdleService
  <2>4. stageOf(j) = "queued" /\ stageOf(j)' = "over"
    BY <2>1, <2>2 DEF stageOf
  <2>5. \A i \in Jobs \ {j} : stageOf(i)' = stageOf(i)
    BY <2>1, <2>2 DEF stageOf
  <2>6. \A i \in Jobs : answerOf(i)' = answerOf(i)
    BY <2>2 DEF answerOf
  <2>7. QED
    BY <2>3, <2>4, <2>5, <2>6, ServiceMoves
<1>4. CASE HandlerStep \/ (Stop /\ worker = "handling")
  <2>1. /\ worker = "handling" /\ working' = NoJob /\ caller' = caller
        /\ status' = status \/ \E s \in {"done", "failed"} : status' = [status EXCEPT ![working] = s]
    BY <1>4 DEF HandlerStep, HandlerEnds, Mark, Stop
  <2>2. working \in Jobs /\ status[working] \in {"running", "expired", "deleted"}
    BY <2>1
  <2>3. stageOf(working) = "active" /\ \A i \in Jobs \ {working} : stageOf(i) # "active"
    BY <2>2 DEF stageOf
  <2>4. status'[working] \notin {"absent", "pending"} /\ working' # working
    BY <2>1, <2>2
  <2>5. \A i \in Jobs \ {working} : status'[i] = status[i]
    BY <2>1, <2>2
  <2>6. PICK j \in Jobs : j = working
    BY <2>2
  <2>7. stageOf(j)' = "over" /\ \A i \in Jobs \ {j} : stageOf(i)' = stageOf(i)
    BY <2>1, <2>4, <2>5, <2>6 DEF stageOf
  <2>8. \A i \in Jobs : answerOf(i)' = answerOf(i)
    BY <2>1 DEF answerOf
  <2>9. QED
    BY <2>3, <2>6, <2>7, <2>8, ServiceMoves
<1>5. ASSUME NEW j \in Jobs, Collect(j) PROVE Service!Next
  <2>1. /\ caller[j] = "waiting" /\ event[j] = "set"
        /\ caller' = [caller EXCEPT ![j] = result[j]]
        /\ working' = working /\ status' = status
    BY <1>5 DEF Collect
  <2>2. result[j] \in Outcomes
    BY <2>1 DEF Told
  <2>3. stageOf(j) = "over" \/ (stageOf(j) = "active" /\ result[j] = "timeout")
    BY <2>1 DEF stageOf, Told, Fresh, Settled
  <2> DEFINE stages == [i \in Jobs |-> stageOf(i)]
             answersNow == [i \in Jobs |-> answerOf(i)]
  <2>4. stages' = stages
    BY <2>1 DEF stageOf
  <2>5. answersNow' = [answersNow EXCEPT ![j] = result[j]]
    BY <2>1, <2>2 DEF answerOf, Outcomes
  <2>6. answersNow[j] = "none" /\ stages[j] = stageOf(j)
    BY <2>1 DEF answerOf
  <2>7. Service!Answer(j, result[j])
    BY <2>3, <2>4, <2>5, <2>6 DEF Service!Answer
  <2>8. QED
    BY <2>2, <2>7 DEF Service!Next, Outcomes
<1>6. CASE MonitorStep
  <2>1. /\ working' = working /\ caller' = caller
        /\ \A i \in Jobs :
             \/ status'[i] = status[i]
             \/ status[i] = "running" /\ status'[i] = "expired"
             \/ status[i] \in Settled /\ status'[i] = "deleted"
    BY <1>6 DEF MonitorStep, Monitor, Stale, Finished
  <2>2. \A i \in Jobs : stageOf(i)' = stageOf(i) /\ answerOf(i)' = answerOf(i)
    BY <2>1 DEF stageOf, answerOf, Settled
  <2>3. QED
    BY <2>2, ServiceStutter
<1>7. CASE UNCHANGED <<status, working>> /\ ~(\E j \in Jobs : Collect(j))
  <2>1. \A i \in Jobs : answerOf(i)' = answerOf(i)
    BY <1>7 DEF Next, vars, Submit, Wait, GiveUp, Wake, NothingPending, PopNext, Pop,
                PopUnhandled, HandlerStep, HandlerEnds, Heartbeat, MonitorStep, Monitor,
                Tick, Stop, answerOf
  <2>2. \A i \in Jobs : stageOf(i)' = stageOf(i)
    BY <1>7 DEF stageOf
  <2>3. QED
    BY <2>1, <2>2, ServiceStutter
<1>8. CASE Stop /\ worker # "handling"
  BY <1>7, <1>8 DEF Stop, Collect
<1>9. QED
  BY <1>1, <1>2, <1>3, <1>4, <1>5, <1>6, <1>7, <1>8
     DEF Next, vars, PopNext, Wait, GiveUp, Wake, NothingPending, Heartbeat, Tick

\* The detailed queue implements the service, for every value of the constants.
THEOREM ServiceImplemented == Spec => ImplementsService
<1>1. IInv /\ [Next]_vars => [Service!Next]_Service!vars
  BY ServiceStep
<1>2. QED
  BY <1>1, ServiceInit, InvHolds, PTL DEF Spec, ImplementsService, Service!Spec

-----------------------------------------------------------------------------
(* The models in memory, for any set of requests and any settings.         *)

UnloadsAsr == {"asr_test", "asr_del", "asr_clear", "asr_flag"}
UnloadsPipeline == {"pipeline_test", "pipeline_del", "pipeline_clear"}

\* Which slot is unloaded at which step of acquire.
Phases ==
  /\ step \in UnloadsPipeline => active = "diarization"
  /\ step \in UnloadsAsr => active \in {"asr", "diarization"}
  /\ step = "llm_unload" => active = "llm"
  /\ step = "llm_load" => active = "llm" /\ lock \in Requests /\ Want(lock) = "llm"

\* What was stored in time is there only as long as its slot is active, and
\* goes in the order in which acquire unloads it.
InTime ==
  ~late =>
    /\ model \in AsrModels => active \in {"asr", "diarization"}
    /\ pipeline = "loaded" => active = "diarization"
    /\ step \in {"asr_clear", "asr_flag", "mark"} => model \notin AsrModels
    /\ step \in {"pipeline_clear", "mark"} \union UnloadsAsr => pipeline # "loaded"

\* The LLM's handle is there only as long as the slot is its own.
HandleInTime == handle /\ ~KeepLoaded => active = "llm" /\ step # "mark"

MemoryInv == MemoryTypeOK /\ Phases /\ InTime /\ HandleInTime

-----------------------------------------------------------------------------

LEMMA WantTyped ==
  ASSUME NEW r \in Requests
  PROVE  Want(r) \in {"llm", "diarization", "asr"}
BY DEF Want

LEMMA LockTyped == ASSUME MemoryTypeOK, lock # None PROVE lock \in Requests
BY DEF MemoryTypeOK

LEMMA MemoryInvInit == MemoryInit => MemoryInv
<1> SUFFICES ASSUME MemoryInit PROVE MemoryInv
  OBVIOUS
<1>1. MemoryTypeOK
  BY DEF MemoryInit, MemoryTypeOK, None, Slots, AsrModels, Tasks, Places
<1>2. Phases /\ InTime /\ HandleInTime
  BY DEF MemoryInit, Phases, InTime, HandleInTime, None, AsrModels, UnloadsAsr, UnloadsPipeline
<1>3. QED
  BY <1>1, <1>2 DEF MemoryInv

\* A request that is not in acquire does not hold the lock.
LEMMA NotLocked ==
  ASSUME MemoryInv, NEW r \in Requests, pc[r] # "acquire"
  PROVE  lock # r
BY RequestsAssumption DEF MemoryInv, MemoryTypeOK, None

\* Steps of a request outside acquire that change no model but by deleting it.
LEMMA OutsideKeeps ==
  ASSUME MemoryInv, NEW r \in Requests, pc[r] # "acquire",
         NEW to \in Places, Goto(r, to),
         UNCHANGED <<active, lock, step, handle, llm, refused, late>>,
         model' = model \/ model' \in {None, "gone"},
         pipeline' = pipeline,
         aligner' \in BOOLEAN, booted' \in BOOLEAN, crowded' \in BOOLEAN,
         warmed' \in BOOLEAN,
         task' \in [Requests -> Tasks], \A q \in Requests : q # r => task'[q] = task[q],
         held' \in [Requests -> {None, "asr", "diarization"}]
  PROVE  MemoryInv'
<1>1. pc' \in [Requests -> Places] /\ \A q \in Requests : q # r => pc'[q] = pc[q]
  BY DEF MemoryInv, MemoryTypeOK, Goto
<1>2. lock # r
  BY NotLocked
<1>3. lock # None => lock \in Requests
  BY DEF MemoryInv, MemoryTypeOK
<1>4. MemoryTypeOK'
  <2>1. lock' = None <=> step' = "free"
    BY DEF MemoryInv, MemoryTypeOK
  <2>2. lock' # None => pc'[lock'] = "acquire"
    BY <1>1, <1>2, <1>3 DEF MemoryInv, MemoryTypeOK
  <2>3. QED
    BY <1>1, <2>1, <2>2 DEF MemoryInv, MemoryTypeOK
<1>5. Phases'
  BY <1>2, <1>3 DEF MemoryInv, Phases, Want
<1>6. InTime'
  BY DEF MemoryInv, InTime, AsrModels, None
<1>7. HandleInTime'
  BY DEF MemoryInv, HandleInTime
<1>8. QED
  BY <1>4, <1>5, <1>6, <1>7 DEF MemoryInv

\* The end of a request, or of one segment of it.
LEMMA EndTyped ==
  ASSUME MemoryInv, NEW r \in Requests, Raises(r) \/ Returns(r)
  PROVE  /\ held' \in [Requests -> {None, "asr", "diarization"}]
         /\ \E to \in Places : Goto(r, to)
BY DEF MemoryInv, MemoryTypeOK, Raises, Returns, Places

LEMMA RequestStepKeeps ==
  ASSUME MemoryInv, NEW r \in Requests, RequestStep(r)
  PROVE  MemoryInv'
<1>1. CASE (\E t \in {"text", "srt", "diarize", "chat"} : Begin(r, t)) \/ WarmUp(r)
  <2>1. PICK t \in Tasks : task' = [task EXCEPT ![r] = t]
    BY <1>1 DEF Begin, WarmUp, Tasks
  <2>2. PICK to \in Places : Goto(r, to)
    BY <1>1 DEF Begin, WarmUp, Places
  <2>3. pc[r] = "idle" /\ UNCHANGED <<manager, lmstudio, globals, held, refused, late>>
    BY <1>1 DEF Begin, WarmUp
  <2>4. booted' \in BOOLEAN /\ crowded' \in BOOLEAN /\ warmed' \in BOOLEAN
    BY <1>1 DEF Begin, WarmUp, MemoryInv, MemoryTypeOK
  <2>5. aligner' \in BOOLEAN /\ held' \in [Requests -> {None, "asr", "diarization"}]
    BY <2>3 DEF globals, MemoryInv, MemoryTypeOK
  <2>6. task' \in [Requests -> Tasks] /\ \A q \in Requests : q # r => task'[q] = task[q]
    BY <2>1 DEF MemoryInv, MemoryTypeOK
  <2>7. UNCHANGED <<active, lock, step, handle, llm, model, pipeline>>
    BY <2>3 DEF manager, lmstudio, globals
  <2>8. QED
    BY <2>2, <2>3, <2>4, <2>5, <2>6, <2>7, OutsideKeeps
<1>2. CASE NextSegment(r) \/ LastSegment(r) \/ Answered(r) \/ ChatEnds(r)
  <2>1. PICK to \in Places : Goto(r, to)
    BY <1>2, EndTyped DEF NextSegment, LastSegment, Answered, ChatEnds, Places
  <2>2. held' \in [Requests -> {None, "asr", "diarization"}]
    BY <1>2, EndTyped DEF NextSegment, LastSegment, Answered, ChatEnds, MemoryInv, MemoryTypeOK
  <2>3. task' \in [Requests -> Tasks] /\ \A q \in Requests : q # r => task'[q] = task[q]
    BY <1>2 DEF NextSegment, LastSegment, Answered, ChatEnds, MemoryInv, MemoryTypeOK, Tasks
  <2>4. pc[r] # "acquire" /\ UNCHANGED <<manager, lmstudio, globals, booted, history>>
    BY <1>2 DEF NextSegment, LastSegment, Answered, ChatEnds
  <2>5. UNCHANGED <<active, lock, step, handle, llm, refused, late, model, pipeline>>
    BY <2>4 DEF manager, lmstudio, globals, history
  <2>6. aligner' \in BOOLEAN /\ booted' \in BOOLEAN /\ crowded' \in BOOLEAN /\ warmed' \in BOOLEAN
    BY <2>4 DEF globals, history, MemoryInv, MemoryTypeOK
  <2>7. QED
    BY <2>1, <2>2, <2>3, <2>4, <2>5, <2>6, OutsideKeeps
<1>3. QED
  BY <1>1, <1>2 DEF RequestStep

\* The steps of the engines that store no model.
LEMMA EngineKeeps ==
  ASSUME MemoryInv, NEW r \in Requests,
         \/ UpgradeTest(r) \/ Drop(r) \/ Clear(r) \/ Test(r) \/ LoadFails(r) \/ Flag(r) \/ Return(r)
         \/ Unreadable(r) \/ TestD(r) \/ MoveD(r) \/ ReturnD(r)
  PROVE  MemoryInv'
<1> USE DEF UpgradeTest, Drop, Clear, Test, LoadFails, Flag, Return, Unreadable, TestD, MoveD, ReturnD
<1>1. pc[r] # "acquire"
  OBVIOUS
<1>2. PICK to \in Places : Goto(r, to)
  BY EndTyped DEF Places
<1>3. held' \in [Requests -> {None, "asr", "diarization"}]
  BY EndTyped DEF MemoryInv, MemoryTypeOK
<1>4. UNCHANGED <<active, lock, step, handle, llm, refused, late, pipeline, task, booted, crowded,
                 warmed>>
  BY DEF manager, lmstudio, globals, history
<1>5. model' = model \/ model' \in {None, "gone"}
  BY DEF globals
<1>6. aligner' \in BOOLEAN
  BY DEF globals, MemoryInv, MemoryTypeOK, NeedsAligner
<1>7. task' \in [Requests -> Tasks] /\ booted' \in BOOLEAN /\ crowded' \in BOOLEAN /\ warmed' \in BOOLEAN
      /\ \A q \in Requests : q # r => task'[q] = task[q]
  BY <1>4 DEF MemoryInv, MemoryTypeOK
<1>8. QED
  BY <1>1, <1>2, <1>3, <1>4, <1>5, <1>6, <1>7, OutsideKeeps

\* A model is stored: in time if its slot is active and nobody holds the lock.
LEMMA StoreKeeps ==
  ASSUME MemoryInv, NEW r \in Requests, Load(r) \/ LoadD(r) \/ MovedD(r)
  PROVE  MemoryInv'
<1>1. UNCHANGED <<active, lock, step, handle, llm, refused, task, booted, crowded, warmed,
                 aligner>>
  BY DEF Load, LoadD, MovedD, StorePipeline, manager, lmstudio
<1>2. PICK to \in Places : Goto(r, to)
  BY DEF Load, LoadD, MovedD, Places
<1>3. pc[r] # "acquire"
  BY DEF Load, LoadD, MovedD
<1>4. lock # r
  BY <1>3, NotLocked
<1>5. held' \in [Requests -> {None, "asr", "diarization"}]
  BY DEF Load, LoadD, MovedD, MemoryInv, MemoryTypeOK
<1>6. \/ /\ pipeline' = pipeline /\ model' \in AsrModels
         /\ late' = (late \/ lock # None \/ active \notin {"asr", "diarization"})
      \/ /\ pipeline' = "loaded" /\ model' = model
         /\ late' = (late \/ lock # None \/ active # "diarization")
  BY DEF Load, LoadD, MovedD, StorePipeline, AsrModels
<1>7. MemoryTypeOK'
  <2>1. pc' \in [Requests -> Places] /\ \A q \in Requests : q # r => pc'[q] = pc[q]
    BY <1>2 DEF MemoryInv, MemoryTypeOK, Goto
  <2>2. lock' # None => pc'[lock'] = "acquire"
    BY <1>1, <1>4, <2>1 DEF MemoryInv, MemoryTypeOK
  <2>3. late' \in BOOLEAN
    BY <1>6
  <2>4. model' \in AsrModels \union {None, "gone"} /\ pipeline' \in {None, "gone", "loaded"}
    BY <1>6 DEF MemoryInv, MemoryTypeOK
  <2>5. QED
    BY <1>1, <1>5, <2>1, <2>2, <2>3, <2>4 DEF MemoryInv, MemoryTypeOK
<1>8. Phases' /\ HandleInTime'
  BY <1>1 DEF MemoryInv, Phases, HandleInTime, Want
<1>9. InTime'
  <2>1. CASE lock # None
    BY <1>6, <2>1 DEF InTime
  <2>2. CASE lock = None
    <3>1. step = "free" /\ step' = step
      BY <1>1, <2>2 DEF MemoryInv, MemoryTypeOK
    <3>2. QED
      BY <1>1, <1>6, <2>2, <3>1 DEF MemoryInv, InTime, UnloadsAsr
  <2>3. QED
    BY <2>1, <2>2
<1>10. QED
  BY <1>7, <1>8, <1>9 DEF MemoryInv

\* Where a request goes on is a place, and nobody holds the lock.
LEMMA AcquiredTyped ==
  ASSUME MemoryInv, NEW r \in Requests, Acquired(r)
  PROVE  lock' = None /\ step' = "free" /\ pc' \in [Requests -> Places]
BY DEF MemoryInv, MemoryTypeOK, Acquired, Goto, Places

LEMMA UnloadStepKeeps ==
  ASSUME MemoryInv, UnloadStep
  PROVE  MemoryInv'
<1>1. /\ step \in UnloadsPipeline \union UnloadsAsr \union {"llm_unload"}
      /\ step' \in UnloadsPipeline \union UnloadsAsr \union {"mark"}
      /\ UNCHANGED <<active, lock, requests, booted, crowded, warmed, late>>
  BY DEF UnloadStep, TestPipeline, DeletePipeline, ClearPipeline, TestModel, DeleteModel,
     ClearModel, ClearFlag, UnloadLlm, LeaveLlm, UnloadsPipeline, UnloadsAsr, history
<1>2. UNCHANGED <<task, pc, held>>
  BY <1>1 DEF requests
<1>3. /\ handle' \in BOOLEAN /\ llm' \in BOOLEAN /\ refused' \in BOOLEAN
      /\ aligner' \in BOOLEAN
      /\ model' \in AsrModels \union {None, "gone"}
      /\ pipeline' \in {None, "gone", "loaded"}
  BY DEF UnloadStep, TestPipeline, DeletePipeline, ClearPipeline, TestModel, DeleteModel,
     ClearModel, ClearFlag, UnloadLlm, LeaveLlm, history, lmstudio, globals, MemoryInv, MemoryTypeOK
<1>4. MemoryTypeOK'
  <2>1. lock # None /\ step' # "free"
    BY <1>1 DEF MemoryInv, MemoryTypeOK, UnloadsPipeline, UnloadsAsr
  <2>2. step' \in {"free", "pipeline_test", "pipeline_del", "pipeline_clear", "asr_test",
              "asr_del", "asr_clear", "asr_flag", "llm_unload", "mark", "llm_load"}
    BY <1>1 DEF UnloadsPipeline, UnloadsAsr
  <2>3. QED
    BY <1>1, <1>2, <1>3, <2>1, <2>2 DEF MemoryInv, MemoryTypeOK
<1>5. Phases'
  BY <1>1, <1>2 DEF MemoryInv, Phases, UnloadStep, TestPipeline, DeletePipeline, ClearPipeline,
     TestModel, DeleteModel, ClearModel, ClearFlag, UnloadLlm, LeaveLlm, UnloadsPipeline, UnloadsAsr
<1>6. InTime'
  <2>1. CASE TestPipeline \/ DeletePipeline \/ ClearPipeline
    BY <1>1, <2>1 DEF TestPipeline, DeletePipeline, ClearPipeline, MemoryInv, InTime, Phases,
       UnloadsPipeline, UnloadsAsr, globals, None
  <2>2. CASE TestModel \/ DeleteModel \/ ClearModel \/ ClearFlag
    BY <1>1, <2>2 DEF TestModel, DeleteModel, ClearModel, ClearFlag, MemoryInv, InTime, Phases,
       UnloadsPipeline, UnloadsAsr, globals, AsrModels, None
  <2>3. CASE UnloadLlm \/ LeaveLlm
    BY <1>1, <2>3 DEF UnloadLlm, LeaveLlm, MemoryInv, InTime, Phases, UnloadsAsr, globals
  <2>4. QED
    BY <2>1, <2>2, <2>3 DEF UnloadStep
<1>7. HandleInTime'
  <2>1. CASE UnloadLlm \/ LeaveLlm
    BY <2>1 DEF UnloadLlm, LeaveLlm, MemoryInv, HandleInTime, lmstudio
  <2>2. CASE ~(UnloadLlm \/ LeaveLlm)
    <3>1. handle' = handle /\ (handle /\ ~KeepLoaded => step \notin UnloadsPipeline \union UnloadsAsr)
      BY <2>2 DEF UnloadStep, TestPipeline, DeletePipeline, ClearPipeline, TestModel, DeleteModel,
         ClearModel, ClearFlag, lmstudio, MemoryInv, HandleInTime, Phases
    <3>2. step \in UnloadsPipeline \union UnloadsAsr
      BY <2>2 DEF UnloadStep, TestPipeline, DeletePipeline, ClearPipeline, TestModel, DeleteModel,
         ClearModel, ClearFlag, UnloadsPipeline, UnloadsAsr
    <3>3. QED
      BY <3>1, <3>2 DEF HandleInTime
  <2>3. QED
    BY <2>1, <2>2
<1>8. QED
  BY <1>4, <1>5, <1>6, <1>7 DEF MemoryInv

LEMMA AcquireStepKeeps ==
  ASSUME MemoryInv, NEW r \in Requests, AcquireStep(r)
  PROVE  MemoryInv'
<1>1. /\ UNCHANGED <<model, aligner, pipeline, task, held, booted, crowded, late>>
      /\ warmed' \in BOOLEAN
  BY DEF AcquireStep, AcquireAgain, AcquireOther, Activate, LoadLlm, Acquired, globals, requests,
     history, MemoryInv, MemoryTypeOK
<1>2. r # None
  BY RequestsAssumption DEF None
<1>3. Want(r)' = Want(r) /\ Want(r) \in {"llm", "diarization", "asr"}
  BY <1>1, WantTyped DEF Want
<1>4. CASE AcquireAgain(r) \/ AcquireOther(r)
  <2>1. /\ pc[r] = "acquire" /\ lock = None /\ step = "free"
        /\ UNCHANGED <<active, handle, llm, refused>>
    BY <1>4 DEF AcquireAgain, AcquireOther, lmstudio, history, MemoryInv, MemoryTypeOK
  <2>2. CASE active = Want(r) /\ lock' = r /\ step' = "llm_load" /\ pc' = pc /\ Want(r) = "llm"
    BY <1>1, <1>2, <1>3, <2>1, <2>2 DEF MemoryInv, MemoryTypeOK, Phases, InTime, HandleInTime, UnloadsAsr,
       UnloadsPipeline
  <2>3. CASE Acquired(r)
    <3>1. lock' = None /\ step' = "free" /\ pc' \in [Requests -> Places]
      BY <2>3, AcquiredTyped
    <3>2. QED
      BY <1>1, <2>1, <3>1 DEF MemoryInv, MemoryTypeOK, Phases, InTime, HandleInTime, UnloadsAsr, UnloadsPipeline
  <2>4. CASE lock' = r /\ step' = Unload(active) /\ pc' = pc
    <3>1. \/ active = "idle" /\ step' = "mark"
          \/ active = "asr" /\ step' = "asr_test"
          \/ active = "diarization" /\ step' = "pipeline_test"
          \/ active = "llm" /\ step' = "llm_unload"
      BY <2>4 DEF Unload, MemoryInv, MemoryTypeOK, Slots
    <3>2. MemoryTypeOK'
      <4>1. lock' \in Requests /\ lock' # None /\ pc'[lock'] = "acquire"
        BY <1>2, <2>1, <2>4
      <4>2. step' # "free"
            /\ step' \in {"mark", "asr_test", "pipeline_test", "llm_unload"}
        BY <3>1
      <4>3. UNCHANGED <<active, handle, llm, refused, pc>>
        BY <2>1, <2>4
      <4>4. /\ aligner' \in BOOLEAN /\ booted' \in BOOLEAN /\ crowded' \in BOOLEAN /\ warmed' \in BOOLEAN
            /\ late' \in BOOLEAN /\ handle' \in BOOLEAN /\ llm' \in BOOLEAN
            /\ refused' \in BOOLEAN
        BY <1>1, <4>3 DEF MemoryInv, MemoryTypeOK
      <4>5. /\ active' \in Slots /\ model' \in AsrModels \union {None, "gone"}
            /\ pipeline' \in {None, "gone", "loaded"} /\ task' \in [Requests -> Tasks]
            /\ pc' \in [Requests -> Places]
            /\ held' \in [Requests -> {None, "asr", "diarization"}]
        BY <1>1, <4>3 DEF MemoryInv, MemoryTypeOK
      <4>6. lock' = None <=> step' = "free"
        BY <4>1, <4>2
      <4>7. QED
        BY <4>1, <4>2, <4>4, <4>5, <4>6 DEF MemoryTypeOK
    <3>3. Phases'
      BY <2>1, <3>1 DEF Phases, UnloadsAsr, UnloadsPipeline
    <3>4. InTime' /\ HandleInTime'
      BY <1>1, <2>1, <3>1 DEF MemoryInv, InTime, HandleInTime, UnloadsAsr
    <3>5. QED
      BY <3>2, <3>3, <3>4 DEF MemoryInv
  <2>5. QED
    BY <1>4, <2>2, <2>3, <2>4 DEF AcquireAgain, AcquireOther, requests
<1>5. CASE Activate(r)
  <2>1. step = "mark" /\ lock = r /\ active' = Want(r) /\ UNCHANGED <<handle, llm, refused>>
    BY <1>5 DEF Activate, lmstudio, history
  <2>2. \/ Want(r) = "llm" /\ step' = "llm_load" /\ lock' = r /\ pc' = pc
        \/ lock' = None /\ step' = "free" /\ pc' \in [Requests -> Places]
    BY <1>5, <2>1, AcquiredTyped DEF Activate
  <2>3. MemoryTypeOK'
    <3>1. lock' # None => pc'[lock'] = "acquire"
      BY <1>2, <2>1, <2>2 DEF MemoryInv, MemoryTypeOK
    <3>2. lock' = None <=> step' = "free"
      BY <1>2, <2>2
    <3>3. active' \in Slots /\ pc' \in [Requests -> Places]
      BY <1>3, <2>1, <2>2 DEF Slots, MemoryInv, MemoryTypeOK
    <3>4. QED
      BY <1>1, <2>1, <2>2, <3>1, <3>2, <3>3 DEF MemoryInv, MemoryTypeOK
  <2>4. Phases'
    BY <1>3, <2>1, <2>2 DEF Phases, UnloadsAsr, UnloadsPipeline
  <2>5. InTime' /\ HandleInTime'
    BY <1>1, <2>1, <2>2 DEF MemoryInv, InTime, HandleInTime, UnloadsAsr
  <2>6. QED
    BY <2>3, <2>4, <2>5 DEF MemoryInv
<1>6. CASE LoadLlm(r)
  <2>1. step = "llm_load" /\ active' = active /\ active = "llm"
    BY <1>6 DEF LoadLlm, MemoryInv, Phases
  <2>2. lock' = None /\ step' = "free" /\ pc' \in [Requests -> Places]
    BY <1>6, AcquiredTyped DEF LoadLlm
  <2>3. handle' \in BOOLEAN /\ llm' \in BOOLEAN /\ refused' \in BOOLEAN
    BY <1>6 DEF LoadLlm, lmstudio, MemoryInv, MemoryTypeOK
  <2>4. MemoryTypeOK'
    BY <1>1, <2>1, <2>2, <2>3 DEF MemoryInv, MemoryTypeOK
  <2>5. Phases' /\ InTime' /\ HandleInTime'
    BY <1>1, <2>1, <2>2 DEF MemoryInv, Phases, InTime, HandleInTime, UnloadsAsr, UnloadsPipeline
  <2>6. QED
    BY <2>4, <2>5 DEF MemoryInv
<1>7. QED
  BY <1>4, <1>5, <1>6 DEF AcquireStep

LEMMA MemoryInvStep == MemoryInv /\ [MemoryNext]_memoryVars => MemoryInv'
<1> SUFFICES ASSUME MemoryInv, [MemoryNext]_memoryVars PROVE MemoryInv'
  OBVIOUS
<1>1. CASE LlmExpires \/ UNCHANGED memoryVars
  <2>1. /\ UNCHANGED <<active, lock, step, handle, model, aligner, pipeline>>
        /\ UNCHANGED <<task, pc, held, booted, crowded, warmed, refused, late>>
    BY <1>1 DEF LlmExpires, memoryVars, manager, lmstudio, globals, requests, history
  <2>2. llm' \in BOOLEAN
    BY <1>1 DEF LlmExpires, memoryVars, lmstudio, MemoryInv, MemoryTypeOK
  <2>3. MemoryTypeOK'
    <3>1. /\ aligner' \in BOOLEAN /\ booted' \in BOOLEAN /\ crowded' \in BOOLEAN /\ warmed' \in BOOLEAN
          /\ late' \in BOOLEAN /\ handle' \in BOOLEAN /\ refused' \in BOOLEAN
      BY <2>1 DEF MemoryInv, MemoryTypeOK
    <3>2. /\ lock' = None <=> step' = "free"
          /\ lock' # None => pc'[lock'] = "acquire"
      BY <2>1 DEF MemoryInv, MemoryTypeOK
    <3>3. QED
      BY <2>1, <2>2, <3>1, <3>2 DEF MemoryInv, MemoryTypeOK
  <2>4. Phases'
    BY <2>1 DEF MemoryInv, Phases, Want
  <2>5. InTime' /\ HandleInTime'
    BY <2>1 DEF MemoryInv, InTime, HandleInTime
  <2>6. QED
    BY <2>3, <2>4, <2>5 DEF MemoryInv
<1>2. QED
  BY <1>1, RequestStepKeeps, EngineKeeps, StoreKeeps, AcquireStepKeeps, UnloadStepKeeps
     DEF MemoryNext, ModelStep, PipelineStep

-----------------------------------------------------------------------------

\* The inductive invariant holds in every reachable state.
THEOREM MemoryInvHolds == MemorySpec => []MemoryInv
  BY MemoryInvInit, MemoryInvStep, PTL DEF MemorySpec

\* Every variable has its type, and the lock is held exactly when the manager is
\* at work, for any requests and settings.
THEOREM MemoryTypeCorrect == MemorySpec => []MemoryTypeOK
  BY MemoryInvHolds, PTL DEF MemoryInv

\* A model that was stored while its slot was active is unloaded with the slot,
\* however many requests overlap.
THEOREM UnloadedWithSlotHolds == MemorySpec => []UnloadedWithSlot
<1>1. MemoryInv => UnloadedWithSlot
  BY DEF MemoryInv, InTime, UnloadedWithSlot
<1>2. QED
  BY <1>1, MemoryInvHolds, PTL

\* While the manager has a handle of the LLM, the slot is the LLM's.
THEOREM HandleHeldHolds == MemorySpec => []HandleHeld
<1>1. MemoryInv => HandleHeld
  BY DEF MemoryInv, HandleInTime, HandleHeld
<1>2. QED
  BY <1>1, MemoryInvHolds, PTL
-----------------------------------------------------------------------------
(* Requests that come one at a time *)

\* What a request finds, at each place, when it comes alone.
Equipped(r) ==
  /\ pc[r] = "test" /\ NeedsAligner(r) => model # "plain"
  /\ pc[r] = "load" => active = "asr"
  /\ pc[r] = "flag" => model = IF NeedsAligner(r) THEN "aligned" ELSE "plain"
  /\ pc[r] = "return" => model = "aligned" \/ (model = "plain" /\ ~NeedsAligner(r))
  /\ pc[r] \in {"dtest", "dload", "dmove", "dmoved", "dreturn"}
       => active = "diarization" \/ warmed
  /\ pc[r] \in {"dmove", "dmoved", "dreturn"} => pipeline = "loaded"
  /\ held[r] = "asr" => pc[r] = "use" /\ model \in AsrModels
  /\ held[r] = "diarization" => pc[r] \in {"use", "dmoved"} /\ pipeline = "loaded"

\* A deleted variable is being set again; a transcription model is there only in
\* its own slot, with the right flag, and the pipeline only in its slot or since
\* the warm-up; both are gone in time when a slot is unloaded.
Tidy ==
  /\ model = "gone" => step = "asr_clear" \/ \E r \in Requests : pc[r] = "clear"
  /\ pipeline = "gone" => step = "pipeline_clear"
  /\ model \in AsrModels => active = "asr"
  /\ model \in AsrModels => aligner = (model = "aligned") \/ \E r \in Requests : pc[r] = "flag"
  /\ pipeline = "loaded" => active = "diarization" \/ warmed
  /\ step \in {"asr_clear", "asr_flag", "mark"} => model \notin AsrModels
  /\ step \in {"pipeline_clear", "mark"} \union UnloadsAsr => pipeline # "loaded" \/ warmed

Sole == \A r, q \in Requests : pc[r] # "idle" /\ pc[q] # "idle" => r = q

\* Nothing has begun before the first request, or the warm-up.
Unbegun == ~booted => \A r \in Requests : pc[r] = "idle"

Alone == ~crowded => Sole /\ Unbegun /\ Tidy /\ \A r \in Requests : Equipped(r)

\* An LLM that is loaded is one that the manager knows of.
LlmKnown == ~refused /\ ~KeepLoaded /\ llm => handle

LEMMA AloneInit == MemoryInit => Alone /\ LlmKnown
BY DEF MemoryInit, Alone, LlmKnown, Sole, Unbegun, UnloadsAsr, Tidy, Equipped, None, AsrModels

LEMMA LlmStep == LlmKnown /\ [MemoryNext]_memoryVars => LlmKnown'
<1> SUFFICES ASSUME LlmKnown, [MemoryNext]_memoryVars PROVE LlmKnown'
  OBVIOUS
<1>1. ASSUME UNCHANGED <<llm, handle, refused>> PROVE LlmKnown'
  BY <1>1 DEF LlmKnown
<1>2. CASE LlmExpires
  BY <1>2 DEF LlmExpires, LlmKnown
<1>3. CASE UnloadLlm
  BY <1>3 DEF UnloadLlm, LlmKnown
<1>4. CASE \E r \in Requests : LoadLlm(r)
  BY <1>4 DEF LoadLlm, LlmKnown, lmstudio
<1>5. CASE \E r \in Requests : AcquireAgain(r) \/ AcquireOther(r) \/ Activate(r)
  BY <1>5, <1>1 DEF AcquireAgain, AcquireOther, Activate, lmstudio, history
<1>6. CASE UnloadStep /\ ~UnloadLlm
  BY <1>6, <1>1 DEF UnloadStep, TestPipeline, DeletePipeline, ClearPipeline, TestModel,
     DeleteModel, ClearModel, ClearFlag, LeaveLlm, lmstudio, history
<1>7. CASE \E r \in Requests : RequestStep(r)
  BY <1>7, <1>1 DEF RequestStep, Begin, WarmUp, NextSegment, LastSegment, Answered, ChatEnds,
     lmstudio, history
<1>8. CASE \E r \in Requests : ModelStep(r)
  BY <1>8, <1>1 DEF ModelStep, UpgradeTest, Drop, Clear, Test, Load, LoadFails, Flag, Return,
     lmstudio, history
<1>9. CASE \E r \in Requests : PipelineStep(r)
  BY <1>9, <1>1 DEF PipelineStep, Unreadable, TestD, LoadD, StorePipeline, MoveD, MovedD, ReturnD,
     lmstudio, history
<1>10. CASE UNCHANGED memoryVars
  BY <1>10, <1>1 DEF memoryVars, lmstudio, history
<1> QED BY <1>2, <1>3, <1>4, <1>5, <1>6, <1>7, <1>8, <1>9, <1>10 DEF MemoryNext, AcquireStep

\* The others do nothing and hold nothing.
LEMMA OthersIdle ==
  ASSUME MemoryInv, Alone, ~crowded, NEW r \in Requests, pc[r] # "idle"
  PROVE  \A q \in Requests : q # r => pc[q] = "idle" /\ held[q] = None
<1> SUFFICES ASSUME NEW q \in Requests, q # r PROVE pc[q] = "idle" /\ held[q] = None
  OBVIOUS
<1>1. pc[q] = "idle" /\ Equipped(q)
  BY DEF Alone, Sole
<1>2. held[q] \in {None, "asr", "diarization"}
  BY DEF MemoryInv, MemoryTypeOK
<1> QED BY <1>1, <1>2 DEF Equipped

\* Nothing that is idle needs to be served.
LEMMA IdleServed ==
  ASSUME NEW q \in Requests, pc'[q] = "idle", held'[q] = None PROVE Equipped(q)'
BY DEF Equipped, None

\* It is enough to look at the request that moves.
LEMMA MoverServed ==
  ASSUME MemoryInv, Alone, ~crowded, NEW r \in Requests, pc[r] # "idle",
         pc' = pc \/ \E to : Goto(r, to), held' = held \/ \E h : held' = [held EXCEPT ![r] = h],
         booted' = booted, Tidy', Equipped(r)'
  PROVE  Alone'
<1>1. \A q \in Requests : q # r => pc[q] = "idle" /\ held[q] = None
  BY OthersIdle
<1>2. \A q \in Requests : q # r => pc'[q] = "idle" /\ held'[q] = None
  BY <1>1 DEF Goto, MemoryInv, MemoryTypeOK
<1>3. Sole'
  BY <1>2 DEF Sole
<1>4. Unbegun'
  BY DEF Unbegun, Alone
<1>5. \A q \in Requests : Equipped(q)'
  BY <1>2, IdleServed
<1> QED BY <1>3, <1>4, <1>5 DEF Alone

\* In acquire, it is the lock's holder that is there alone, and outside of it the
\* lock is free.
LEMMA LockAlone ==
  ASSUME MemoryInv, Alone, ~crowded, NEW r \in Requests, pc[r] # "idle"
  PROVE  /\ lock # None => lock = r /\ pc[r] = "acquire"
         /\ pc[r] # "acquire" => lock = None /\ step = "free"
<1>1. lock # None => lock = r /\ pc[r] = "acquire"
  BY LockTyped DEF MemoryInv, MemoryTypeOK, Alone, Sole
<1> QED BY <1>1 DEF MemoryInv, MemoryTypeOK

\* A request begins when no other is there.
LEMMA BeginAlone ==
  ASSUME MemoryInv, Alone, ~crowded', NEW r \in Requests,
         NEW t \in {"text", "srt", "diarize", "chat"}, Begin(r, t)
  PROVE  Alone'
<1>1. /\ ~crowded /\ \A q \in Requests : pc[q] = "idle"
      /\ pc' = [pc EXCEPT ![r] = IF t \in {"diarize", "chat"} THEN "acquire" ELSE "upgrade"]
      /\ task' = [task EXCEPT ![r] = t] /\ held' = held
      /\ UNCHANGED <<active, lock, step, model, aligner, pipeline, warmed>>
  BY DEF Begin, Goto, InProgress, manager, globals
<1>2. \A q \in Requests : held[q] = None
  BY <1>1 DEF Alone, Equipped, MemoryInv, MemoryTypeOK
<1>3. \A q \in Requests : pc'[q] = IF q # r THEN "idle" ELSE
                              IF t \in {"diarize", "chat"} THEN "acquire" ELSE "upgrade"
  BY <1>1 DEF MemoryInv, MemoryTypeOK
<1>4. Sole'
  BY <1>3 DEF Sole
<1>5. Tidy'
  BY <1>1, <1>3 DEF Tidy, Alone
<1>6. \A q \in Requests : Equipped(q)'
  BY <1>1, <1>2, <1>3 DEF Equipped, None
<1>7. Unbegun'
  BY DEF Unbegun, Begin
<1> QED BY <1>4, <1>5, <1>6, <1>7 DEF Alone

LEMMA RequestAlone ==
  ASSUME MemoryInv, Alone, ~crowded', NEW r \in Requests, RequestStep(r)
  PROVE  Alone'
<1>1. CASE \E t \in {"text", "srt", "diarize", "chat"} : Begin(r, t)
  BY <1>1, BeginAlone
<1>2. CASE WarmUp(r)
  <2>1. /\ ~crowded /\ pc' = [pc EXCEPT ![r] = "dtest"] /\ warmed' = TRUE
        /\ UNCHANGED <<active, lock, step, model, aligner, pipeline, held>>
    BY <1>2 DEF WarmUp, Goto, manager, globals
  <2>2. \A q \in Requests : pc[q] = "idle" /\ held[q] = None
    BY <1>2, <2>1 DEF WarmUp, Alone, Unbegun, Equipped, MemoryInv, MemoryTypeOK
  <2>3. \A q \in Requests : pc'[q] = IF q # r THEN "idle" ELSE "dtest"
    BY <2>1, <2>2 DEF MemoryInv, MemoryTypeOK
  <2>4. Sole' /\ Unbegun'
    BY <1>2, <2>3 DEF Sole, Unbegun, WarmUp
  <2>5. Tidy'
    BY <2>1, <2>2 DEF Tidy, Alone
  <2>6. \A q \in Requests : Equipped(q)'
    BY <2>1, <2>2, <2>3 DEF Equipped, None
  <2> QED BY <2>4, <2>5, <2>6 DEF Alone
<1>3. CASE NextSegment(r) \/ LastSegment(r) \/ Answered(r) \/ ChatEnds(r)
  <2>1. /\ ~crowded /\ pc[r] \in {"between", "use", "chat"}
        /\ UNCHANGED <<active, lock, step, model, aligner, pipeline, warmed, booted>>
    BY <1>3 DEF NextSegment, LastSegment, Answered, ChatEnds, manager, globals, history
  <2>2. PICK to \in {"idle", "between", "upgrade"} : Goto(r, to)
    BY <1>3 DEF NextSegment, LastSegment, Answered, ChatEnds, Returns, Raises
  <2>3. (held' = held /\ pc[r] # "use") \/ held' = [held EXCEPT ![r] = None]
    BY <1>3 DEF NextSegment, LastSegment, Answered, ChatEnds, Returns, Raises
  <2>4. pc'[r] = to /\ held'[r] = None
    BY <2>1, <2>2, <2>3 DEF Goto, Alone, Equipped, MemoryInv, MemoryTypeOK
  <2>5. Equipped(r)'
    BY <2>4 DEF Equipped, None
  <2>6. Tidy'
    <3>1. \A q \in Requests : pc[q] # "flag" /\ pc[q] # "clear"
      BY <2>1, OthersIdle
    <3> QED BY <2>1, <3>1 DEF Tidy, Alone
  <2>7. held' = held \/ \E h : held' = [held EXCEPT ![r] = h]
    BY <2>3
  <2> QED BY <2>1, <2>2, <2>5, <2>6, <2>7, MoverServed
<1> QED BY <1>1, <1>2, <1>3 DEF RequestStep

\* Every step of the engines is a move of one request and no change of the slot.
LEMMA EngineMoves ==
  ASSUME MemoryInv, Alone, ~crowded', NEW r \in Requests, ModelStep(r) \/ PipelineStep(r)
  PROVE  /\ ~crowded /\ pc[r] # "idle" /\ pc[r] # "acquire"
         /\ lock = None /\ step = "free" /\ active' = active /\ step' = step /\ task' = task
         /\ warmed' = warmed /\ booted' = booted
         /\ \E to \in Places : Goto(r, to) /\ pc'[r] = to
         /\ held' = held \/ \E h : held' = [held EXCEPT ![r] = h]
         /\ \A q \in Requests : q # r => pc[q] = "idle" /\ pc'[q] = "idle"
<1> USE DEF ModelStep, UpgradeTest, Drop, Clear, Test, Load, LoadFails, Flag, Return,
            PipelineStep, Unreadable, TestD, LoadD, StorePipeline, MoveD, MovedD, ReturnD
<1>1. ~crowded
  BY DEF history
<1>2. pc[r] # "idle" /\ pc[r] # "acquire"
  OBVIOUS
<1>3. lock = None /\ step = "free"
  BY <1>1, <1>2, LockAlone
<1>4. /\ active' = active /\ step' = step /\ task' = task
      /\ warmed' = warmed /\ booted' = booted
  BY DEF manager, history
<1>5. PICK to \in Places : Goto(r, to)
  BY EndTyped DEF Places
<1>6. held' = held \/ \E h : held' = [held EXCEPT ![r] = h]
  BY DEF Raises
<1>7. pc'[r] = to /\ \A q \in Requests : q # r => pc'[q] = pc[q]
  BY <1>5 DEF Goto, MemoryInv, MemoryTypeOK
<1> HIDE DEF ModelStep, PipelineStep
<1>8. \A q \in Requests : q # r => pc[q] = "idle"
  BY <1>1, <1>2, OthersIdle
<1> QED BY <1>1, <1>2, <1>3, <1>4, <1>5, <1>6, <1>7, <1>8

LEMMA ModelAlone ==
  ASSUME MemoryInv, Alone, ~crowded', NEW r \in Requests, ModelStep(r)
  PROVE  Tidy' /\ Equipped(r)'
<1>1. /\ ~crowded /\ lock = None /\ step = "free" /\ active' = active /\ step' = step /\ task' = task
      /\ warmed' = warmed /\ \A q \in Requests : q # r => pc[q] = "idle" /\ pc'[q] = "idle"
  BY EngineMoves
<1>2. Tidy /\ Equipped(r) /\ held[r] \in {None, "asr", "diarization"}
  BY <1>1 DEF Alone, MemoryInv, MemoryTypeOK
<1>3. NeedsAligner(r)' = NeedsAligner(r)
  BY <1>1 DEF NeedsAligner
<1>4. model \in AsrModels \union {None, "gone"} /\ pipeline \in {None, "gone", "loaded"}
  BY DEF MemoryInv, MemoryTypeOK
<1>5. CASE UpgradeTest(r)
  <2>1. /\ pc[r] = "upgrade" /\ UNCHANGED <<model, aligner, pipeline>>
        /\ model # "gone" /\ held' = held
        /\ pc'[r] = IF model # None /\ NeedsAligner(r) /\ ~aligner THEN "drop" ELSE "test"
    BY <1>1, <1>2, <1>5 DEF UpgradeTest, Goto, globals, history, Tidy, MemoryInv, MemoryTypeOK
  <2>2. model \in AsrModels => aligner = (model = "aligned")
    BY <1>1, <1>2, <2>1 DEF Tidy
  <2>3. Tidy'
    BY <1>1, <1>2, <2>1, <2>2 DEF Tidy
  <2> QED BY <1>2, <1>3, <1>4, <2>1, <2>2, <2>3 DEF Equipped, AsrModels, None
<1>6. CASE Drop(r) \/ Clear(r)
  <2>1. /\ UNCHANGED <<aligner, pipeline>> /\ held' = held
        /\ \/ model' = "gone" /\ pc'[r] = "clear" /\ pc[r] = "drop"
           \/ model' = None /\ pc'[r] = "test" /\ pc[r] = "clear"
    BY <1>1, <1>2, <1>6 DEF Drop, Clear, Goto, history, Tidy, MemoryInv, MemoryTypeOK
  <2>2. Tidy'
    BY <1>1, <1>2, <2>1 DEF Tidy, AsrModels, None
  <2> QED BY <1>2, <2>1, <2>2 DEF Equipped, None
<1>7. CASE Test(r)
  <2>1. /\ pc[r] = "test" /\ UNCHANGED <<model, aligner, pipeline>>
        /\ model # "gone" /\ held' = held
        /\ pc'[r] = IF model # None THEN "return" ELSE "acquire"
    BY <1>1, <1>2, <1>7 DEF Test, Goto, globals, history, Tidy, MemoryInv, MemoryTypeOK
  <2>2. Tidy'
    BY <1>1, <1>2, <2>1 DEF Tidy
  <2> QED BY <1>2, <1>3, <1>4, <2>1, <2>2 DEF Equipped, AsrModels, None
<1>8. CASE Load(r)
  <2>1. /\ pc[r] = "load" /\ pc'[r] = "flag" /\ UNCHANGED <<aligner, pipeline, held>>
        /\ model' = IF NeedsAligner(r) THEN "aligned" ELSE "plain"
    BY <1>8 DEF Load, Goto, MemoryInv, MemoryTypeOK
  <2>2. active = "asr"
    BY <1>2, <2>1 DEF Equipped
  <2>3. Tidy'
    BY <1>1, <1>2, <2>1, <2>2 DEF Tidy
  <2> QED BY <1>2, <1>3, <2>1, <2>3 DEF Equipped, None
<1>9. CASE LoadFails(r)
  <2>1. /\ pc[r] \in {"load", "dload", "dmoved"} /\ pc'[r] = "idle" /\ held'[r] = None
        /\ UNCHANGED <<model, aligner, pipeline>>
    BY <1>9 DEF LoadFails, Raises, Goto, globals, history, MemoryInv, MemoryTypeOK
  <2>2. Tidy'
    BY <1>1, <1>2, <2>1 DEF Tidy
  <2> QED BY <2>1, <2>2 DEF Equipped, None
<1>10. CASE Flag(r)
  <2>1. /\ pc[r] = "flag" /\ pc'[r] = "return" /\ UNCHANGED <<model, pipeline, held>>
        /\ aligner' = NeedsAligner(r)
    BY <1>10 DEF Flag, Goto, history, MemoryInv, MemoryTypeOK
  <2>2. model = IF NeedsAligner(r) THEN "aligned" ELSE "plain"
    BY <1>2, <2>1 DEF Equipped
  <2>3. aligner' = (model = "aligned")
    <3>1. CASE NeedsAligner(r)
      BY <2>1, <2>2, <3>1 DEF NeedsAligner
    <3>2. CASE ~NeedsAligner(r)
      BY <2>1, <2>2, <3>2 DEF NeedsAligner
    <3> QED BY <3>1, <3>2
  <2>4. Tidy'
    BY <1>1, <1>2, <2>1, <2>3 DEF Tidy
  <2> QED BY <1>2, <1>3, <2>1, <2>4 DEF Equipped, None
<1>11. CASE Return(r)
  <2>1. /\ pc[r] = "return" /\ UNCHANGED <<model, aligner, pipeline>>
        /\ \/ model \in AsrModels /\ pc'[r] = "use" /\ held'[r] = "asr"
           \/ pc'[r] = "idle" /\ held'[r] = None
    BY <1>11 DEF Return, Raises, Goto, globals, history, MemoryInv, MemoryTypeOK
  <2>2. Tidy'
    BY <1>1, <1>2, <2>1 DEF Tidy
  <2> QED BY <2>1, <2>2 DEF Equipped, None
<1> QED BY <1>5, <1>6, <1>7, <1>8, <1>9, <1>10, <1>11 DEF ModelStep

LEMMA PipelineAlone ==
  ASSUME MemoryInv, Alone, ~crowded', NEW r \in Requests, PipelineStep(r)
  PROVE  Tidy' /\ Equipped(r)'
<1>1. /\ ~crowded /\ lock = None /\ step = "free" /\ active' = active /\ step' = step
      /\ warmed' = warmed /\ \A q \in Requests : q # r => pc[q] = "idle" /\ pc'[q] = "idle"
  BY EngineMoves
<1>2. Tidy /\ Equipped(r) /\ held[r] \in {None, "asr", "diarization"}
  BY <1>1 DEF Alone, MemoryInv, MemoryTypeOK
<1>3. pipeline \in {None, "loaded"}
  BY <1>1, <1>2 DEF Tidy, MemoryInv, MemoryTypeOK
<1>4. /\ pc[r] \in {"dtest", "dload", "dmove", "dmoved", "dreturn"}
      /\ UNCHANGED <<model, aligner>>
      /\ pc'[r] \in {"idle", "dload", "dmove", "dmoved", "dreturn", "use"}
  BY DEF PipelineStep, Unreadable, TestD, LoadD, StorePipeline, MoveD, MovedD, ReturnD, Raises,
         Goto, globals, MemoryInv, MemoryTypeOK
<1>5. active = "diarization" \/ warmed
  BY <1>2, <1>4 DEF Equipped
<1>6. pipeline' = pipeline \/ pipeline' = "loaded"
  BY DEF PipelineStep, Unreadable, TestD, LoadD, StorePipeline, MoveD, MovedD, ReturnD, globals
<1>7. Tidy'
  BY <1>1, <1>2, <1>3, <1>4, <1>5, <1>6 DEF Tidy, UnloadsAsr, None
<1>8. /\ held'[r] # "asr"
      /\ held'[r] = "diarization" => pc'[r] \in {"use", "dmoved"} /\ pipeline' = "loaded"
      /\ pc'[r] \in {"dmove", "dmoved", "dreturn"} => pipeline' = "loaded"
  <2>1. CASE Unreadable(r)
    BY <2>1 DEF Unreadable, Raises, Goto, None, MemoryInv, MemoryTypeOK
  <2>2. CASE TestD(r)
    BY <2>2, <1>2, <1>3, <1>4 DEF TestD, Raises, Goto, None, Equipped, globals, MemoryInv, MemoryTypeOK
  <2>3. CASE LoadD(r)
    BY <2>3, <1>2, <1>4 DEF LoadD, StorePipeline, Goto, Equipped, MemoryInv, MemoryTypeOK
  <2>4. CASE MoveD(r)
    BY <2>4, <1>2 DEF MoveD, Raises, Goto, None, globals, MemoryInv, MemoryTypeOK
  <2>5. CASE MovedD(r)
    BY <2>5 DEF MovedD, StorePipeline, Goto, None, MemoryInv, MemoryTypeOK
  <2>6. CASE ReturnD(r)
    BY <2>6 DEF ReturnD, Raises, Goto, None, globals, MemoryInv, MemoryTypeOK
  <2> QED BY <2>1, <2>2, <2>3, <2>4, <2>5, <2>6 DEF PipelineStep
<1> QED BY <1>1, <1>4, <1>5, <1>7, <1>8 DEF Equipped

LEMMA AcquireAlone ==
  ASSUME MemoryInv, Alone, ~crowded', NEW r \in Requests, AcquireStep(r)
  PROVE  Alone'
<1>1. /\ ~crowded /\ pc[r] = "acquire"
      /\ UNCHANGED <<model, aligner, pipeline, task, held, booted>>
  <2>1. crowded' = crowded /\ UNCHANGED <<model, aligner, pipeline, task, held, booted>>
    BY DEF AcquireStep, AcquireAgain, AcquireOther, Activate, LoadLlm, globals, requests, history
  <2>2. pc[r] = "acquire" \/ lock = r
    BY DEF AcquireStep, AcquireAgain, AcquireOther, Activate, LoadLlm
  <2>3. lock # None => pc[lock] = "acquire"
    BY DEF MemoryInv, MemoryTypeOK
  <2>4. r # None
    BY RequestsAssumption DEF None
  <2> QED BY <2>1, <2>2, <2>3, <2>4
<1>2. Tidy /\ Equipped(r) /\ held[r] = None
  BY <1>1 DEF Alone, Equipped, MemoryInv, MemoryTypeOK
<1>3. \A q \in Requests : q # r => pc[q] = "idle" /\ held[q] = None
  BY <1>1, OthersIdle
<1>4. /\ pc' = pc \/ \E to : Goto(r, to)
      /\ \/ pc'[r] = "acquire" \/ pc'[r] = "chat"
         \/ pc'[r] = "dtest" /\ active' = "diarization"
         \/ pc'[r] = "load" /\ active' = "asr"
      /\ active' = active \/ step = "mark"
      /\ warmed' = warmed \/ active' = "diarization"
  <2>1. CASE Acquired(r)
    <3>1. active' = Want(r) \/ Want(r) = "llm"
      <4>1. CASE AcquireAgain(r) \/ Activate(r)
        BY <4>1 DEF AcquireAgain, Activate
      <4>2. CASE AcquireOther(r)
        BY <2>1, <4>2, RequestsAssumption DEF AcquireOther, Acquired, None
      <4>3. CASE LoadLlm(r)
        BY <4>3 DEF LoadLlm, MemoryInv, Phases
      <4> QED BY <4>1, <4>2, <4>3 DEF AcquireStep
    <3>2. Want(r) \in {"llm", "diarization", "asr"}
      BY WantTyped
    <3>3. active' = active \/ step = "mark"
      BY DEF AcquireStep, AcquireAgain, AcquireOther, Activate, LoadLlm
    <3>4. pc'[r] = CASE Want(r) = "llm" -> "chat" [] Want(r) = "diarization" -> "dtest"
                     [] OTHER -> "load"
      BY <2>1 DEF Acquired, Goto, MemoryInv, MemoryTypeOK
    <3>5. warmed' = warmed \/ Want(r) = "diarization"
      BY <2>1 DEF Acquired, MemoryInv, MemoryTypeOK
    <3> QED BY <2>1, <3>1, <3>2, <3>3, <3>4, <3>5 DEF Acquired
  <2>2. CASE pc' = pc /\ warmed' = warmed
    BY <2>2, <1>1 DEF AcquireStep, AcquireAgain, AcquireOther, Activate, LoadLlm
  <2> QED BY <2>1, <2>2 DEF AcquireStep, AcquireAgain, AcquireOther, Activate, LoadLlm, requests,
       history
<1>5. /\ pipeline # "gone" /\ model # "gone"
      /\ step = "mark" => model \notin AsrModels /\ (pipeline # "loaded" \/ warmed)
  <2>1. step \in {"free", "mark", "llm_load"}
    BY DEF AcquireStep, AcquireAgain, AcquireOther, Activate, LoadLlm, MemoryInv, MemoryTypeOK
  <2>2. \A q \in Requests : pc[q] # "clear"
    BY <1>1, <1>3
  <2> QED BY <1>2, <2>1, <2>2 DEF Tidy
<1>6. Tidy'
  <2>1. \A q \in Requests : pc[q] # "flag"
    BY <1>1, <1>3
  <2>2. step' \in {"free", "llm_load"} \/ (step = "free" /\ active' = active /\ step' = Unload(active))
    BY DEF AcquireStep, AcquireAgain, AcquireOther, Activate, LoadLlm, Acquired, MemoryInv,
       MemoryTypeOK
  <2> QED BY <1>1, <1>2, <1>4, <1>5, <2>1, <2>2 DEF Tidy, Unload, UnloadsAsr
<1>7. Equipped(r)'
  BY <1>1, <1>2, <1>4 DEF Equipped, None
<1> QED BY <1>1, <1>4, <1>6, <1>7, MoverServed

LEMMA UnloadAlone ==
  ASSUME MemoryInv, Alone, ~crowded', UnloadStep
  PROVE  Alone'
<1>1. /\ ~crowded /\ lock # None /\ UNCHANGED <<active, task, pc, held, warmed, booted>>
  BY DEF UnloadStep, TestPipeline, DeletePipeline, ClearPipeline, TestModel, DeleteModel,
     ClearModel, ClearFlag, UnloadLlm, LeaveLlm, requests, history, MemoryInv, MemoryTypeOK
<1>2. lock \in Requests /\ pc[lock] = "acquire"
  BY <1>1 DEF MemoryInv, MemoryTypeOK
<1>3. \A q \in Requests : q # lock => pc[q] = "idle" /\ held[q] = None
  BY <1>1, <1>2, OthersIdle
<1>4. Tidy /\ Equipped(lock) /\ held[lock] = None
  BY <1>1, <1>2 DEF Alone, Equipped, MemoryInv, MemoryTypeOK
<1>5. \A q \in Requests : pc[q] # "clear" /\ pc[q] # "flag"
  BY <1>2, <1>3
<1>6. Tidy'
  <2>1. CASE TestPipeline \/ LeaveLlm \/ UnloadLlm \/ TestModel
    BY <2>1, <1>1, <1>4, <1>5 DEF TestPipeline, LeaveLlm, UnloadLlm, TestModel, globals, Tidy,
       UnloadsAsr, Phases, MemoryInv
  <2>2. CASE DeletePipeline \/ ClearPipeline
    BY <2>2, <1>1, <1>4, <1>5 DEF DeletePipeline, ClearPipeline, Tidy, UnloadsAsr, None
  <2>3. CASE DeleteModel \/ ClearModel
    BY <2>3, <1>1, <1>4, <1>5 DEF DeleteModel, ClearModel, Tidy, UnloadsAsr, None, AsrModels
  <2>4. CASE ClearFlag
    BY <2>4, <1>1, <1>4, <1>5 DEF ClearFlag, Tidy, UnloadsAsr
  <2> QED BY <2>1, <2>2, <2>3, <2>4 DEF UnloadStep
<1>7. Equipped(lock)'
  <2>1. pc'[lock'] = "acquire" /\ held'[lock'] = None /\ lock' = lock
    BY <1>1, <1>2, <1>4 DEF UnloadStep, TestPipeline, DeletePipeline, ClearPipeline, TestModel,
       DeleteModel, ClearModel, ClearFlag, UnloadLlm, LeaveLlm
  <2> QED BY <2>1 DEF Equipped, None
<1>8. \A q \in Requests : q # lock => Equipped(q)'
  BY <1>1, <1>3, IdleServed
<1>9. Sole' /\ Unbegun'
  BY <1>1 DEF Alone, Sole, Unbegun
<1>10. \A q \in Requests : Equipped(q)'
  <2>1. lock' = lock
    BY DEF UnloadStep, TestPipeline, DeletePipeline, ClearPipeline, TestModel,
       DeleteModel, ClearModel, ClearFlag, UnloadLlm, LeaveLlm
  <2> QED BY <1>7, <1>8, <2>1 DEF Equipped, NeedsAligner
<1> QED BY <1>6, <1>9, <1>10 DEF Alone

LEMMA AloneStep == MemoryInv /\ Alone /\ [MemoryNext]_memoryVars => Alone'
<1> SUFFICES ASSUME MemoryInv, Alone, [MemoryNext]_memoryVars, ~crowded' PROVE Alone'
  BY DEF Alone
<1>1. CASE LlmExpires \/ UNCHANGED memoryVars
  <2>1. UNCHANGED <<active, step, model, aligner, pipeline, task, pc, held, crowded, warmed,
                 booted>>
    BY <1>1 DEF LlmExpires, memoryVars, manager, globals, requests, history
  <2> QED BY <2>1 DEF Alone, Sole, Unbegun, Tidy, Equipped, NeedsAligner
<1>2. CASE \E r \in Requests : ModelStep(r) \/ PipelineStep(r)
  <2>1. PICK r \in Requests : ModelStep(r) \/ PipelineStep(r)
    BY <1>2
  <2>2. /\ ~crowded /\ pc[r] # "idle" /\ booted' = booted /\ \E to \in Places : Goto(r, to)
        /\ held' = held \/ \E h : held' = [held EXCEPT ![r] = h]
    BY <2>1, EngineMoves
  <2>3. Tidy' /\ Equipped(r)'
    BY <2>1, ModelAlone, PipelineAlone
  <2> QED BY <2>2, <2>3, MoverServed
<1> QED BY <1>1, <1>2, RequestAlone, AcquireAlone, UnloadAlone DEF MemoryNext

LEMMA AloneHolds == MemorySpec => [](MemoryInv /\ Alone /\ LlmKnown)
<1>1. MemoryInit => MemoryInv /\ Alone /\ LlmKnown
  BY MemoryInvInit, AloneInit
<1>2. (MemoryInv /\ Alone /\ LlmKnown) /\ [MemoryNext]_memoryVars => (MemoryInv /\ Alone /\ LlmKnown)'
  BY MemoryInvStep, AloneStep, LlmStep
<1> QED BY <1>1, <1>2, PTL DEF MemorySpec

\* A request that comes alone gets the model that it needs, for any sequence of
\* requests, failures and settings (engine.py:44-74, diarization/engine.py:45-63).
THEOREM AloneServedHolds == MemorySpec => []AloneServed
<1>1. ASSUME Alone PROVE AloneServed
  <2>1. ASSUME ~crowded, NEW r \in Requests
        PROVE  /\ pc[r] = "return" => model = "aligned" \/ (model = "plain" /\ ~NeedsAligner(r))
               /\ pc[r] = "dreturn" => pipeline = "loaded"
               /\ pc[r] = "test" /\ NeedsAligner(r) => model # "plain"
    <3>1. Equipped(r)
      BY <1>1, <2>1 DEF Alone
    <3> QED BY <3>1 DEF Equipped
  <2> QED BY <2>1, Zenon DEF AloneServed
<1> QED BY <1>1, AloneHolds, PTL

\* One model at a time is in memory, as long as requests come one at a time and LM
\* Studio does what it is told (memory.py:3-5): it is the active slot's. Only the
\* pipeline that the warm-up loaded may be there too, until a diarization gets
\* its slot (app.py:28-34).
THEOREM AloneOneModelHolds == MemorySpec => []AloneOneModel
<1>1. MemoryInv /\ Alone /\ LlmKnown => AloneOneModel
  <2> SUFFICES ASSUME MemoryInv, Alone, LlmKnown, ~crowded, ~refused, ~KeepLoaded, 
                      NEW k \in Resident \ (IF warmed THEN {"diarization"} ELSE {})
               PROVE  k = active
    BY DEF AloneOneModel
  <2>1. Tidy /\ \A r \in Requests : Equipped(r)
    BY DEF Alone
  <2>2. CASE k = "asr"
    <3>1. model \in AsrModels \/ \E r \in Requests : pc[r] = "load" \/ held[r] = "asr"
      BY <2>2 DEF Resident
    <3> QED BY <2>1, <2>2, <3>1 DEF Tidy, Equipped
  <2>3. CASE k = "diarization"
    <3>1. pipeline = "loaded" \/ \E r \in Requests : pc[r] = "dload" \/ held[r] = "diarization"
      BY <2>3 DEF Resident
    <3> QED BY <2>1, <2>3, <3>1 DEF Tidy, Equipped
  <2>4. CASE k = "llm"
    <3>1. llm
      BY <2>4 DEF Resident
    <3> QED BY <2>4, <3>1 DEF LlmKnown, MemoryInv, HandleInTime
  <2> QED BY <2>2, <2>3, <2>4 DEF Resident
<1> QED BY <1>1, AloneHolds, PTL
=============================================================================
