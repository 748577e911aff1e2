------------------------------ MODULE JobQueue ------------------------------
(***************************************************************************)
(* The job queue of the AI server (alunotes_ai/queue.py): a table of jobs, *)
(* a worker coroutine, a monitor coroutine and the callers of submit and   *)
(* wait_for_result.                                                        *)
(*                                                                         *)
(* All of them run on one event loop: a step goes from one await to the    *)
(* next.  The inner loop of the worker awaits only the handler, so nobody  *)
(* else runs while it is popping.  expires_at is read for running rows     *)
(* only, that is for the job of the running handler: it is kept for that   *)
(* job, as the time left.  updated_at only says when cleanup_old may       *)
(* delete a settled row: at any time here, after an hour in the code.      *)
(***************************************************************************)
EXTENDS Integers

CONSTANTS
  MaxJobs,    \* bound: jobs one behaviour may submit
  Types,      \* JobType
  NoType,     \* _current_type is None
  Handled,    \* the types with a registered handler
  Ttl         \* _ttl_for_type

ASSUME TypesAssumption == NoType \notin Types /\ Handled \subseteq Types
ASSUME NumbersAssumption ==
  MaxJobs \in Nat /\ Ttl \in [Types -> Nat]

VARIABLES
  nSubmitted,  \* jobs submitted so far; ids follow created_at
  kind,        \* the jobs' type column
  status,      \* the jobs' status column ("absent", "deleted": no row)
  signal,      \* JobQueue._event
  loaded,      \* JobQueue._current_type
  worker,      \* where _worker_loop is
  working,     \* the job its handler is running
  left,        \* until that job's expires_at; -1 once past
  monitoring,  \* _monitor_loop is running
  event,       \* _completion_events
  result,      \* _results
  caller       \* of wait_for_result: waiting, or what it was given

rows == <<kind, status>>
answers == <<event, result>>
loop == <<signal, loaded, worker, working, left>>
vars == <<nSubmitted, rows, loop, monitoring, answers, caller>>

Jobs == 1 .. MaxJobs
NoJob == 0
Outcomes == {"value", "error", "timeout"}
Settled == {"done", "failed", "expired"}

Init ==
  /\ nSubmitted = 0
  /\ kind = [j \in Jobs |-> NoType]
  /\ status = [j \in Jobs |-> "absent"]
  /\ signal = FALSE
  /\ loaded = NoType
  /\ worker = "waiting"
  /\ working = NoJob
  /\ left = 0
  /\ monitoring = TRUE
  /\ event = [j \in Jobs |-> "none"]
  /\ result = [j \in Jobs |-> "none"]
  /\ caller = [j \in Jobs |-> "none"]

-----------------------------------------------------------------------------
(* The table *)

Pending == {j \in Jobs : status[j] = "pending"}
Oldest(S) == {j \in S : \A i \in S : j <= i}

NextJobNewest == {j \in Pending : \A i \in Pending : j >= i}   \* mutant

\* SELECT ... WHERE type = prefer ORDER BY created_at, else the oldest of all.
NextJob ==
  LET preferred == {j \in Pending : kind[j] = loaded}
  IN  IF preferred # {} THEN Oldest(preferred) ELSE Oldest(Pending)

\* UPDATE ... SET status = s WHERE id = j: nothing, if the row is gone.
Mark(j, s) ==
  IF status[j] = "deleted"
  THEN UNCHANGED status
  ELSE status' = [status EXCEPT ![j] = s]

\* _signal_completion for each of the jobs in S.
SignalCompletion(S, outcome) ==
  /\ result' = [j \in Jobs |-> IF j \in S THEN outcome ELSE result[j]]
  /\ event' = [j \in Jobs |-> IF j \in S /\ event[j] # "none" THEN "set" ELSE event[j]]

\* Other coroutines run only while the worker awaits something.
Suspended == worker # "popping"

-----------------------------------------------------------------------------
(* The callers *)

\* Mutant: the worker is not woken.
SubmitSilent(t) ==
  /\ Suspended
  /\ nSubmitted < MaxJobs
  /\ nSubmitted' = nSubmitted + 1
  /\ kind' = [kind EXCEPT ![nSubmitted + 1] = t]
  /\ status' = [status EXCEPT ![nSubmitted + 1] = "pending"]
  /\ event' = [event EXCEPT ![nSubmitted + 1] = "unset"]
  /\ UNCHANGED <<loop, monitoring, result, caller>>

Submit(t) ==
  /\ Suspended
  /\ nSubmitted < MaxJobs
  /\ nSubmitted' = nSubmitted + 1
  /\ kind' = [kind EXCEPT ![nSubmitted + 1] = t]
  /\ status' = [status EXCEPT ![nSubmitted + 1] = "pending"]
  /\ event' = [event EXCEPT ![nSubmitted + 1] = "unset"]
  /\ signal' = TRUE
  /\ UNCHANGED <<loaded, worker, working, left, monitoring, result, caller>>

\* wait_for_result finds the job's event and awaits it.
Wait(j) ==
  /\ Suspended
  /\ caller[j] = "none" /\ event[j] # "none"
  /\ caller' = [caller EXCEPT ![j] = "waiting"]
  /\ UNCHANGED <<nSubmitted, rows, loop, monitoring, answers>>

\* The event is set: the caller pops the result and then the event.
Collect(j) ==
  /\ Suspended
  /\ caller[j] = "waiting" /\ event[j] = "set"
  /\ caller' = [caller EXCEPT ![j] = result[j]]
  /\ result' = [result EXCEPT ![j] = "none"]
  /\ event' = [event EXCEPT ![j] = "none"]
  /\ UNCHANGED <<nSubmitted, rows, loop, monitoring>>

\* The caller's own timeout: nothing is popped, and it may wait again.
GiveUp(j) ==
  /\ Suspended
  /\ caller[j] = "waiting"
  /\ caller' = [caller EXCEPT ![j] = "none"]
  /\ UNCHANGED <<nSubmitted, rows, loop, monitoring, answers>>

-----------------------------------------------------------------------------
(* The worker *)

Wake ==
  /\ worker = "waiting" /\ signal
  /\ signal' = FALSE
  /\ worker' = "popping"
  /\ UNCHANGED <<nSubmitted, rows, loaded, working, left, monitoring, answers, caller>>

NothingPending ==
  /\ worker = "popping" /\ Pending = {}
  /\ worker' = "waiting"
  /\ UNCHANGED <<nSubmitted, rows, signal, loaded, working, left, monitoring,
                 answers, caller>>

\* pop_next marks the row, mem.acquire switches the model, the handler starts.
Pop(j) ==
  /\ worker = "popping" /\ j \in NextJob /\ kind[j] \in Handled
  /\ status' = [status EXCEPT ![j] = "running"]
  /\ loaded' = kind[j]
  /\ worker' = "handling"
  /\ working' = j
  /\ left' = Ttl[kind[j]]
  /\ UNCHANGED <<nSubmitted, kind, signal, monitoring, answers, caller>>

\* Mutant: the worker goes back to sleep.
PopUnhandledSleeps(j) ==
  /\ worker = "popping" /\ j \in NextJob /\ kind[j] \notin Handled
  /\ status' = [status EXCEPT ![j] = "failed"]
  /\ loaded' = kind[j]
  /\ SignalCompletion({j}, "error")
  /\ worker' = "waiting"
  /\ UNCHANGED <<nSubmitted, kind, signal, working, left, monitoring, caller>>

\* No handler is registered: the job fails at once and the loop goes on.
PopUnhandled(j) ==
  /\ worker = "popping" /\ j \in NextJob /\ kind[j] \notin Handled
  /\ status' = [status EXCEPT ![j] = "failed"]
  /\ loaded' = kind[j]
  /\ SignalCompletion({j}, "error")
  /\ UNCHANGED <<nSubmitted, kind, signal, worker, working, left, monitoring, caller>>

\* Mutant: the job is queued again.
HandlerEndsRequeues(s, outcome) ==
  /\ worker = "handling"
  /\ Mark(working, IF s = "failed" THEN "pending" ELSE s)
  /\ SignalCompletion({working}, outcome)
  /\ worker' = "popping"
  /\ working' = NoJob
  /\ left' = 0
  /\ UNCHANGED <<nSubmitted, kind, signal, loaded, monitoring, caller>>

\* The handler returns a result, or raises.
HandlerEnds(s, outcome) ==
  /\ worker = "handling"
  /\ Mark(working, s)
  /\ SignalCompletion({working}, outcome)
  /\ worker' = "popping"
  /\ working' = NoJob
  /\ left' = 0
  /\ UNCHANGED <<nSubmitted, kind, signal, loaded, monitoring, caller>>

\* The handler pushes its job's expiry forward.
Heartbeat ==
  /\ worker = "handling" /\ status[working] # "deleted"
  /\ left' = Ttl[kind[working]]
  /\ UNCHANGED <<nSubmitted, rows, signal, loaded, worker, working, monitoring,
                 answers, caller>>

-----------------------------------------------------------------------------
(* The monitor, the clock and the end of the server *)

Stale == {j \in Jobs : status[j] = "running" /\ j = working /\ left < 0}
Finished == {j \in Jobs : status[j] \in Settled}

\* Mutant: every job past its time is expired, whatever its status.
MonitorExpiresAny(old) ==
  /\ monitoring /\ Suspended
  /\ LET stale == {j \in Jobs : left < 0 /\ status[j] \notin {"absent", "deleted"}} IN
       /\ status' = [j \in Jobs |-> IF j \in stale THEN "expired"
                                    ELSE IF j \in old THEN "deleted" ELSE status[j]]
       /\ SignalCompletion(stale, "timeout")
  /\ UNCHANGED <<nSubmitted, kind, loop, monitoring, caller>>

\* expire_stale and its signals, then cleanup_old of the old rows.
Monitor(old) ==
  /\ monitoring /\ Suspended
  /\ status' = [j \in Jobs |-> IF j \in Stale THEN "expired"
                               ELSE IF j \in old THEN "deleted" ELSE status[j]]
  /\ SignalCompletion(Stale, "timeout")
  /\ UNCHANGED <<nSubmitted, kind, loop, monitoring, caller>>

\* Time passes for the running job.
Tick ==
  /\ worker = "handling" /\ left >= 0
  /\ left' = left - 1
  /\ UNCHANGED <<nSubmitted, rows, signal, loaded, worker, working, monitoring,
                 answers, caller>>

\* stop cancels both tasks; the handler is cancelled with the worker, and
\* CancelledError is not an Exception: its job's row stays as it is.
Stop ==
  /\ monitoring /\ Suspended
  /\ monitoring' = FALSE
  /\ worker' = "off"
  /\ working' = NoJob
  /\ left' = 0
  /\ UNCHANGED <<nSubmitted, rows, signal, loaded, answers, caller>>

PopNext == \E j \in Jobs : Pop(j) \/ PopUnhandled(j)

MonitorStep == \E old \in SUBSET Finished : Monitor(old)

HandlerStep == HandlerEnds("done", "value") \/ HandlerEnds("failed", "error")

Next ==
  \/ \E t \in Types : Submit(t)
  \/ \E j \in Jobs : Wait(j) \/ Collect(j) \/ GiveUp(j)
  \/ Wake
  \/ NothingPending
  \/ PopNext
  \/ HandlerStep
  \/ Heartbeat
  \/ MonitorStep
  \/ Tick
  \/ Stop

\* The event loop runs every coroutine that is ready, and handlers return;
\* nothing makes callers submit, wait, give up or send heartbeats.
Fairness ==
  /\ WF_vars(Wake) /\ WF_vars(NothingPending) /\ WF_vars(PopNext)
  /\ WF_vars(HandlerStep) /\ WF_vars(MonitorStep) /\ WF_vars(Tick)

Spec == Init /\ [][Next]_vars /\ Fairness

-----------------------------------------------------------------------------
(* Properties *)

\* Every variable has its type.
TypeOK ==
  /\ nSubmitted \in 0 .. MaxJobs
  /\ kind \in [Jobs -> Types \union {NoType}]
  /\ status \in [Jobs -> Settled \union {"absent", "pending", "running", "deleted"}]
  /\ signal \in BOOLEAN
  /\ loaded \in Types \union {NoType}
  /\ worker \in {"waiting", "popping", "handling", "off"}
  /\ working \in Jobs \union {NoJob}
  /\ left \in Nat \union {-1}
  /\ monitoring \in BOOLEAN
  /\ event \in [Jobs -> {"none", "unset", "set"}]
  /\ result \in [Jobs -> Outcomes \union {"none"}]
  /\ caller \in [Jobs -> Outcomes \union {"none", "waiting"}]

\* The worker never sleeps on a cleared event while jobs are pending: a job
\* submitted while it was busy is not forgotten (queue.py:320-331).
NoLostWakeup == worker = "waiting" /\ Pending # {} => signal

\* Whatever ends a job (its handler, the lack of one, the monitor) has told the
\* waiter, and a waiter that is woken finds an outcome, not None.
SettledIsSignalled ==
  \A j \in Jobs : /\ status[j] \in Settled => event[j] # "unset"
                  /\ event[j] = "set" => result[j] # "none"

\* A settled job changes its status only when its row is cleaned up, or when
\* the handler of a job that expired ends after all.
SettledStays ==
  [][\A j \in Jobs :
       status[j] \in Settled /\ status'[j] # status[j] =>
         status'[j] = "deleted" \/ (status[j] = "expired" /\ working = j)]_vars

\* An outcome nobody will collect is left in _results only for a job that the
\* monitor had expired, and whose caller had been told so.
StrayOnlyExpired ==
  [][\A j \in Jobs :
       event[j] = "none" /\ result[j] = "none" /\ result'[j] # "none" =>
         caller[j] = "timeout"]_vars

\* A job overtakes an older one only to spare a model swap: its own type is
\* loaded and the older job's is not.
OvertakeOnlyToBatch ==
  [][\A i, j \in Jobs :
       i < j /\ status[i] = "pending" /\ status'[i] = "pending"
             /\ status[j] = "pending" /\ status'[j] # "pending" =>
         kind[j] = loaded /\ kind[i] # loaded]_vars

\* A pending job is passed over for a newer one of the loaded type.
Overtaken(j) ==
  /\ status[j] = "pending" /\ status'[j] = "pending"
  /\ \E i \in Jobs : /\ j < i /\ kind[i] = loaded
                     /\ status[i] = "pending" /\ status'[i] # "pending"

\* Every submitted job is settled, unless the queue is stopped, or newer jobs of
\* the loaded type overtake it again and again: pop_next prefers them without a
\* limit (queue.py:104-113), and a pending job never expires, so a steady stream
\* of them starves it.  MaxJobs ends every stream: what is shown is that nothing
\* else keeps a job from being settled, a wakeup that is lost, a type without a
\* handler, a handler that raises, or an expiry.
Served ==
  \A j \in Jobs :
    \/ status[j] = "pending" ~> (status[j] \notin {"pending", "running"} \/ worker = "off")
    \/ []<><<Overtaken(j)>>_vars

\* The queue implements the service: jobs run alone and once, callers are
\* answered once, after the job ran or expired.
stageOf(j) ==
  IF working = j THEN "active"
  ELSE IF status[j] = "absent" THEN "absent"
  ELSE IF status[j] = "pending" THEN "queued"
  ELSE "over"

answerOf(j) == IF caller[j] = "waiting" THEN "none" ELSE caller[j]

Service == INSTANCE JobService WITH
  stage <- [j \in Jobs |-> stageOf(j)],
  answer <- [j \in Jobs |-> answerOf(j)]

ImplementsService == Service!Spec
=============================================================================
