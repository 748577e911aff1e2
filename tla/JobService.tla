----------------------------- MODULE JobService -----------------------------
(***************************************************************************)
(* What the job queue of the AI server promises to the callers of submit   *)
(* and wait_for_result: jobs run one at a time, each at most once, and a   *)
(* caller is answered at most once, never before its job has run or has    *)
(* expired while running.                                                  *)
(***************************************************************************)
CONSTANT Jobs

VARIABLES
  stage,    \* of each job
  answer    \* what the caller of wait_for_result was given

vars == <<stage, answer>>

Init ==
  /\ stage = [j \in Jobs |-> "absent"]
  /\ answer = [j \in Jobs |-> "none"]

Request(j) ==
  /\ stage[j] = "absent"
  /\ stage' = [stage EXCEPT ![j] = "queued"]
  /\ UNCHANGED answer

Begin(j) ==
  /\ stage[j] = "queued"
  /\ \A i \in Jobs : stage[i] # "active"
  /\ stage' = [stage EXCEPT ![j] = "active"]
  /\ UNCHANGED answer

\* The job has run, was abandoned, or could not be run at all.
End(j) ==
  /\ stage[j] \in {"queued", "active"}
  /\ \A i \in Jobs \ {j} : stage[i] # "active"
  /\ stage' = [stage EXCEPT ![j] = "over"]
  /\ UNCHANGED answer

Answer(j, outcome) ==
  /\ answer[j] = "none"
  /\ stage[j] = "over" \/ (stage[j] = "active" /\ outcome = "timeout")
  /\ answer' = [answer EXCEPT ![j] = outcome]
  /\ UNCHANGED stage

Next ==
  \E j \in Jobs :
    \/ Request(j) \/ Begin(j) \/ End(j)
    \/ \E outcome \in {"value", "error", "timeout"} : Answer(j, outcome)

Spec == Init /\ [][Next]_vars
=============================================================================
