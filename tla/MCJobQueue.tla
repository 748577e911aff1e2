----------------------------- MODULE MCJobQueue -----------------------------
(* Three jobs of two types; one of the types may have no handler.           *)
EXTENDS JobQueue

CONSTANTS asr, llm

MCTypes == {asr, llm}
MCHandled == {asr}
MCTtl == [t \in MCTypes |-> IF t = asr THEN 1 ELSE 0]
=============================================================================
