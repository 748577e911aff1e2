----------------------------- MODULE ModelMemory -----------------------------
(***************************************************************************)
(* The models of the AI server: the memory manager (memory.py), which      *)
(* gives one slot at a time the memory, and the engines that load and use  *)
(* the models (asr/engine.py, diarization/engine.py) for requests that run *)
(* in threads.                                                             *)
(*                                                                         *)
(* A step is a statement on a shared variable, since Python may switch     *)
(* threads between any two.  What only the holder of the manager's lock    *)
(* uses is part of the steps of the holder.                                *)
(***************************************************************************)

CONSTANTS
  Requests,
  LMStudio,    \* lmstudio_enabled
  KeepLoaded,  \* lmstudio_keep_loaded
  Gpu          \* asr_device is not the CPU

ASSUME SettingsAssumption == LMStudio \in BOOLEAN /\ KeepLoaded \in BOOLEAN /\ Gpu \in BOOLEAN
ASSUME RequestsAssumption == "none" \notin Requests

VARIABLES
  active,    \* _active
  lock,      \* the request that holds _lock, or "none"
  step,      \* what it does next
  handle,    \* _lmstudio_handle is not None
  llm,       \* the model is loaded in LM Studio
  model,     \* _model: "none", "gone" (deleted), "plain" or "aligned"
  aligner,   \* _model_has_aligner
  pipeline,  \* _diarization_pipeline: "none", "gone" or "loaded"
  task,      \* what a request is for
  pc,        \* where it is
  held,      \* the model its thread uses: "none", "asr" or "diarization"
  booted,    \* a request, or the warm-up, has begun
  crowded,   \* history: a request began while another, or the warm-up, was there
  warmed,    \* history: no diarization has got its slot since the warm-up began
  refused,   \* history: a call of LM Studio failed
  late       \* history: a model was stored when its slot was not the active one

manager == <<active, lock, step>>
lmstudio == <<handle, llm>>
globals == <<model, aligner, pipeline>>
requests == <<task, pc, held>>
history == <<crowded, warmed, refused, late>>
memoryVars == <<manager, lmstudio, globals, requests, booted, history>>

None == "none"
AsrModels == {"plain", "aligned"}
Slots == {"idle", "asr", "diarization", "llm"}

Tasks == {"text", "srt", "diarize", "segment", "chat", "warmup"}

\* Where a request may be: outside the engines, in acquire, in _get_model and in
\* _get_diarization_pipeline.
Places ==
  {"idle", "between", "use", "chat", "acquire"}
    \union {"upgrade", "drop", "clear", "test", "load", "flag", "return"}
    \union {"dtest", "dload", "dmove", "dmoved", "dreturn"}

\* The slot that the request acquires.
Want(r) ==
  CASE task[r] = "chat" -> "llm"
    [] task[r] = "diarize" -> "diarization"
    [] OTHER -> "asr"

\* need_aligner
NeedsAligner(r) == task[r] = "srt"

\* chat_completions acquires on the event loop, which does nothing meanwhile.
LoopFree == \A r \in Requests : ~(task[r] = "chat" /\ pc[r] = "acquire")

Goto(r, to) == pc' = [pc EXCEPT ![r] = to]

\* The thread returns, or raises, and drops its model; after a segment of a
\* diarization there may be another one, unless the segment raised.
Returns(r) ==
  /\ Goto(r, IF task[r] \in {"diarize", "segment"} THEN "between" ELSE "idle")
  /\ held' = [held EXCEPT ![r] = None]

Raises(r) ==
  /\ Goto(r, "idle")
  /\ held' = [held EXCEPT ![r] = None]

MemoryInit ==
  /\ active = "idle" /\ lock = None /\ step = "free"
  /\ handle = FALSE /\ llm = FALSE
  /\ model = None /\ aligner = FALSE /\ pipeline = None
  /\ task = [r \in Requests |-> "text"]
  /\ pc = [r \in Requests |-> "idle"]
  /\ held = [r \in Requests |-> None]
  /\ booted = FALSE
  /\ crowded = FALSE /\ warmed = FALSE /\ refused = FALSE /\ late = FALSE

-----------------------------------------------------------------------------
(* Requests *)

InProgress == {r \in Requests : pc[r] # "idle"}

\* A transcription, with time stamps (srt) or not (text), a diarization, a
\* chat.
Begin(r, t) ==
  /\ pc[r] = "idle" /\ LoopFree
  /\ task' = [task EXCEPT ![r] = t]
  /\ Goto(r, IF t \in {"diarize", "chat"} THEN "acquire" ELSE "upgrade")
  /\ booted' = TRUE
  /\ crowded' = (crowded \/ InProgress # {})
  /\ UNCHANGED <<manager, lmstudio, globals, held, warmed, refused, late>>

\* The warm-up at the start of the server loads the diarization pipeline and
\* acquires nothing.
WarmUp(r) ==
  /\ Gpu /\ ~booted /\ pc[r] = "idle"
  /\ booted' = TRUE
  /\ task' = [task EXCEPT ![r] = "warmup"]
  /\ Goto(r, "dtest")
  /\ warmed' = TRUE
  /\ UNCHANGED <<manager, lmstudio, globals, held, crowded, refused, late>>

\* The turns of a diarization are transcribed one by one.
NextSegment(r) ==
  /\ pc[r] = "between" /\ LoopFree
  /\ task' = [task EXCEPT ![r] = "segment"]
  /\ Goto(r, "upgrade")
  /\ UNCHANGED <<manager, lmstudio, globals, held, booted, history>>

LastSegment(r) ==
  /\ pc[r] = "between" /\ LoopFree
  /\ Goto(r, "idle")
  /\ UNCHANGED <<manager, lmstudio, globals, task, held, booted, history>>

\* The model has answered, or raised.
Answered(r) ==
  /\ pc[r] = "use"
  /\ Returns(r) \/ Raises(r)
  /\ UNCHANGED <<manager, lmstudio, globals, task, booted, history>>

ChatEnds(r) ==
  /\ pc[r] = "chat" /\ LoopFree
  /\ Goto(r, "idle")
  /\ UNCHANGED <<manager, lmstudio, globals, task, held, booted, history>>

-----------------------------------------------------------------------------
(* acquire *)

\* Where the request goes on when acquire returns.
Acquired(r) ==
  /\ lock' = None /\ step' = "free"
  /\ warmed' = (warmed /\ Want(r) # "diarization")
  /\ Goto(r, CASE Want(r) = "llm" -> "chat"
               [] Want(r) = "diarization" -> "dtest"
               [] OTHER -> "load")

\* The slot is active already.
AcquireAgain(r) ==
  /\ pc[r] = "acquire" /\ lock = None
  /\ active = Want(r)
  /\ IF Want(r) = "llm"
       THEN lock' = r /\ step' = "llm_load" /\ UNCHANGED <<pc, warmed>>
       ELSE Acquired(r)
  /\ UNCHANGED <<active, lmstudio, globals, task, held, booted, crowded, refused, late>>

\* What _unload does first.
Unload(slot) ==
  CASE slot = "idle" -> "mark"
    [] slot = "asr" -> "asr_test"
    [] slot = "diarization" -> "pipeline_test"
    [] slot = "llm" -> "llm_unload"

AcquireOther(r) ==
  /\ pc[r] = "acquire" /\ lock = None
  /\ active # Want(r)
  /\ lock' = r
  /\ step' = Unload(active)
  /\ UNCHANGED <<active, lmstudio, globals, requests, booted, history>>

\* A deleted variable raises, which ends the unloading.
TestPipeline ==
  /\ step = "pipeline_test"
  /\ step' = IF pipeline = "loaded" THEN "pipeline_del" ELSE "asr_test"
  /\ UNCHANGED <<active, lock, lmstudio, globals, requests, booted, history>>

DeletePipeline ==
  /\ step = "pipeline_del"
  /\ pipeline' = "gone"
  /\ step' = IF pipeline = "gone" THEN "asr_test" ELSE "pipeline_clear"
  /\ UNCHANGED <<active, lock, lmstudio, model, aligner, requests, booted, history>>

\* Mutant: the diarization's transcription model stays.
ClearPipelineOnly ==
  /\ step = "pipeline_clear"
  /\ pipeline' = None
  /\ step' = "mark"
  /\ UNCHANGED <<active, lock, lmstudio, model, aligner, requests, booted, history>>

ClearPipeline ==
  /\ step = "pipeline_clear"
  /\ pipeline' = None
  /\ step' = "asr_test"
  /\ UNCHANGED <<active, lock, lmstudio, model, aligner, requests, booted, history>>

TestModel ==
  /\ step = "asr_test"
  /\ step' = IF model \in AsrModels THEN "asr_del" ELSE "mark"
  /\ UNCHANGED <<active, lock, lmstudio, globals, requests, booted, history>>

DeleteModel ==
  /\ step = "asr_del"
  /\ model' = "gone"
  /\ step' = IF model = "gone" THEN "mark" ELSE "asr_clear"
  /\ UNCHANGED <<active, lock, lmstudio, aligner, pipeline, requests, booted, history>>

ClearModel ==
  /\ step = "asr_clear"
  /\ model' = None
  /\ step' = "asr_flag"
  /\ UNCHANGED <<active, lock, lmstudio, aligner, pipeline, requests, booted, history>>

ClearFlag ==
  /\ step = "asr_flag"
  /\ aligner' = FALSE
  /\ step' = "mark"
  /\ UNCHANGED <<active, lock, lmstudio, model, pipeline, requests, booted, history>>

\* The handle is forgotten even if LM Studio keeps the model.
UnloadLlm ==
  /\ step = "llm_unload"
  /\ handle /\ ~KeepLoaded
  /\ handle' = FALSE
  /\ \/ llm' = FALSE /\ UNCHANGED refused
     \/ refused' = TRUE /\ UNCHANGED llm
  /\ step' = "mark"
  /\ UNCHANGED <<active, lock, globals, requests, booted, crowded, warmed, late>>

LeaveLlm ==
  /\ step = "llm_unload"
  /\ ~handle \/ KeepLoaded
  /\ step' = "mark"
  /\ UNCHANGED <<active, lock, lmstudio, globals, requests, booted, history>>

Activate(r) ==
  /\ step = "mark" /\ lock = r
  /\ active' = Want(r)
  /\ IF Want(r) = "llm"
       THEN step' = "llm_load" /\ UNCHANGED <<lock, pc, warmed>>
       ELSE Acquired(r)
  /\ UNCHANGED <<lmstudio, globals, task, held, booted, crowded, refused, late>>

\* A call that fails may have loaded the model.
LoadLlm(r) ==
  /\ step = "llm_load" /\ lock = r
  /\ IF LMStudio
       THEN \/ handle' = TRUE /\ llm' = TRUE /\ UNCHANGED refused
            \/ refused' = TRUE /\ llm' \in {llm, TRUE} /\ UNCHANGED handle
       ELSE UNCHANGED <<lmstudio, refused>>
  /\ Acquired(r)
  /\ UNCHANGED <<active, globals, task, held, booted, crowded, late>>

\* LM Studio drops a model that is not used (lmstudio_ttl).
LlmExpires ==
  /\ llm /\ llm' = FALSE
  /\ UNCHANGED <<manager, handle, globals, requests, booted, history>>

-----------------------------------------------------------------------------
(* _get_model *)

\* Mutant: a model without an aligner will do.
KeepModel(r) ==
  /\ pc[r] = "upgrade"
  /\ IF model = "gone" THEN Raises(r) ELSE Goto(r, "test") /\ UNCHANGED held
  /\ UNCHANGED <<manager, lmstudio, globals, task, booted, history>>

\* A model without an aligner is dropped for a request that needs one.
UpgradeTest(r) ==
  /\ pc[r] = "upgrade"
  /\ IF model = "gone"
       THEN Raises(r)
       ELSE /\ Goto(r, IF model # None /\ NeedsAligner(r) /\ ~aligner
                         THEN "drop" ELSE "test")
            /\ UNCHANGED held
  /\ UNCHANGED <<manager, lmstudio, globals, task, booted, history>>

Drop(r) ==
  /\ pc[r] = "drop"
  /\ model' = "gone"
  /\ IF model = "gone" THEN Raises(r) ELSE Goto(r, "clear") /\ UNCHANGED held
  /\ UNCHANGED <<manager, lmstudio, aligner, pipeline, task, booted, history>>

Clear(r) ==
  /\ pc[r] = "clear"
  /\ model' = None
  /\ Goto(r, "test")
  /\ UNCHANGED <<manager, lmstudio, aligner, pipeline, task, held, booted, history>>

\* Mutant: the slot is acquired only by the first request.
TestNoAcquire(r) ==
  /\ pc[r] = "test"
  /\ IF model = "gone"
       THEN Raises(r)
       ELSE Goto(r, IF model # None THEN "return" ELSE "load") /\ UNCHANGED held
  /\ UNCHANGED <<manager, lmstudio, globals, task, booted, history>>

\* A model that is there is used; the slot is acquired for a new one only.
Test(r) ==
  /\ pc[r] = "test"
  /\ IF model = "gone"
       THEN Raises(r)
       ELSE Goto(r, IF model # None THEN "return" ELSE "acquire") /\ UNCHANGED held
  /\ UNCHANGED <<manager, lmstudio, globals, task, booted, history>>

\* from_pretrained, which takes long, ends.
Load(r) ==
  /\ pc[r] = "load"
  /\ model' = IF NeedsAligner(r) THEN "aligned" ELSE "plain"
  /\ late' = (late \/ lock # None \/ active \notin {"asr", "diarization"})
  /\ Goto(r, "flag")
  /\ UNCHANGED <<manager, lmstudio, aligner, pipeline, task, held, booted, crowded, warmed,
                 refused>>

LoadFails(r) ==
  /\ pc[r] \in {"load", "dload", "dmoved"}
  /\ Raises(r)
  /\ UNCHANGED <<manager, lmstudio, globals, task, booted, history>>

Flag(r) ==
  /\ pc[r] = "flag"
  /\ aligner' = NeedsAligner(r)
  /\ Goto(r, "return")
  /\ UNCHANGED <<manager, lmstudio, model, pipeline, task, held, booted, history>>

\* Without a model the transcription raises.
Return(r) ==
  /\ pc[r] = "return"
  /\ IF model \in AsrModels
       THEN Goto(r, "use") /\ held' = [held EXCEPT ![r] = "asr"]
       ELSE Raises(r)
  /\ UNCHANGED <<manager, lmstudio, globals, task, booted, history>>

-----------------------------------------------------------------------------
(* _get_diarization_pipeline *)

\* The audio cannot be read.
Unreadable(r) ==
  /\ pc[r] = "dtest" /\ task[r] = "diarize"
  /\ Raises(r)
  /\ UNCHANGED <<manager, lmstudio, globals, task, booted, history>>

TestD(r) ==
  /\ pc[r] = "dtest"
  /\ IF pipeline = "gone"
       THEN Raises(r)
       ELSE Goto(r, IF pipeline # None THEN "dreturn" ELSE "dload") /\ UNCHANGED held
  /\ UNCHANGED <<manager, lmstudio, globals, task, booted, history>>

StorePipeline ==
  /\ pipeline' = "loaded"
  /\ late' = (late \/ lock # None \/ active # "diarization")
  /\ UNCHANGED <<manager, lmstudio, model, aligner, task, booted, crowded, warmed, refused>>

LoadD(r) ==
  /\ pc[r] = "dload"
  /\ StorePipeline
  /\ Goto(r, IF Gpu THEN "dmove" ELSE "dreturn")
  /\ UNCHANGED held

\* The pipeline is read, moved to the GPU and stored again.
MoveD(r) ==
  /\ pc[r] = "dmove"
  /\ IF pipeline = "loaded"
       THEN Goto(r, "dmoved") /\ held' = [held EXCEPT ![r] = "diarization"]
       ELSE Raises(r)
  /\ UNCHANGED <<manager, lmstudio, globals, task, booted, history>>

MovedD(r) ==
  /\ pc[r] = "dmoved"
  /\ StorePipeline
  /\ Goto(r, "dreturn")
  /\ held' = [held EXCEPT ![r] = None]

ReturnD(r) ==
  /\ pc[r] = "dreturn"
  /\ IF pipeline = "loaded"
       THEN Goto(r, "use") /\ held' = [held EXCEPT ![r] = "diarization"]
       ELSE Raises(r)
  /\ UNCHANGED <<manager, lmstudio, globals, task, booted, history>>

-----------------------------------------------------------------------------

RequestStep(r) ==
  \/ \E t \in {"text", "srt", "diarize", "chat"} : Begin(r, t)
  \/ WarmUp(r) \/ NextSegment(r) \/ LastSegment(r) \/ Answered(r) \/ ChatEnds(r)

AcquireStep(r) == AcquireAgain(r) \/ AcquireOther(r) \/ Activate(r) \/ LoadLlm(r)

UnloadStep ==
  \/ TestPipeline \/ DeletePipeline \/ ClearPipeline
  \/ TestModel \/ DeleteModel \/ ClearModel \/ ClearFlag
  \/ UnloadLlm \/ LeaveLlm

ModelStep(r) ==
  \/ UpgradeTest(r) \/ Drop(r) \/ Clear(r) \/ Test(r)
  \/ Load(r) \/ LoadFails(r) \/ Flag(r) \/ Return(r)

PipelineStep(r) == Unreadable(r) \/ TestD(r) \/ LoadD(r) \/ MoveD(r) \/ MovedD(r) \/ ReturnD(r)

MemoryNext ==
  \/ \E r \in Requests : RequestStep(r) \/ AcquireStep(r) \/ ModelStep(r) \/ PipelineStep(r)
  \/ UnloadStep
  \/ LlmExpires

MemorySpec == MemoryInit /\ [][MemoryNext]_memoryVars

-----------------------------------------------------------------------------
(* Properties *)

\* Every variable has its type; the lock is held exactly when the manager is
\* at work, and by a request that acquires.
MemoryTypeOK ==
  /\ lock = None <=> step = "free"
  /\ lock # None => pc[lock] = "acquire"
  /\ active \in Slots
  /\ lock \in Requests \union {None}
  /\ step \in {"free", "pipeline_test", "pipeline_del", "pipeline_clear", "asr_test",
              "asr_del", "asr_clear", "asr_flag", "llm_unload", "mark", "llm_load"}
  /\ handle \in BOOLEAN /\ llm \in BOOLEAN
  /\ model \in AsrModels \union {None, "gone"}
  /\ aligner \in BOOLEAN
  /\ pipeline \in {None, "gone", "loaded"}
  /\ task \in [Requests -> Tasks]
  /\ pc \in [Requests -> Places]
  /\ held \in [Requests -> {None, "asr", "diarization"}]
  /\ booted \in BOOLEAN
  /\ crowded \in BOOLEAN /\ warmed \in BOOLEAN /\ refused \in BOOLEAN /\ late \in BOOLEAN

\* The kinds of models in memory, the ones being loaded included.
Resident ==
  {k \in {"asr", "diarization", "llm"} :
     CASE k = "asr" -> \/ model \in AsrModels
                       \/ \E r \in Requests : pc[r] = "load" \/ held[r] = "asr"
       [] k = "diarization" -> \/ pipeline = "loaded"
                               \/ \E r \in Requests : pc[r] = "dload" \/ held[r] = "diarization"
       [] k = "llm" -> llm}

\* As long as requests come one at a time, of any kinds and in any order, and
\* LM Studio does what it is told, one model is in memory at a time, also while
\* one is loaded and whatever fails (memory.py:3-5).  The exception: the pipeline
\* that the warm-up loads (app.py:28-34) is nobody's slot, and stays beside the
\* models of other slots until a diarization first acquires its own.
AloneOneModel ==
  ~crowded /\ ~refused /\ ~KeepLoaded =>
    \A k, m \in Resident \ (IF warmed THEN {"diarization"} ELSE {}) : k = m

\* A request that comes alone gets the model it needs, whichever was loaded
\* before and for whom (engine.py:44-74, diarization/engine.py:45-63).
AloneServed ==
  ~crowded =>
    \A r \in Requests :
      /\ pc[r] = "return" => model = "aligned" \/ (model = "plain" /\ ~NeedsAligner(r))
      /\ pc[r] = "dreturn" => pipeline = "loaded"
      /\ pc[r] = "test" /\ NeedsAligner(r) => model # "plain"

\* A model that was stored while its slot was active is unloaded with the slot,
\* however requests overlap (memory.py:55-57, 96-112).
UnloadedWithSlot ==
  ~late /\ lock = None =>
    /\ model \in AsrModels => active \in {"asr", "diarization"}
    /\ pipeline = "loaded" => active = "diarization"

\* The manager forgets no LLM that it has loaded: while it has a handle, the
\* slot is the LLM's, so that the next switch will unload it
\* (memory.py:114-157).
HandleHeld ==
  handle /\ lock = None /\ ~KeepLoaded => active = "llm"

=============================================================================
