# AluNotes bridge: TLA+ models and proofs

AluNotes turns a small computer into a Bluetooth bridge: a phone plays to it, it
plays on to the headphones, and what it hears is recorded, transcribed and
edited as notes. This directory holds TLA+ models of the parts of the system
whose correctness depends on the order in which things happen, TLC
configurations that check them on small instances, and TLAPS proofs of theorems
about them for every value of the constants.

Paths below are relative to the repository (`src/` in `PROJECT.json`).

## 1. The system

| part | code | state | operations |
|---|---|---|---|
| session manager | `internal/session/session.go` | `current`, `autoRecord`; per session `lastAudio`, `closed` | `Touch`, `Stop`, `SetAutoRecord`, `RunIdleWatcher`, `endCurrentSession` |
| A2DP capture | `internal/audio/pwcapture.go` | one `pw-cat` process per pipeline, a 5 s ticker | `Run` |
| bridge pipeline | `cmd/bridge/main.go` | `pipelineDone`, `pipelineCancel`, `currentSourceMAC`, `headphoneMAC`, `hfpCancel`, `currentHFPMAC` | `onTransportAcquire`, `onTransportRelease`, `stopPipeline`, `stopHFP`, shutdown |
| Bluetooth adapter | `internal/bt/adapter.go` | `sinkDevice`, `sourceDevice`, roles of the adapters | `WatchTransports`, `handleSignal`, discovery, pairing |
| call router | `internal/pw/hfp.go` | `inCall`, `callCancel`, the profile of the headphone's card, the mixer module | `Run`, `checkCallState`, `startCall`, `endCall`, `recordCall` |
| media sync, call control | `internal/bt/mediasync.go`, `internal/bt/hfp.go` | volumes of two transports, the object exported on the session bus | volume signals, MPRIS methods |
| control API | `internal/api/server.go` | none of its own | handlers calling the adapter and the session manager |
| AI job queue | `alunotes-ai/alunotes_ai/queue.py` | an SQLite table, two tasks, events and results of callers | `submit`, `wait_for_result`, `heartbeat`, worker, monitor, `stop` |
| AI model memory | `memory.py`, `asr/engine.py`, `diarization/engine.py`, `inference/router.py` | the active slot, the loaded models | `acquire`, `release`, loading, inference |
| web recordings | `server/api/routers/recordings.ts`, `app/(main)/audio` | directories on disk, rows in the database, two cached lists | list, star, scan, label, trash, restore, delete with or without the trash, empty trash, open |
| web page saving | `notes/[id]`, `notes/audio/[id]`, `whiteboard/[id]`, the two stores | a store, refs to the latest body, a debouncer with retries, the query cache | edit, save, flush, refetch, generate |
| web tasks and folders | `app/(main)/tasks`, `folders`, their routers | two tables, two cached lists, a title being edited, an expanded editor, a dialog | create, change a field, describe, delete |
| web note editor | `components/tiptap-ui`, `tiptap-node`, `lib/tiptap-utils.ts` | the document, selection and history; popups, an address being typed, uploads | toolbar, slash commands, links, uploads |
| web devices | `server/api/routers/bluetooth.ts`, onboarding, device dialog, overlay, top bar | a table of devices, the status polled, timers of a scan | scan, connect, save, remove, stop, switch |
| supervisor | `deploy/alunotes-supervisor.sh` | health counters, the bridge's unit | probe, tear down, restart |
| log rotation | `internal/logging/file.go` | the log and its backups | `Write`, `rotate` |
| others | configuration, device identity, PipeWire helpers, ASR post-processing, the unused PCM pipeline, installation scripts, the web's routers and components | | see `PROJECT.json` |

How they interact:

- BlueZ sends D-Bus signals about transports. The **adapter**'s watcher goroutine
  takes them one at a time and calls `onTransportAcquire` and
  `onTransportRelease` of **main**, which start and stop a pipeline: a context,
  a done channel, a capture goroutine, a media sync, and (once per phone) a call
  router with its call control.
- The capture and the call recording call `Touch` of the **session manager**,
  which decides the directory; an idle watcher, the API's stop handler and the
  end of main call `endCurrentSession`.
- The **AI server** runs the job queue's two coroutines on its event loop. Its
  request handlers run models in threads, which share the model memory.
- The **web** server lists the directories the bridge writes, keeps its own
  tables about them and talks to the bridge's control API. Its pages keep what
  they were last told in a query cache, send changes as requests of their own,
  and invalidate the cache when one has succeeded. The **supervisor**
  stops and starts the bridge with the health of the web server.

What is hard, by part, and what correct means:

- *session manager*: `endCurrentSession` is several critical sections with
  unlocked reads between them, run by three kinds of goroutines. A session that
  is recorded must not be ended as idle; an idle one must end; a closed one must
  be reported and forgotten; none may be lost open, except where the code's own
  race loses it.
- *bridge pipeline*: acquire, release and shutdown are sequences of critical
  sections with goroutines started in between. No recorder may escape its
  cancel function; the debounce must judge the right phone; two call routers
  must not fight over the headphone; nothing outlives its transport.
- *job queue*: wake-up events, expiry beside a running handler, callers that
  give up and come back. No job is forgotten, no job is settled twice, every
  waiter is told, jobs run alone.
- *call router*: rate-limited polling driven by events, cancellation at any
  point, two audio cards. The headphone must end up in the profile that fits.
- *media sync*: two volumes copied to each other, two exports of one object.
- *model memory*: a lock that covers unloading but not loading. One large model
  in memory at a time, and the right one for each request.
- *log rotation*: a chain of renames that may fail or stop anywhere. No backup
  may be lost too early or end up out of order.
- *web recordings*: files and rows changed by requests that interleave at every
  await. What is erased was trashed, or deleted by name over the API; the lists
  come to tell the truth.
- *web page saving*: a debouncer, retries that overtake one another, a cache that
  is older than the page. The last edit must reach the server, and it must be
  known in which cases it does not.
- *web tasks*: two lists invalidated apart, changes of one row in flight together.
- *web note editor*: a document that uploads, submenus and popovers come back to
  later than they looked at it. No text may be lost by the way.
- *web devices*: timers with several ways to end, requests answered in any order,
  a daemon that restarts.

`PROJECT.json` lists each hazard at its line, with the properties that are about
it or why there is none.

## 2. Modules

| module | what it is |
|---|---|
| `SessionManager` | the session manager with the recorders, the idle watcher, the stop handlers and the end of main |
| `BridgePipeline` | main's pipelines and call routers, the transport watcher, BlueZ and the devices |
| `BridgePipelineProofs` | its proofs |
| `CallRouting` | the call router: `pactl`, the two cards, calls, their recordings and mixers |
| `LogRotation` | the daemon's log file, its rotation, failures of system calls and restarts |
| `DaemonProofs` | the proofs about `SessionManager`, `CallRouting` and `LogRotation`, which share no state |
| `ModelMemory` | the AI server's memory manager and the engines that load and use models |
| `JobService` | what the job queue promises its callers (abstract) |
| `JobQueue` | the job queue; `ImplementsService` is the refinement of `JobService` |
| `MCJobQueue` | the instance that TLC checks |
| `ServerProofs` | the proofs about `JobQueue`, with the refinement, and about `ModelMemory` |
| `Recordings`, `MCRecordings` | the recordings of the web: directories, rows, requests, lists |
| `RecordingsProofs` | its proofs |
| `Autosave` | the four pages that save by themselves, and the generation of a recording's text |
| `AutosaveProofs` | its proofs |
| `Tasks` | tasks and folders: tables, cached lists, pages |
| `TasksProofs` | its proofs |
| `Blocks` | the note editor's document and what its commands make of one: no state |
| `Editor`, `MCEditor` | the note editor at work |
| `EditorProofs` | the proofs about both |
| `Devices`, `MCDevices` | Bluetooth devices and the recording switch in the web, with the daemon behind them |
| `DevicesProofs` | its proofs |

A step of a model is what the code does between two points where another actor
may run: a critical section in Go, the code from one `await` to the next in
Python and TypeScript, one transaction in the editor. Names are the source's. `PROJECT.json` maps every definition to its
lines. A definition whose comment says *mutant* is no part of a specification:
it is a broken variant of the definition after it, kept to show that a property
notices the breakage.

### SessionManager

Sessions are numbers in the order they start; a directory is its session's
number. Time is a counter, `now`, that `Elapse` advances; `due` is when a
recorder's keep-alive ticker fires next, and time does not pass a due tick by
more than `Slack`.

- `TouchKeeps`, `TouchStarts`, `TouchFails`, `TouchNil` are the four outcomes of
  `Touch`. The recorder actions (`FirstTouch`, `TickTouch`, ...) call it as the
  code does: `TickTouch` ignores the result, so a new session may start while
  the file stays in the old directory (`into`). `FirstTouchNil` is the nil
  session dereferenced by the call recorder: the process crashes.
- `endCurrentSession` is `EndBegin` (take `current`, and read `closed` without
  the session's lock), `EndClose`, `EndReport` (the callback, outside the locks)
  and `EndForget`, each by an *ender*: the idle watcher or a stop handler. The
  watcher first reads `current` (`WatchTick`) and then its age (`WatchAge`).
- `Shutdown` closes done; `WatchDone` is the watcher's last
  `endCurrentSession`; `Exit` may come first, since main waits for nobody.

### BridgePipeline

Pipelines are numbers in the order they start; a router has the number of the
pipeline it came with. `inbox` is the channel of D-Bus signals. The watcher's
`handleSignal` with `onTransportAcquire` is `TakeSinkAcquire`, `Debounce`,
`StopOld`, `StartNew`, `StartRouter` or `KeepRouter`, `LaunchCapture`; with
`onTransportRelease` it is `TakeRelease`, `ForgetSource`, `StopReleased`. main is
`Interrupt`, `StopHFP`, `StopLast`, `Exit`. One step is one critical section of
`pipelineMu`; the recorders (`Record`, `NoNode`, `PwCatExits`) run beside them.
`Connect`, `Play`, `Pause`, `Disconnect` are BlueZ's, the only external actions.

`currentSourceMAC` and `headphoneMAC` are used by the watcher only; that is why
`hpMAC` may be read in a later step than the one that evaluates it in the code.
`sourceDevice` is not in the model: nothing that is modelled reads it.

### CallRouting

`run` is where the router's goroutine is: `Run` waits two seconds (`warmup`),
reads lines (`scan`), and for a line that is not dropped by the 300 ms limit
(`recent`) goes through `checkCallState`: `Look` or `LookFails`, then `NoChange`,
`StartCall`, `SwitchToHFP` (or not), `LaunchRecording`, or `StopCall`, `Restore`
(or not). `EndCall` is endCall's critical section. `LeaveInCall`, `Leave` and
`EndOfLines` are the three ways out of the loop; only the first ends a call and
restores the headphone, and it takes a line read after the context is done.
`EndOfLines` is Run returning when `pactl subscribe` has ended: in a call, the
call goes on without it (`deserted`). `recorder[g]` is where each `recordCall` is;
`mixers` are the null sinks, each by its recording. A recording's context is
cancelled by endCall (`ended`) or with the router's (`cancelled`). Loading a mixer is
two steps: PipeWire makes the null sink (`LoadMixer`) and its id is read from the
output of `pactl` (`ReadModule`). `pactl` runs with the recording's context and may be
killed between them (`LoadKilled`); nobody knows the sink then (`leaked`), and the
recording goes on to give up, since that context is done.

External, and assumed: `pactl` prints a line for every change of a card, node or
module; setting an A2DP profile fails only when the context is done or the card
is away, and unloading a module does not fail; a headphone comes back in A2DP;
only the router puts it into the call profile. A failing `pactl list`, a failing
switch to the call profile, and a `pactl` that ends by itself are steps that may
happen at any time.

### LogRotation

A log is a number, in the order of creation; `base` is the log that bridge.log
holds and `backup[k]` the one in bridge.log.k. Write holds a mutex, so that
there is one writer; its steps are the system calls: `WriteFitting` or
`WriteRotating`, then `Remove`, `Shift` for every slot, `Move`, `Open`, and
`Append`, of which each but the first two may fail, `Append` by writing less than
the record. `Crash` may come between any two; `Restart` is `NewFileWriter`.
`jammed`, `stuck` and `marred` remember which renames or opens failed: they
occur in properties only.

External, and assumed: a system call happens as a whole or not at all, except
that a file may be created and then not measured; a process that is killed
loses nothing it has written; records are no longer than the limit.

### ModelMemory

A request is a transcription (`text`, or `srt` with time stamps), a diarization,
whose turns are transcribed one after the other (`segment`), or a chat; the
warm-up of the server counts as one. Its thread runs statement by statement:
`UpgradeTest` to `Return` are `_get_model`, `TestD` to `ReturnD` are
`_get_diarization_pipeline`. A module variable that was deleted and not yet set
again is `gone`, and reading it raises. acquire holds the manager's lock from
`AcquireAgain` or `AcquireOther` to `Acquired`; `step` is what its holder does next.
Only the engines' variables are used without the lock, and so only their
deletion and resetting are steps of their own. A chat calls acquire on the event
loop: no request begins or ends meanwhile (`LoopFree`), while threads go on.

`held` is the thread's own reference, which keeps a model in memory when the
module's variable has been cleared. `crowded`, `refused`, `late` and `warmed` are
history. The warm-up loads the diarization pipeline without `acquire`, so that it is
in memory and no slot knows it (`warmed`), until a diarization acquires its slot.
Requests that come one at a time are not `crowded`, the warm-up being one of them.
External, and assumed: loading may fail; LM Studio may refuse, load a model in
spite of an error, or drop it by itself; a model key is configured; the
upstream of the chats loads nothing by itself.

### JobQueue and JobService

Ids follow `created_at`. The worker waits, pops, or awaits a handler; nobody else
runs while it pops (`Suspended`), because `mem.acquire` and the store are
synchronous. `mem.acquire` logs its errors and raises none, and neither does the
store: the worker's outer `except` is left out. `expires_at` is read for running
rows only and kept, as the time `left`, for the job of the handler. `Monitor(old)`
is one round of the monitor: it expires, signals and deletes some of the settled
rows (those an hour old, in the code). `Stop` cancels both tasks; a handler dies
with the worker and its row stays as it was.

`JobService` has a stage and an answer for each job: one job is active at a time
and each at most once; an answer is given once, after the job ran, or earlier
when it is the timeout. The mapping calls a job *active* while the worker's
handler has it, even after the monitor has expired or deleted its row.

### What the web's modules share

One browser. A query is a record with what is shown (`data`), whether it is stale
and how far a fetch has come; an invalidated query is fetched again at once if
something on the page observes it, and at the next mount otherwise. A fetch under
way is cancelled for that only if the query has data already: a first fetch goes
on, and its answer counts as fresh even if the server had read before the change
(`overtaken` in `Recordings`, `late` in `Tasks`, until the next fetch; in `Devices`
and `Autosave`, where no property is about it, without a name). That, and the stale time of 30 s (`elapsed`: it may or may
not have passed), is how `orpc/query-client.ts` sets up TanStack Query, which is
external. Mutations are not retried by it. Requests are served and answered in
any order.

### Recordings

A request is a record that goes through its handler step by step: `pc` is the
next statement, `seen` what was read. `deletePermanent` is `RemoveDir` and
`RemoveRow`, `emptyTrash` is `FindTrashed`, `RemoveFound`, `DeleteTrashed`, `scan`
is `ScanDirs`, `ScanFind`, `ScanStore`, and `getOrCreateForRecording` of the notes
is `FindNote` to `CreateNote`; `label`, `favorite`, `trash` and `restore` are one
statement. `delete` does what `deletePermanent` does, without asking for the trash.
No page calls `delete`, `favorite` and `scan`: they are requests of another client of
the API (`ApiOps`), whose answers no list hears of. `Done` is the end of a handler.
`Evict` is the cache dropping the list when no page has shown it for five minutes.
`ListScan` and `ListRows` are the two halves of the list's answer. The daemon's
part (`MakeSession`, `WavAppears`) is the directory and then its file. External:
Prisma's statements are atomic and the disk does not fail.

### Autosave

`kind` chooses the page. `Sync` is the effect on the query's data: the store is
filled once, while the whiteboard's refs are set every time. An edit goes to the
store, to `latest` and to `pending`, the debouncer's last arguments; `SaveStarts`
is its timer or a flush, `Leave` the page's end with the flush on unmount. A board
embedded in a note is a frame of its own, which may be removed before its page has
unmounted: then `Leave` saves nothing (reason *removed*). A save
is sent, written (`Update`), lost at either side (`Lose`), tried again (`Retry`)
or given up. `Draw` is `handleChange` of a board, which saves nothing while a text
is being edited (`writing`); `AskLeave` and `Stay` are its dialog. `Generate` to
`Finished` are `handleGenerateAlunote` and `onFinish`, which keep the editor they
began with: an empty note has an editor made without content, which is made
again once there is some (`ed`). `reason` records the first way in which a body
may have been lost, and nothing is typed after that: the properties say that
there are no others. TanStack Pacer's debouncer and retryer are external.

### Tasks

`ClickStatus`, `PickFolder`, `CommitTitle` and `Describe` send one field; `Write`
is the statement of the router; `Refreshed` says which lists are invalidated when
it has succeeded. Deleting a folder clears the field of its tasks (`onDelete:
SetNull` of the schema). `edit` is the title's input with its draft, `ed` the
expanded row with its editor, both reset or made again by a list that arrives
(`ListArrives`). `chosen` is history: what the user last chose.

### Blocks and Editor

A document is a sequence of lines, which are texts or atoms. Tiptap's and
ProseMirror's commands (`clearNodes`, `setNode`, `wrapIn`, `toggleList`,
`extendMarkRange`, `insertContent`, `deleteRange`) are external and modelled from
what the chains in `components/tiptap-ui` do with them; `TurnedHeading`,
`TurnedList`, `TurnedQuote` and `TurnedCode` are those chains. `Editor` has one
action for each button, command and answer. Every one of them ends in the
listeners (`Suggest` for the slash popup, `Listened` for the link popover), which
is where what lives outside the document learns that it has changed. An upload
(`PickFiles`, `UploadFile`, `HandleUpload`) looks for its block when its last file
settles.

`Documents` says which sequences of lines are documents: there is one line at
least; a list or quote goes on (`more`) only after a line of its kind; code has
no marks and an atom no words; no two upload blocks share a view. `Spots(d)` are
the selections in `d`: a cursor in a text, or whole lines: one, several of one
block, several blocks of one text each, or quotes.
A position counts the words and ends of lines before it (`Start`, `LineAt`, `At`).

### Devices

`Show` is what a new page or a new status does: components are mounted and
unmounted, and the onboarding asks for discoverability. `OpenDialog` to
`PollAnswers` are the dialog with its interval and its timeout, which are told
apart (`Timers`) so that one that was forgotten would be seen. A request is `of`
its component's latest call, an older one, or of a component that is gone, since
callbacks given to `useMutation` of an unmounted component run all the same, on
state that nobody reads. The procedures of two steps (`connect`, `saveDevice`,
`removeDevice`) have a state between them. `BridgeStops` and `BridgeStarts` lose
all the daemon has in memory. External: the daemon answers as in `server.go`, one
device at a time being the headphone.

## 3. Runs

Each run ends within three minutes with two TLC workers.

| run | cfg | shows |
|---|---|---|
| `session_lifecycle` | `MCSession.cfg` | a live session is closed, reported, kept or lost only as the five properties say |
| `job_queue` | `MCJobQueue.cfg` | the queue's five properties, and that it implements `JobService` |
| `pipeline` | `MCPipeline.cfg` | the pipelines' six properties |
| `call_routing` | `MCCall.cfg` | the call router's five properties, with a killed load and a `pactl` that ends |
| `log_rotation` | `MCLog.cfg` | the newest logs are kept, over restarts, until a rotation fails or is cut short |
| `model_memory` | `MCMemory.cfg` | the model memory's three properties |
| `recordings` | `MCRecordings.cfg` | what is erased was trashed or deleted by name, what leaves the trash, what the list comes to show |
| `autosave` | `MCAutosave.cfg` | in which cases an edit can be lost, what the editor shows, that edits reach the server |
| `board_rename` | `MCAutosaveBoard.cfg` | *violation*: renaming a whiteboard saves an older drawing |
| `tasks` | `MCTasks.cfg` | the folder a row shows, and that the last choice for a field is kept |
| `editor` | `MCEditor.cfg` | no text is lost, no upload is stuck, no address goes astray |
| `devices` | `MCDevices.cfg` | one scanner, no spinner without a request, the switch is what the user asked |

The type invariants, and five properties that are proved for every value of the
constants (`SettledIsSignalled`, `NewestFirst`, `WithinLimit`, `OldestGoesFirst`,
`HandleHeld`), are not checked by a run any more.

`LinkForSelection` is about steps: an address that is still in the popover after
a step is for the same selection of the same words. Undo and redo are excepted.
They may put other words of the same lengths in place, of which the popover is
not told, so that the address typed for one text is set on another; the notes of
the run are too short for that, and the proof is what found it.

Bounds, and why they are enough:

- `session_lifecycle`: two recorders, the watcher and one stop handler: every
  race of `endCurrentSession` needs two enders and one Touch. `MaxSessions = 2`
  is the session that is ended and the one that starts meanwhile.
  `IdleTimeout = 2`, `TickPeriod = 1`, `Slack = 0` is the smallest timing with
  `TickPeriod + Slack < IdleTimeout`; `MaxTime = 2` lets a session become idle.
- `job_queue`: three jobs of two types make overtaking and batching possible;
  the second type has no handler; times to live of 1 and 0 let a job end before
  and after its expiry. `MaxJobs` ends every stream of jobs, and with it the one
  case in which the code lets a job wait for ever: newer jobs of the loaded type
  go first without a limit. `Served` says so itself (`Overtaken`), and what the run
  shows of it is that nothing else keeps a job from being settled.
- `pipeline`: two phones and one headphone, two adapters, a detected headphone,
  two pipelines: a first and its replacement. One signal in the inbox while one
  is being handled gives every order of arrival and handling of two signals.
- `call_routing`: two recordings at a time, the one of the call and one that is
  still closing; a recording that is over is used again, so the number of calls
  has no bound, except that one whose mixer has leaked is not: after two leaks
  no call begins. Two unread lines: one to be dropped or checked and one after it.
  Lines that would be the third are lost in the model, after which two are still
  to be read.
- `log_rotation`: three backups, so that one is first, one last and one neither;
  six logs fill all slots and then push two logs out. A limit of two and records
  of one and two make records that fit, that fill the file and that do not fit.
  `MaxLength` is the length at which a log that cannot be moved away stops
  growing.
- `model_memory`: two requests, each of any kind, as often as they like: one that
  loads or uses a model and one that takes the slot away. LM Studio is enabled
  and unloads, and there is a GPU, which is the setting with the most steps.
- `recordings`: two sessions and two requests in flight, three in all: every
  property takes one request between two steps of another, and a third to have
  put something into the trash. The list's page holds one, so that the newer
  session takes the older one's place in it. Requests are
  interchangeable (`SYMMETRY`).
- `autosave`: two saves in flight, so that one overtakes another; two attempts
  instead of three, so that one is made again and one is the last; two edits
  beside what was stored; opened twice, to come back before a save is answered.
  `board_rename` needs one page opened once.
- `tasks`: two tasks, two folders, two requests, three changes: a change of each
  of two fields, or of two rows, and a folder deleted between.
- `editor`: three notes chosen to have lists, quotes, links and upload blocks; four
  actions of the user, between which uploads settle at any time. Two uploads of
  up to two files. Three words; one level of headings and two kinds of lists, the
  task list among them, which is an item of another type.
- `devices`: two devices, two requests, two changes. The dialog shares nothing with
  the rest but the page and the request that saves, so that the constraint
  `DialogAlone` leaves out states in which it is used while something else is in
  flight: they have the dialog's steps and the others' side by side.
- `MaxSessions`, `MaxTime`, `MaxJobs`, `MaxPipelines`, `MaxInbox`, `MaxLines`, `MaxLogs`,
  `MaxLength`, `MaxCalls`, `MaxSaves`, `MaxBody`, `MaxTouch`, `MaxOpen`, `MaxReqs`,
  `MaxActs`, `Depth`, `Sets`, the size of `Recordings` in `CallRouting` and the constraint `DialogAlone` are the only bounds; each is a conjunct of the guard of the
  action that would pass it, except `MaxLines` (as said).

`CHECK_DEADLOCK FALSE` is set everywhere but in `MCDevices.cfg`, whose pages poll
for ever: elsewhere the process exits, callers may stop calling, and bounded
counters run out.

Fairness is what the schedulers give. `SessionManager`: the idle watcher's ticker
and an ender inside `endCurrentSession` go on; no audio, request or shutdown is
forced. `JobQueue`: the event loop resumes ready coroutines and handlers return;
no caller is forced to submit, wait or give up. `BridgePipeline`: the watcher
goes on with what it handles, a recorder notices that its context is cancelled,
main finishes its shutdown; no device is forced to do anything. `CallRouting`:
the router's goroutine goes on, time passes, a context that is done kills `pactl`,
and a recording gives up, falls back, stops when told to and unloads its mixer; no
call, no change of a card and no failure is forced. `Autosave`: the debouncer's
timer fires and a request is answered, retried or given up; no edit, no visit and
no answer of a query is forced. The other modules of the web have no fairness:
their properties are about what is true when nothing is in flight. All of it is weak: none of these steps can be disabled and enabled again for ever by others.

### What the violation says

`SavesFreshest`: the whiteboard page keeps the latest drawing in refs "so saves
always use freshest data" (`whiteboard/[id]/page.tsx:31`). The effect on the
query's data sets these refs on every refetch (lines 37-43), also when the canvas
has been drawn on since. The next change of the name saves the ref's older
drawing and makes the debouncer forget the newer one.

### Other divergences met while modelling

None of these is a run; each is a step of a model, and the property named beside
it says what does hold.

- `session.go:67` promises that `Stop` flushes the recording. It ends the session
  and reports it; `pw-cat` keeps writing into the directory and the next tick
  starts a second session. (`OpenLostOnlyToLateEnder`)
- The keep-alive ticker is fixed at 5 s, and `config.yaml.example` sets
  `idle_timeout: 5s`: a session can look idle while it is recorded. The theorem
  `KeptAliveHolds` gives the condition that fails.
- A release has no argument: the headphone's transport going idle stops the
  phone's pipeline, and no signal of the phone's transport restarts it, although
  `README.md:3` says that all audio is recorded. (`NothingOutlivesTransport`)
- The 300 ms limit of the call router drops lines for good, so that the last line
  of a call's end can be one of them. Any line that is still to be read 300 ms
  after the last check is enough. (`EndSeenLater`)
- A context that is done makes `isCardInHFP` answer *no*, and the endCall this
  leads to runs `pactl` with that context: it restores nothing. (`HeadphoneHasCall`)
- `hfp.go:63` says of Run that it "blocks until ctx is cancelled". It returns as well
  when `pactl subscribe` ends by itself (line 122), and then does not end the call:
  the headphone stays in the call profile and the recording goes on.
  (`HeadphoneHasCall` names the exception)
- A call that ends while `pactl load-module` is at work kills it (`hfp.go:238`,
  353-362). If PipeWire has made the null sink by then, nobody reads its id and
  it stays loaded. (`MixerHasRecording` and `EndedRecordingCleared` name the exception)
- `pop_next` prefers jobs of the loaded type without a limit, and a pending job does
  not expire: a steady stream of one type starves the other. (`Served` excepts it,
  `OvertakeOnlyToBatch` says that nothing else overtakes)
- "Only one large model can be in RAM at a time" (`memory.py:3-5`). With a GPU the server loads the diarization pipeline when it
  starts, without acquiring (`app.py:28-34`); the transcription that comes first loads
  its own model beside it, and both stay until a diarization takes the slot.
  (`AloneOneModel` excepts this pipeline)
- `recordings.delete` erases the files and the row of a recording whether or not it
  is in the trash, and no page calls it. (`ErasedWasTrashed` excepts it)
- A page that is opened fetches its list for the first time, and an invalidation
  does not restart a first fetch: a recording restored, or a task created by the
  input that is there while the list loads (`tasks/page.tsx:777`), may be missing
  from it until it is fetched again. (`ListSettles` and `FolderShown` except it)
- The frame of a board embedded in a note is taken out of the document with the
  note, and nothing makes its page flush what it has not saved. (`SavedWhenQuiet`,
  reason *removed*)
- acquire protects unloading, and a model is stored after acquire has returned: a
  chat may begin beside a model that was stored late. A model stored in time goes
  with its slot. (`UnloadedWithSlot`; `AloneOneModel` and `AloneServed` say that
  requests one at a time have neither this nor any other trouble)
- A generated text that arrives when the page has been left is put into an editor
  that is gone, and the page's store is saved over whatever page is open; when
  the note was empty, its editor has been made again by the transcript, and the
  notes are put into the old one. (`SavedWhenQuiet`, reasons *away* and *dead*)
- A generation whose stream is empty leaves the page busy for good
  (`notes/audio/[id]/page.tsx:171`). (`GenerateFails`)
- A submenu of the slash command keeps the range of its slash; the board or frame
  chosen later deletes what is there by then, also one character of the user's.
  An address set with the cursor in a link replaces the link's text. (`KeepsWords`
  names both)

## 4. Proofs

Every theorem is for any sets of goroutines, devices, jobs, tasks or words, any bounds and any
timings; the assumptions are those named in the modules (constants are numbers,
sets are disjoint, the kinds of lines are told apart by `KindsAssumption`, a note
that is opened is a document that begins with a text by `NotesAssumption`) and, for
`KeptAliveHolds`, `TickPeriod + Slack < IdleTimeout`.

`DaemonProofs`, the session manager. `TypeCorrect` proves `TypeOK` together with `Held`: an
ender between taking a session and clearing the field has one, closed from
`EndClose` on. `EnderPending` (`ClosedCurrentHasEnder`) adds `Issued`: numbers
are not reused, so the session a Touch starts is not one that somebody closed.
`OpenLost` is an action property that follows from `TypeOK /\ Held`: of all steps only
`EndForget` changes a live `current`, and if the ender held `current` it would be
closed. `KeptAliveHolds` is inductive with `Ticking`: a ticker is at most `Slack`
late, and the live session was touched no earlier than one period before the
tick that is due.

`BridgePipelineProofs`. The inductive invariant `IInv` is `TypeOK`, `Numbered`
(the watcher starts a pipeline only when there is none, and the newest pipeline
is of the device being handled), `OthersStopped` (every pipeline started before
the current one is cancelled), `DebounceIsSound` and `OneRouter`. It gives
`TypeCorrect`, `NoneStray`, `DebounceSound`, `RouterUnique` and the action
property `RouterSurvivesHolds`. `NothingOutlives` needs the order of the signals:
`Ordered` says that an *added* or *started* signal of a device without a
transport is followed, in the inbox, by its *removed* signal, and that so is the
device being handled. Lemmas about `Head`, `Tail` and `Append` carry it through
the queue.

`ServerProofs`, the job queue. `IInv` is `TypeOK`, `Fresh` (unused ids are untouched), `Busy`
(a handler has a job whose row was marked running), `Told` (which events and
results go with which status) and `NoLostWakeup`. It gives `TypeCorrect`,
`WakeupKept`, `SettledSignalled`, `SettledStaysHolds` and `ServiceImplemented`,
the refinement of `JobService`: each action maps to a step of the service or to
a stutter. `OvertakeOnlyToBatchHolds` and `StrayOnlyExpiredHolds` are action
properties that follow from it: of all steps only the two pops take a pending job,
and `Told` says whose results nobody waits for.

`DaemonProofs`, the call router. `CallInv` is `CallTypeOK`, `CallHeld` (`callCancel` is set exactly in
a call, startCall's steps are in one whose recording is not launched yet, and
endCall's and the end of Run are after it), `HeadphoneHasCall`,
`NoStrayRecording` and `MixerHasRecording`. `CallHeld` is what makes them
inductive: endCall cancels the recording `callCancel` is for, and startCall
replaces no `callCancel` that is still needed. The two exceptions are history, which
no later step takes back: a desertion (`deserted`) and a leaked mixer (`leaked`, a
recording that is not used again). It gives `CallTypeCorrect`,
`HeadphoneCovered`, `RecordingsHeld` and `MixersHeld`.

`DaemonProofs`, the log. `LogInv` is `LogTypeOK`, `Known` (a log that is created is newer
than all), `Room`, `Measured` (`fw.size` is the length of the open file),
`NewestFirst`, `WithinLimit` and `Vacated` (the slot that is filled next is free,
or the last, unless a rename failed). It gives `LogTypeCorrect`, `NewestFirstHolds`,
`WithinLimitHolds` and the action property `OldestGoesFirstHolds`.
`KeepsRecentHolds` adds `Layout`, which says, for each point of a rotation, which
log each slot holds.

`ServerProofs`, the models. `MemoryInv` is `MemoryTypeOK`, `Phases` (which slot is being unloaded at
which step of acquire), `InTime` (a model stored in time is there only as long as
its slot is active, and what acquire has unloaded stays unloaded until it
returns) and `HandleInTime`. It gives `MemoryTypeCorrect`, `UnloadedWithSlotHolds` and
`HandleHeldHolds`. `Alone` says what one request finds at each place when no other
is there (`Equipped`), and that then every model is stored in time, in its own slot
and with the right flag (`Tidy`); `LlmKnown` that an obeying LM Studio has no
model the manager has forgotten. They give `AloneServedHolds` and
`AloneOneModelHolds`: whatever is in memory is the active slot's, apart from the
pipeline of the warm-up as long as no diarization has acquired its slot (`warmed`).

`RecordingsProofs`. `TypeCorrect` proves `TypeOK` with `Aimed` (a request about one
recording has one). `TrashInv` adds to `ErasedWasTrashed` what makes it inductive:
`Rowed` (what is in the trash has a row, what has none is not labelled), `Known`
(what was trashed, listed or read exists, and what the trash page shows was
trashed) and `Targets` (what a request is about was trashed when it was sent, and
what its handler says is removed is erased). It gives `ErasedWasTrashedHolds` and
the action property `LeavesTrashHolds`: of all steps only `Restore` and
`DeleteTrashed` take a recording with its files from the trash, and the second has erased all
that it had seen. `ListInv` is about the cache: unless a request has changed
something and not been answered yet (`Dirty`), or the list is `overtaken`, the list, its answer on the way
and the directories it has scanned are true (`Fits`) or stale, and a stale list on
the page is being fetched. It gives `ListSettlesHolds`.

`DevicesProofs`. Lemmas about `Append`, `RemoveAt` and `EXCEPT` say what the
sequence of requests keeps when one is sent, served or answered. `DialogInv` says
of each way into and out of the dialog which timers there are; with `TypeOK` it
gives `TypeCorrect` and `OneScannerHolds`. `SpinnerHasRequestHolds` follows a
request by its address: it is answered by the step that clears the spinner, and
one of an older onboarding is marked *gone* by the step that clears it too.
`SwitchInv` says that whatever is on its way about the switch agrees with what
was asked last (`Agreeing`), that the switch and Stop are not used together
(`Apart`), and that a daemon that disagrees has a request still to be served
(`Awaited`). It gives `SwitchKeptHolds`.

`TasksProofs`. `TInv` is the type invariant with what is known of ids: an id in
`ids` is not given away yet, and a table, a cached list or a request mentions none
of these. Since what is known of an id stays known, lemmas say how tables, lists
and requests grow (`TablesGrow`, `ListsGrow`, `SoundGrows`), and each action is
put into one of few forms (`Requests`, `ServerSteps`, `CacheSteps`). `KeepInv` is
about the last choices while no `reason` to lose one has occurred: one change of
a field is on its way at most (`Single`), it carries the last choice (`Latest`),
a row that differs from the choice has such a change (`Owed`), and the two editors
hold what was typed (`Drafted`, `Described`). It gives `ChoicesKept`. `ShowInv`
says that a list is right about the folders, or stale, or an answer that will
invalidate it is due (`ListInv`, `FlistInv` with `TasksDue`, `FoldersDue`; `Again` is
what an invalidation leaves of a list, `Moved` what any step does), unless its first
answer was `late`, and that a stale list on the page is being fetched (`MountInv`).
It gives `RightFolders`: when nothing is in flight, a row shows its folder.

`AutosaveProofs`. As long as there is no `reason`, nothing is lost (`Lossless`):
one save is in flight at most, and what it has applied is what the row holds
(`OneSave`); the last body waits, is on its way or is stored (`Handed`), or it is
in a board whose text is being edited (`Unhanded`); the editor shows what the
store holds (`Shown`). That a new body differs from all that are held anywhere
(`Fresh`) is what tells them apart. It gives `NothingLost` and `EditorMatchesStore`.
A free slot is the least one; that there is one (`Least`) comes from
well-founded induction, here and in the next module.

`EditorProofs`. Most of it is about `Blocks`: each command makes, of a document
and a selection in it, a document and a selection in it, with no new view of an
upload block but the next one. `Start` is the number of positions before a line
(`StartCounts`), from which follow where a position is (`LineAtHere`) and that a
position deleted makes the document at most one shorter (`DeleteAtType`), so that
the cursor that is put where a block or a range was is in it. Commands that change
lines in their places are compared by what they leave: `Repainted` (marks and
alignment), `Reshaped` (kinds of lines), `Turned` (the toolbar's chains, which
have `TurnIntoType` in common); those that put lines in or take them out rest on
`SpliceIs` and `RemoveAtIs`, and what undo puts back gets views by counting
(`RevivedType`). The invariant `Inv` is `TypeOK /\ Working`: a file that is shown
belongs to the upload of its own block, which has not given it up. So the last
file of an upload that a block shows has an address, images are put in, and the
block leaves with its files. There is one lemma for each action. They give
`TypeCorrect` and `UploadsAtWork`. `AddressKept` follows from `Inv` by `SameLinking`: if the popover
was not told of a change, the selection and the lengths before it are what they
were, and every action but undo and redo that leaves those leaves the words
selected. Proving corrected the model twice: a selection over several quotes is left as it is
by the toolbar's toggle of a quote, and `LinkForSelection` was stated of states at
first and was false on longer notes.

Model-checked only: the liveness properties (`IdleEnds`, `ClosedIsReported`,
`Served`, `StoppedRecorderEnds`, `EndedRecordingCleared`, `EndSeenLater`,
`ReachesServer`), which rest on fairness and are out of the prover's reach; and
`KeepsWords`, which compares the words of two documents in their order: they are
a concatenation over the lines with some left out, a recursion over a sequence,
and what such a definition computes for every document needs an induction that
the provers cannot be given.

## 5. Not modelled

Reading and writing of WAV data, D-Bus and PipeWire calls without state of our
own, configuration at startup, and the PCM pipeline of `internal/audio` that main
no longer starts. The media sync of the two transports and the supervisor's
health counters are left to the plan. Of the web: the settings procedure, which
reads, merges and writes the configuration in one synchronous call; profile,
authentication, home page, sidebar and the audio player; lists and deletion of
notes and whiteboards, which are one statement each; of the recordings, `get`, which
only reads, the star itself, sizes and durations, further pages of the list, and
clients of the API that call what the pages call; sorting of tasks; and, of the
editor, files that fail without being aborted (`handleImageUpload` has none), pasting, dragging, keyboard navigation of menus, lists within lists
and everything that is ProseMirror's own. The reasons are in `PROJECT.json`,
component by component.

## 6. Plan

In this order:

1. `KeepsWords`, in parts that need no induction: a command that changes lines in
   their places leaves the words of each (`Repainted`, `Reshaped`), and those that
   put lines in leave the words of the others. Every other safety property of a
   run is a theorem.
2. `MediaSync`: volume signals between two transports and the two MPRIS exports.
3. `Supervisor`: small; the unit of the bridge follows the health of the backend.
4. Compositions: `BridgePipeline` with `SessionManager` (the pipelines' recorders
   are the session manager's), `BridgePipeline` with `CallRouting`.
5. Abstract specifications: a recording service (sessions seen by the API) that
   `SessionManager` implements; one owner of the headphone that `BridgePipeline`
   and `CallRouting` implement together.
