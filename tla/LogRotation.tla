----------------------------- MODULE LogRotation -----------------------------
(***************************************************************************)
(* The log file of the bridge daemon (internal/logging/file.go): Write     *)
(* rotates the file before a record that would make it too large.          *)
(*                                                                         *)
(* Write runs under a mutex; its steps here are the system calls, between  *)
(* which the process may be killed and each of which may fail.  A log is a *)
(* number, in the order in which the logs were created.  The file system   *)
(* keeps what a call did.                                                  *)
(***************************************************************************)
EXTENDS Integers

CONSTANTS
  MaxSize,     \* maxSize
  MaxBackups,  \* maxBackups
  Sizes,       \* lengths of records
  MaxLogs,     \* bound: logs created
  MaxLength    \* bound: length of a log that cannot be moved away

ASSUME SizeAssumption == MaxSize \in Nat /\ Sizes \subseteq 1 .. MaxSize
ASSUME BackupsAssumption == MaxBackups \in Nat \ {0} /\ MaxLogs \in Nat \ {0}

VARIABLES
  base,     \* the log in bridge.log, 0 if there is no such file
  length,   \* its length
  backup,   \* the log in bridge.log.1, ..., 0 if there is no such file
  born,     \* logs created so far
  open,     \* fw.file # nil
  size,     \* fw.size
  pc,       \* where Write is
  i,        \* rotate's i
  record,   \* the length of the record being written
  jammed,   \* history: a shift of this rotation failed
  stuck,    \* history: bridge.log could not be moved away
  marred    \* history: a rotation was cut short, or one of its renames or opens failed

files == <<base, length, backup, born>>
writer == <<open, size>>
history == <<jammed, stuck, marred>>
logVars == <<files, writer, pc, i, record, history>>

Slots == 1 .. MaxBackups
Logs == 0 .. MaxLogs

\* Every file that holds a log.
Stored == ({base} \union {backup[k] : k \in Slots}) \ {0}

\* NewFileWriter in an empty directory.
LogInit ==
  /\ base = 1 /\ length = 0 /\ born = 1
  /\ backup = [k \in Slots |-> 0]
  /\ open = TRUE /\ size = 0
  /\ pc = "idle" /\ i = 0 /\ record = 0
  /\ jammed = FALSE /\ stuck = FALSE /\ marred = FALSE

-----------------------------------------------------------------------------
(* Write *)

Fits(n) == size + n <= MaxSize

WriteFitting(n) ==
  /\ pc = "idle"
  /\ Fits(n)
  /\ record' = n
  /\ pc' = "append"
  /\ UNCHANGED <<files, writer, i, history>>

\* rotate closes the file.
WriteRotating(n) ==
  /\ pc = "idle"
  /\ ~Fits(n)
  /\ born < MaxLogs /\ length + n <= MaxLength
  /\ record' = n
  /\ open' = FALSE
  /\ jammed' = FALSE
  /\ pc' = "remove"
  /\ UNCHANGED <<files, size, i, stuck, marred>>

\* The whole record, a part of it, or nothing, and nothing without a file.
Append(n) ==
  /\ pc = "append"
  /\ n \in 0 .. record /\ (open \/ n = 0)
  /\ length' = length + n
  /\ size' = size + n
  /\ pc' = "idle"
  /\ UNCHANGED <<base, backup, born, open, i, record, history>>

-----------------------------------------------------------------------------
(* rotate *)

\* Mutant: the loop ends before the newest backup.
NextShiftEarly(k) ==
  /\ i' = k
  /\ pc' = IF k <= 1 THEN "move" ELSE "shift"

\* The loop counts down to 1.
NextShift(k) ==
  /\ i' = k
  /\ pc' = IF k = 0 THEN "move" ELSE "shift"

\* os.Remove of the oldest backup; its result is ignored.
Remove ==
  /\ pc = "remove"
  /\ backup' = [backup EXCEPT ![MaxBackups] = 0]
  /\ NextShift(MaxBackups - 1)
  /\ UNCHANGED <<base, length, born, writer, record, history>>

RemoveFails ==
  /\ pc = "remove"
  /\ NextShift(MaxBackups - 1)
  /\ UNCHANGED <<files, writer, record, history>>

\* What os.Rename of backup k to k + 1 does: nothing if there is no such file.
Shifted(k) ==
  IF backup[k] = 0 THEN backup ELSE [backup EXCEPT ![k + 1] = backup[k], ![k] = 0]

Shift ==
  /\ pc = "shift"
  /\ backup' = Shifted(i)
  /\ NextShift(i - 1)
  /\ UNCHANGED <<base, length, born, writer, record, history>>

ShiftFails ==
  /\ pc = "shift"
  /\ backup[i] # 0
  /\ jammed' = TRUE
  /\ marred' = TRUE
  /\ NextShift(i - 1)
  /\ UNCHANGED <<files, writer, record, stuck>>

\* bridge.log to bridge.log.1, if there is one.
Move ==
  /\ pc = "move"
  /\ base # 0
  /\ backup' = [backup EXCEPT ![1] = base]
  /\ base' = 0
  /\ length' = 0
  /\ stuck' = FALSE
  /\ pc' = "open"
  /\ UNCHANGED <<born, writer, i, record, jammed, marred>>

MoveFails ==
  /\ pc = "move"
  /\ stuck' = (base # 0)
  /\ marred' = TRUE
  /\ pc' = "open"
  /\ UNCHANGED <<files, writer, i, record, jammed>>

\* os.OpenFile with O_CREATE
CreateIfMissing ==
  /\ IF base = 0
       THEN base' = born + 1 /\ born' = born + 1
       ELSE UNCHANGED <<base, born>>
  /\ UNCHANGED <<length, backup>>

\* What openFile does: the file is opened, or created, and measured.
OpenFile ==
  /\ open' = TRUE
  /\ size' = length
  /\ CreateIfMissing

Open ==
  /\ pc = "open"
  /\ OpenFile
  /\ pc' = "append"
  /\ UNCHANGED <<i, record, history>>

\* Write goes on without a file; fw.size is what it was.  A file that was
\* created stays when it cannot be measured.
OpenFails ==
  /\ pc = "open"
  /\ UNCHANGED files \/ CreateIfMissing
  /\ pc' = "append"
  /\ marred' = TRUE
  /\ UNCHANGED <<writer, i, record, jammed, stuck>>

-----------------------------------------------------------------------------
(* The process *)

Crash ==
  /\ pc # "down"
  /\ open' = FALSE
  /\ pc' = "down"
  /\ marred' = (marred \/ pc \notin {"idle", "append"})
  /\ UNCHANGED <<files, size, i, record, jammed, stuck>>

\* NewFileWriter
Restart ==
  /\ pc = "down"
  /\ OpenFile
  /\ pc' = "idle"
  /\ UNCHANGED <<i, record, history>>

LogNext ==
  \/ \E n \in Sizes : WriteFitting(n) \/ WriteRotating(n)
  \/ \E n \in 0 .. MaxSize : Append(n)
  \/ Remove \/ RemoveFails
  \/ Shift \/ ShiftFails
  \/ Move \/ MoveFails
  \/ Open \/ OpenFails
  \/ Crash \/ Restart

LogSpec == LogInit /\ [][LogNext]_logVars

-----------------------------------------------------------------------------
(* Properties *)

\* Every variable has its type.
LogTypeOK ==
  /\ base \in Logs
  /\ length \in Nat
  /\ backup \in [Slots -> Logs]
  /\ born \in Logs
  /\ open \in BOOLEAN
  /\ size \in Nat
  /\ pc \in {"idle", "remove", "shift", "move", "open", "append", "down"}
  /\ i \in 0 .. MaxBackups - 1
  /\ record \in 0 .. MaxSize
  /\ jammed \in BOOLEAN
  /\ stuck \in BOOLEAN
  /\ marred \in BOOLEAN

\* The files are in the order of their age, bridge.log the newest: no failure
\* and no crash in the middle of a rotation ever mixes them up
\* (file.go:96-103).
NewestFirst ==
  /\ \A k \in Slots : base # 0 /\ backup[k] # 0 => backup[k] < base
  /\ \A k, m \in Slots : k < m /\ backup[k] # 0 /\ backup[m] # 0 => backup[m] < backup[k]

\* No log grows over the limit, whatever was lost or cut off before, except
\* one that could not be moved away (file.go:53-59).
WithinLimit == length > MaxSize => stuck

\* A log that goes is the oldest one, unless a rename of the same rotation
\* failed (file.go:113-122).
OldestGoesFirst ==
  [][\A g \in Stored \ Stored' : (\A h \in Stored : g <= h) \/ jammed]_logVars

\* Until a rotation has failed or was cut short, the latest MaxBackups logs are
\* all there, at every step of a rotation and over every restart
\* (file.go:16, 96-127).
KeepsRecent ==
  ~marred => \A g \in 1 .. born : g > born - MaxBackups => g \in Stored
=============================================================================
