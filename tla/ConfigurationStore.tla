-------------------------- MODULE ConfigurationStore --------------------------
(* The configuration file and its backup, and the operations of the          *)
(* repository on them as the asynchronous steps they are: a load that creates*)
(* a missing file in place, a save or reset that backs up the current file   *)
(* and renames a new one over it, a restore of the backup.  Tasks of this    *)
(* process ("self") and of another Pi process ("other") interleave; any step *)
(* of input or output may fail.  Settings starts the tasks and consumes      *)
(* their results.                                                            *)
EXTENDS ConfigRules, FiniteSets

CONSTANTS TaskIds,
          Foreign     \* a JSON document that is no configuration of this version

ASSUME ForeignIsInvalid == ~ParseConfig(Foreign)

VARIABLES file, backup,   \* [is, config]: "absent", "torn" (not JSON) or "json"
          tasks,          \* TaskIds -> the operation it runs
          told,           \* what the listeners of this process heard last: {} or {config}
          \* history:
          prev,           \* the valid content the file's last replacement replaced
          writer,         \* the process that wrote the file last
          overlapped,     \* two operations ran at the same time
          damaged         \* a creation in place failed or its process died

storeVars == <<file, backup, tasks, told, prev, writer, overlapped, damaged>>

Content(is, c) == [is |-> is, config |-> c]
Json(c) == Content("json", c)
Absent == Content("absent", CreateDefaultConfig)
Torn == Content("torn", CreateDefaultConfig)
Contents == [is : {"absent", "torn", "json"}, config : CodexConfig \cup {Foreign}]
Whole(f) == f.is = "json" /\ ParseConfig(f.config)

\* read is the valid content a save found before it wrote; live says that the
\* overlay that started the task is still there; base is the draft it started from.
Task(op, step, by, c, base) ==
    [op |-> op, step |-> step, by |-> by, config |-> c, read |-> Absent,
     live |-> by = "self", base |-> base]
Idle == Task("none", "idle", "nobody", CreateDefaultConfig, CreateDefaultConfig)
Running == {t \in TaskIds : tasks[t] # Idle}
At(t, step) == tasks[t].step = step
Goes(t, step) == tasks' = [tasks EXCEPT ![t].step = step]
Fails(t) == Goes(t, "failed")

StoreInit(f, b) ==
    /\ file = f /\ backup = b /\ prev = b
    /\ tasks = [t \in TaskIds |-> Idle]
    /\ told = {} /\ writer = "self" /\ overlapped = FALSE /\ damaged = (f.is = "torn")

\* A task enters a free slot.
Begin(t, task) ==
    /\ tasks[t] = Idle
    /\ tasks' = [tasks EXCEPT ![t] = task]
    /\ overlapped' = (overlapped \/ Running # {})

-----------------------------------------------------------------------------
(* loadOrCreate                                                              *)

ReadConfig(t, content) ==
    tasks' = [tasks EXCEPT ![t] = IF Whole(content)
                                  THEN [@ EXCEPT !.step = "loaded", !.config = content.config]
                                  ELSE [@ EXCEPT !.step = "failed"]]
Load(t) ==
    /\ At(t, "load")
    /\ \/ file # Absent /\ ReadConfig(t, file)
       \/ file = Absent /\ Goes(t, "create")
    /\ UNCHANGED <<file, backup, told, prev, writer, overlapped, damaged>>
\* open with "wx": the file exists and is empty until it is filled.  A file that
\* appeared meanwhile is read.
Create(t) ==
    /\ At(t, "create")
    /\ \/ file = Absent /\ file' = Torn /\ writer' = tasks[t].by /\ Goes(t, "fill")
       \/ file # Absent /\ Goes(t, "load") /\ UNCHANGED <<file, writer>>
    /\ UNCHANGED <<backup, told, prev, overlapped, damaged>>
\* A rename over the new file unlinks it: the handle then fills a file nobody sees.
Fill(t) ==
    /\ At(t, "fill")
    /\ file' = IF file = Torn THEN Json(CreateDefaultConfig) ELSE file
    /\ tasks' = [tasks EXCEPT ![t].step = "loaded", ![t].config = CreateDefaultConfig]
    /\ UNCHANGED <<backup, told, prev, writer, overlapped, damaged>>

-----------------------------------------------------------------------------
(* save and restoreBackup                                                    *)

ReadValidCurrent(t) ==
    /\ At(t, "current")
    /\ tasks' = [tasks EXCEPT ![t] = IF Whole(file)
                                     THEN [@ EXCEPT !.step = "backup", !.read = file]
                                     ELSE [@ EXCEPT !.step = "write"]]
    /\ UNCHANGED <<file, backup, told, prev, writer, overlapped, damaged>>

\* A plausible bug: what is backed up is what is about to be written.
WriteBackup_New(t) ==
    /\ At(t, "backup")
    /\ backup' = Json(tasks[t].config)
    /\ Goes(t, "write")
    /\ UNCHANGED <<file, told, prev, writer, overlapped, damaged>>

\* A temporary file is written, synced and renamed: other readers see the old
\* content or the new one.
WriteBackup(t) ==
    /\ At(t, "backup")
    /\ backup' = tasks[t].read
    /\ Goes(t, "write")
    /\ UNCHANGED <<file, told, prev, writer, overlapped, damaged>>
WriteConfig(t) ==
    /\ At(t, "write")
    /\ file' = Json(tasks[t].config)
    /\ prev' = IF Whole(file) THEN file ELSE prev
    /\ writer' = tasks[t].by
    /\ Goes(t, "written")
    /\ UNCHANGED <<backup, told, overlapped, damaged>>
RestoreBackup(t) ==
    /\ At(t, "restore")
    /\ tasks' = [tasks EXCEPT ![t] = IF Whole(backup)
                                     THEN [@ EXCEPT !.step = "write", !.config = backup.config]
                                     ELSE [@ EXCEPT !.step = "failed"]]
    /\ UNCHANGED <<file, backup, told, prev, writer, overlapped, damaged>>

\* A plausible bug: a failed write leaves a truncated file behind.
StorageFails_Truncates(t) ==
    /\ tasks[t].step \in {"load", "create", "fill", "current", "backup", "write", "restore"}
    /\ damaged' = (damaged \/ (At(t, "fill") /\ file = Torn))
    /\ file' = IF At(t, "write") THEN Torn ELSE file
    /\ Fails(t)
    /\ UNCHANGED <<backup, told, prev, writer, overlapped>>

\* The directory, a temporary file, its rename or a read fails.  The temporary
\* file is removed; a file created in place stays as it is.
StorageFails(t) ==
    /\ tasks[t].step \in {"load", "create", "fill", "current", "backup", "write", "restore"}
    /\ damaged' = (damaged \/ (At(t, "fill") /\ file = Torn))
    /\ Fails(t)
    /\ UNCHANGED <<file, backup, told, prev, writer, overlapped>>

StoreStep(t) == \/ Load(t) \/ Create(t) \/ Fill(t) \/ ReadValidCurrent(t)
                \/ WriteBackup(t) \/ WriteConfig(t) \/ RestoreBackup(t)

\* The task ends; a load, or one of another process, tells the listeners nothing.
Ends(t) == tasks' = [tasks EXCEPT ![t] = Idle]
OtherEnds(t) ==
    /\ tasks[t].by = "other" /\ tasks[t].step \in {"loaded", "written", "failed"}
    /\ Ends(t)
    /\ UNCHANGED <<file, backup, told, prev, writer, overlapped, damaged>>

\* The process dies and is started again: its tasks are gone, the files stay.
Crash ==
    /\ damaged' = (damaged \/ \E t \in Running : At(t, "fill") /\ tasks[t].by = "self"
                                                 /\ file = Torn)
    /\ tasks' = [t \in TaskIds |-> IF tasks[t].by = "self" THEN Idle ELSE tasks[t]]
    /\ told' = {}
    /\ UNCHANGED <<file, backup, prev, writer, overlapped>>

-----------------------------------------------------------------------------
(* Properties.                                                               *)

StoreTypeOK ==
    /\ file.is \in {"absent", "torn", "json"}
    /\ backup = Absent \/ Whole(backup)
    /\ prev = Absent \/ Whole(prev)
    /\ \A t \in TaskIds : tasks[t].op # "none" => ParseConfig(tasks[t].config)
    /\ \A c \in told : ParseConfig(c)

\* Repository: however saves, resets, restores, creations, failures and a crash
\* interleave, the configuration file is not half-written unless a creation in
\* place is under way or was cut short; a save never tears it.
TornOnlyByCreation ==
    file.is = "torn" /\ ~damaged => \E t \in TaskIds : At(t, "fill")

\* Repository: while operations do not overlap, the backup is the valid
\* configuration the last write replaced (or still the current one, when the
\* write after the backup failed or the backup was restored), and it is exactly
\* that one when a save or a reset has just written the file.
BackupIsPredecessor ==
    ~overlapped => /\ backup \in {prev, file}
                   /\ \A t \in TaskIds : At(t, "written") /\ tasks[t].op # "restore"
                                            => backup = prev
=============================================================================
