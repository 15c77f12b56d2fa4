--------------------------- MODULE DurableRecorder ---------------------------
(***************************************************************************)
(* DurableRecorder of src/recording/recording_linux.cpp: the caller that   *)
(* enqueues access units and finalizes, the worker thread that writes,     *)
(* commits and publishes, and a crash between any two system calls, after  *)
(* which the recording is inspected and a new recorder may be opened on    *)
(* the same path.                                                          *)
(*                                                                         *)
(* pc is the worker's next system call (the constructor's before the       *)
(* worker runs).  A system call may fail; MaxFaults bounds the failures of *)
(* a run.  The event callback reports after a call: its exception has the  *)
(* effect of a call that fails after it took effect.                       *)
(*                                                                         *)
(* Time is what the code asks of it: wall is "fresh" while less than the   *)
(* group commit interval has passed since the last commit, "due" after     *)
(* that, and "late" when the pending group is older than one second.       *)
(***************************************************************************)
EXTENDS RecordingFiles

CONSTANTS MaxUnits,    \* bound on the access units accepted
          QueueLimit,  \* maximum_queue_bytes, in units of one byte
          MaxFaults    \* bound on the system calls that fail

ASSUME RecorderAssumption ==
  MaxUnits \in Nat \ {0} /\ QueueLimit \in Nat \ {0} /\ MaxFaults \in Nat

VARIABLES
  files,      \* the files of the recording
  pc,         \* the worker's next step
  resume,     \* where run called commit_group from
  seen,       \* should_stop, should_publish, should_commit_failure of run
  queue,      \* queue: accepted units that are not written yet
  pending,    \* pending_records: written units that are not committed yet
  hashed,     \* what media_hash was taken of; its length is media_offset
  described,  \* what sidecar_hash and sidecar_size were taken of
  nextIndex,  \* next_access_unit_index
  committed,  \* diagnostics.committed_access_units
  failed, stopRequested, publishRequested, commitPendingOnFailure, completed,
  prepared,   \* ready_state: the prepared barrier has been passed
  wall,       \* the steady clock against last_commit_ns, pending_since_ns
  caller,     \* the owner: "idle", "joining" the worker, or "returned"
  promised,   \* history: units reported as committed by a healthy recorder
  faults      \* failures so far

flags == <<failed, stopRequested, publishRequested, commitPendingOnFailure,
           completed, prepared>>
group == <<pending, hashed, described, committed, promised, wall>>
local == <<resume, seen>>

vars == <<files, pc, local, queue, group, nextIndex, flags, caller, faults>>

Unit == [n : 0 .. MaxUnits - 1, keyframe : BOOLEAN]

\* A failed commit is tried again and writes its records again.  A journal or
\* sidecar longer than any sound recording's is not made longer: the
\* inspector stopped reading it before.
FileCap == 2 * MaxUnits + 1

Grow(s, records) == IF Len(s) > FileCap THEN s ELSE s \o records

Written(f, records) ==
  IF Len(files[f].mem) > FileCap THEN {files} ELSE {Write(files, f, records)}

Broken(f, records) ==
  IF Len(files[f].mem) > FileCap THEN {files} ELSE PartWritten(files, f, records)

Init ==
  /\ files = [f \in File |-> NoFile]
  /\ pc = "open" /\ resume = "loop"
  /\ seen = [stop |-> FALSE, publish |-> FALSE, commit |-> FALSE]
  /\ queue = <<>> /\ pending = <<>> /\ hashed = <<>> /\ described = <<>>
  /\ nextIndex = 0 /\ committed = 0 /\ promised = 0 /\ faults = 0
  /\ failed = FALSE /\ stopRequested = FALSE /\ publishRequested = FALSE
  /\ commitPendingOnFailure = FALSE /\ completed = FALSE /\ prepared = FALSE
  /\ wall = "fresh" /\ caller = "idle"

Fault == faults < MaxFaults /\ faults' = faults + 1

(***************************************************************************)
(* initialize.                                                             *)
(***************************************************************************)
\* Mutant: only an unfinished recording refuses the path.
PathTakenByJournal == files["journal"].at = "final"

\* An existing journal or final name refuses the path.  Companions that a
\* crash left under temporary names do not: their names are unpredictable.
PathTaken == \E f \in File : files[f].at = "final"

OpenPath ==
  /\ pc = "open"
  /\ IF PathTaken
       THEN pc' = "refused" /\ UNCHANGED files
       ELSE pc' = "create" /\ files' = [f \in File |-> NoFile]
  /\ UNCHANGED <<local, queue, group, nextIndex, flags, caller, faults>>

\* One step of the preparation: it succeeds with one effect, or fails with
\* one of several and fail_initialization gives the recorder up.
Prepare(step, next, done, undone) ==
  /\ pc = step
  /\ \/ pc' = next /\ files' = done /\ prepared' = (next = "loop")
        /\ UNCHANGED <<failed, faults>>
     \/ Fault /\ pc' = "exited" /\ files' \in undone /\ failed' = TRUE
        /\ UNCHANGED prepared
  /\ UNCHANGED <<local, queue, group, nextIndex, stopRequested,
                 publishRequested, commitPendingOnFailure, completed, caller>>

\* The files are created in this order.
CreatedBefore == {{}, {"journal"}, {"journal", "media"},
                  {"journal", "media", "sidecar"}, File}

Initialize ==
  \/ Prepare("create", "header", Create(files, File),
             {Create(files, created) : created \in CreatedBefore})
  \/ Prepare("header", "syncHeader", Write(files, "journal", <<Header>>),
             PartWritten(files, "journal", <<Header>>))
  \/ Prepare("syncHeader", "syncPrepared", Sync(files, "journal"),
             {files, Sync(files, "journal")})
  \/ Prepare("syncPrepared", "loop", SyncDirectory(files),
             {files, SyncDirectory(files)})

(***************************************************************************)
(* The caller: enqueue, finalize and the destructor, under the mutex.      *)
(***************************************************************************)
\* The caller holds a recorder that was ready, and has not finalized it.
Holding == caller = "idle" /\ prepared /\ pc # "crashed"

Admitting == Holding /\ ~failed

\* Mutant: the size of the queue is not checked.
EnqueueUnbounded(keyframe) ==
  /\ Admitting /\ nextIndex < MaxUnits
  /\ nextIndex = 0 => keyframe
  /\ queue' = Append(queue, [n |-> nextIndex, keyframe |-> keyframe])
  /\ nextIndex' = nextIndex + 1
  /\ UNCHANGED <<files, pc, local, group, flags, caller, faults>>

\* enqueue accepts a unit; the first one must be a key frame.
Enqueue(keyframe) ==
  /\ Admitting /\ nextIndex < MaxUnits
  /\ nextIndex = 0 => keyframe
  /\ Len(queue) < QueueLimit
  /\ queue' = Append(queue, [n |-> nextIndex, keyframe |-> keyframe])
  /\ nextIndex' = nextIndex + 1
  /\ UNCHANGED <<files, pc, local, group, flags, caller, faults>>

\* enqueue fails the recording on an invalid unit, or on a time stamp that
\* does not advance: the units in the queue stay there, unwritten.
EnqueueInvalid ==
  /\ Admitting
  /\ failed' = TRUE /\ commitPendingOnFailure' = TRUE
  /\ UNCHANGED <<files, pc, local, queue, group, nextIndex, stopRequested,
                 publishRequested, completed, prepared, caller, faults>>

\* enqueue fails the recording and drops the queue when the unit does not fit
\* (a large one fits into no queue), or when the oldest one is too old.
EnqueueOverload ==
  /\ Admitting
  /\ failed' = TRUE /\ commitPendingOnFailure' = TRUE /\ queue' = <<>>
  /\ UNCHANGED <<files, pc, local, group, nextIndex, stopRequested,
                 publishRequested, completed, prepared, caller, faults>>

\* finalize, up to the join of the worker.
Finalize ==
  /\ Holding
  /\ stopRequested' = TRUE /\ caller' = "joining"
  /\ failed' = (failed \/ nextIndex = 0)
  /\ publishRequested' = ~failed'
  /\ UNCHANGED <<files, pc, local, queue, group, nextIndex,
                 commitPendingOnFailure, completed, prepared, faults>>

\* The destructor of a recorder that was not finalized.
Destroy ==
  /\ Holding
  /\ stopRequested' = TRUE /\ caller' = "joining"
  /\ UNCHANGED <<files, pc, local, queue, group, nextIndex, failed,
                 publishRequested, commitPendingOnFailure, completed, prepared,
                 faults>>

\* The join returns; finalize reports completed_state.
Return ==
  /\ caller = "joining" /\ pc = "exited"
  /\ caller' = "returned"
  /\ UNCHANGED <<files, pc, local, queue, group, nextIndex, flags, faults>>

(***************************************************************************)
(* The worker: commit_group.                                               *)
(***************************************************************************)
\* fail_runtime.
FailRuntime == failed' = TRUE /\ queue' = <<>>

Healthy == UNCHANGED <<failed, queue>>

\* Where the worker goes on when commit_group returns.
AfterCommit(from, passed) ==
  CASE from = "loop"     -> "loop"
    [] from = "timer"    -> IF passed /\ seen.stop THEN "stopping" ELSE "loop"
    [] from = "stopping" -> "decide"
    [] from = "publish"  -> IF passed THEN "suffix" ELSE "exited"

\* A call of commit_group: nothing is done when nothing is pending.
CommitFrom(from) ==
  /\ resume' = from
  /\ pc' = IF pending = <<>> THEN AfterCommit(from, TRUE) ELSE "syncMedia"

\* One system call of commit_group: on failure the group stays pending.
CommitStep(step, next, done, undone) ==
  /\ pc = step
  /\ \/ pc' = next /\ files' \in done /\ Healthy /\ UNCHANGED faults
     \/ /\ Fault /\ files' \in undone /\ FailRuntime
        /\ pc' = AfterCommit(resume, FALSE)

\* The records of the pending group and its commit record.
GroupRecords ==
  Append(pending, CommitRecord(pending[Len(pending)].n, Len(hashed)))

\* Mutant: the journal is written without waiting for the media.
SyncMediaGroupLater ==
  /\ CommitStep("syncMedia", "journal", {files}, {files})
  /\ UNCHANGED group

SyncMediaGroup ==
  /\ CommitStep("syncMedia", "journal", {Sync(files, "media")},
                {files, Sync(files, "media")})
  /\ UNCHANGED group

WriteJournalGroup ==
  /\ CommitStep("journal", "syncJournal", Written("journal", GroupRecords),
                Broken("journal", GroupRecords))
  /\ UNCHANGED group

SyncJournalGroup ==
  /\ CommitStep("syncJournal", "sidecar", {Sync(files, "journal")},
                {files, Sync(files, "journal")})
  /\ IF pc' = "sidecar"
       THEN /\ committed' = pending[Len(pending)].n + 1
            /\ promised' = IF failed THEN promised ELSE committed'
       ELSE UNCHANGED <<committed, promised>>
  /\ UNCHANGED <<pending, hashed, described, wall>>

WriteSidecarGroup ==
  /\ CommitStep("sidecar", "syncSidecar", Written("sidecar", pending),
                Broken("sidecar", pending))
  /\ UNCHANGED group

\* The last call, and the deadline: a group that took too long is in the
\* files, but commit_group fails and leaves it pending.
SyncSidecarGroup ==
  /\ pc = "syncSidecar"
  /\ \/ /\ files' = Sync(files, "sidecar")
        /\ described' = Grow(described, pending)
        /\ IF wall = "late"
             THEN /\ FailRuntime /\ UNCHANGED <<pending, wall>>
                  /\ pc' = AfterCommit(resume, FALSE)
             ELSE /\ Healthy /\ pending' = <<>> /\ wall' = "fresh"
                  /\ pc' = AfterCommit(resume, TRUE)
        /\ UNCHANGED faults
     \/ /\ Fault /\ files' \in {files, Sync(files, "sidecar")} /\ FailRuntime
        /\ pc' = AfterCommit(resume, FALSE)
        /\ UNCHANGED <<described, pending, wall>>
  /\ UNCHANGED <<hashed, committed, promised>>

CommitGroup ==
  /\ \/ SyncMediaGroup \/ WriteJournalGroup \/ SyncJournalGroup
     \/ WriteSidecarGroup \/ SyncSidecarGroup
  /\ UNCHANGED <<local, nextIndex, stopRequested, publishRequested,
                 commitPendingOnFailure, completed, prepared, caller>>

(***************************************************************************)
(* The worker: publish, after its commit_group.                            *)
(***************************************************************************)
\* One system call of publish: on failure the worker ends.
PublishStep(step, next, done, undone) ==
  /\ pc = step
  /\ \/ pc' = next /\ files' = done /\ Healthy /\ UNCHANGED faults
     \/ Fault /\ files' \in undone /\ FailRuntime /\ pc' = "exited"

SyncFileStep(step, next, f) ==
  PublishStep(step, next, Sync(files, f), {files, Sync(files, f)})

SyncDirectoryStep(step, next) ==
  PublishStep(step, next, SyncDirectory(files), {files, SyncDirectory(files)})

RenameStep(step, next, f) ==
  PublishStep(step, next, Rename(files, f), {files, Rename(files, f)})

WriteStep(step, next, f, records) ==
  PublishStep(step, next, Write(files, f, records),
              PartWritten(files, f, records))

\* The companions get their final names before the marker gets its contents.
PublishCompanions ==
  \/ /\ WriteStep("suffix", "syncSuffix", "sidecar", <<SidecarSuffix(committed)>>)
     /\ UNCHANGED described
  \/ /\ SyncFileStep("syncSuffix", "renameMedia", "sidecar")
     /\ described' = IF pc' = "renameMedia"
                       THEN Append(described, SidecarSuffix(committed))
                       ELSE described
  \/ RenameStep("renameMedia", "renameSidecar", "media") /\ UNCHANGED described
  \/ RenameStep("renameSidecar", "syncNames", "sidecar") /\ UNCHANGED described
  \/ SyncDirectoryStep("syncNames", "marker") /\ UNCHANGED described

PublishMarker ==
  /\ \/ WriteStep("marker", "syncMarker", "marker",
                  <<Marker(committed, committed, hashed, described)>>)
     \/ SyncFileStep("syncMarker", "renameMarker", "marker")
     \/ RenameStep("renameMarker", "syncMarkerName", "marker")
     \/ SyncDirectoryStep("syncMarkerName", "unlink")
  /\ UNCHANGED described

RemoveJournal ==
  PublishStep("unlink", "syncUnlink", UnlinkJournal(files),
              {files, UnlinkJournal(files)})

Publish ==
  /\ \/ PublishCompanions /\ UNCHANGED completed
     \/ PublishMarker /\ UNCHANGED completed
     \/ RemoveJournal /\ UNCHANGED <<described, completed>>
     \/ /\ SyncDirectoryStep("syncUnlink", "exited")
        /\ completed' = (faults' = faults)
        /\ UNCHANGED described
  /\ UNCHANGED <<local, pending, hashed, committed, promised, wall, nextIndex,
                 stopRequested, publishRequested, commitPendingOnFailure,
                 prepared, caller>>

(***************************************************************************)
(* The worker: run.                                                        *)
(***************************************************************************)
\* A unit is taken and written.  It is committed at once when it is a key
\* frame or changes the configuration, when its time stamp says so, and when
\* the last commit is too long ago.
WriteAccessUnit ==
  /\ pc = "loop" /\ ~failed /\ queue # <<>>
  /\ LET unit == Head(queue) IN
       \/ /\ files' = Write(files, "media", <<Payload(unit.n)>>)
          /\ hashed' = Append(hashed, Payload(unit.n))
          /\ pending' = Append(pending, AccessUnitRecord(unit.n, Len(hashed)))
          /\ queue' = Tail(queue)
          /\ resume' = "loop"
          /\ \E due \in BOOLEAN :
               /\ unit.keyframe \/ wall # "fresh" => due
               /\ pc' = IF due THEN "syncMedia" ELSE "loop"
          /\ UNCHANGED <<failed, faults>>
       \/ /\ Fault /\ FailRuntime
          /\ files' \in PartWritten(files, "media", <<Payload(unit.n)>>)
          /\ UNCHANGED <<pc, resume, hashed, pending>>
  /\ UNCHANGED <<seen, described, committed, promised, wall, nextIndex,
                 stopRequested, publishRequested, commitPendingOnFailure,
                 completed, prepared, caller>>

\* Mutant: a stop is acted upon before the queue is drained.
NoUnitOrStop ==
  /\ pc = "loop" /\ (failed \/ stopRequested \/ queue = <<>>)
  /\ seen' = [stop |-> failed \/ stopRequested,
              publish |-> publishRequested /\ ~failed,
              commit |-> failed /\ commitPendingOnFailure]
  /\ IF pending # <<>> /\ wall # "fresh"
       THEN pc' = "syncMedia" /\ resume' = "timer"
       ELSE pc' = (IF seen'.stop THEN "stopping" ELSE "loop") /\ UNCHANGED resume
  /\ UNCHANGED <<files, queue, group, nextIndex, flags, caller, faults>>

\* Mutant: a failed worker waits for its queue to be drained.
NoUnitWhenDrained ==
  /\ pc = "loop" /\ queue = <<>>
  /\ seen' = [stop |-> failed \/ stopRequested,
              publish |-> publishRequested /\ ~failed,
              commit |-> failed /\ commitPendingOnFailure]
  /\ IF pending # <<>> /\ wall # "fresh"
       THEN pc' = "syncMedia" /\ resume' = "timer"
       ELSE pc' = (IF seen'.stop THEN "stopping" ELSE "loop") /\ UNCHANGED resume
  /\ UNCHANGED <<files, queue, group, nextIndex, flags, caller, faults>>

\* No unit to take: the flags are read once, then a group that is due is
\* committed, and only when that succeeds is a stop acted upon.
NoUnit ==
  /\ pc = "loop" /\ (failed \/ queue = <<>>)
  /\ seen' = [stop |-> failed \/ stopRequested,
              publish |-> publishRequested /\ ~failed,
              commit |-> failed /\ commitPendingOnFailure]
  /\ IF pending # <<>> /\ wall # "fresh"
       THEN pc' = "syncMedia" /\ resume' = "timer"
       ELSE pc' = (IF seen'.stop THEN "stopping" ELSE "loop") /\ UNCHANGED resume
  /\ UNCHANGED <<files, queue, group, nextIndex, flags, caller, faults>>

\* The last commit of a worker that stops.
Stopping ==
  /\ pc = "stopping"
  /\ IF ~failed \/ seen.commit
       THEN CommitFrom("stopping")
       ELSE pc' = "decide" /\ UNCHANGED resume
  /\ UNCHANGED <<files, seen, queue, group, nextIndex, flags, caller, faults>>

\* Whether to publish; publish begins with a commit_group of its own.
Decide ==
  /\ pc = "decide"
  /\ IF seen.publish /\ ~failed
       THEN CommitFrom("publish")
       ELSE pc' = "exited" /\ UNCHANGED resume
  /\ UNCHANGED <<files, seen, queue, group, nextIndex, flags, caller, faults>>

Worker ==
  WriteAccessUnit \/ NoUnit \/ CommitGroup \/ Stopping \/ Decide \/ Publish

\* Time passes: the commit interval, and the deadline of a pending group.
Tick ==
  /\ prepared /\ pc \notin {"exited", "crashed"}
  /\ \/ wall = "fresh" /\ wall' = "due"
     \/ wall = "due" /\ pending # <<>> /\ wall' = "late"
  /\ UNCHANGED <<files, pc, local, queue, pending, hashed, described, committed,
                 promised, nextIndex, flags, caller, faults>>

(***************************************************************************)
(* A crash, and a new recorder on the same path.                           *)
(***************************************************************************)
Crash ==
  /\ pc \notin {"open", "refused", "crashed"}
  /\ pc' = "crashed"
  /\ \E journal \in AfterCrash(files["journal"]),
       media \in AfterCrash(files["media"]),
       sidecar \in AfterCrash(files["sidecar"]),
       marker \in AfterCrash(files["marker"]) :
         files' = [journal |-> journal, media |-> media,
                   sidecar |-> sidecar, marker |-> marker]
  /\ UNCHANGED <<local, queue, group, nextIndex, flags, caller, faults>>

\* The memory of the process is lost; the failures of the run stay counted.
Restart ==
  /\ pc = "crashed"
  /\ pc' = "open" /\ resume' = "loop"
  /\ seen' = [stop |-> FALSE, publish |-> FALSE, commit |-> FALSE]
  /\ queue' = <<>> /\ pending' = <<>> /\ hashed' = <<>> /\ described' = <<>>
  /\ nextIndex' = 0 /\ committed' = 0 /\ promised' = 0
  /\ failed' = FALSE /\ stopRequested' = FALSE /\ publishRequested' = FALSE
  /\ commitPendingOnFailure' = FALSE /\ completed' = FALSE /\ prepared' = FALSE
  /\ wall' = "fresh" /\ caller' = "idle"
  /\ UNCHANGED <<files, faults>>

Next ==
  \/ OpenPath \/ Initialize
  \/ \E keyframe \in BOOLEAN : Enqueue(keyframe)
  \/ EnqueueInvalid \/ EnqueueOverload \/ Finalize \/ Destroy \/ Return
  \/ Worker \/ Tick \/ Crash \/ Restart

Spec == Init /\ [][Next]_vars

\* The worker is a thread that is never suspended for good, and a join
\* returns once the thread has ended.
FairSpec == Spec /\ WF_vars(Worker) /\ WF_vars(Return)

(***************************************************************************)
(* Properties.                                                             *)
(***************************************************************************)
Steps == {"open", "refused", "crashed", "create", "header", "syncHeader",
          "syncPrepared", "loop", "syncMedia", "journal", "syncJournal",
          "sidecar", "syncSidecar", "stopping", "decide", "suffix",
          "syncSuffix", "renameMedia", "renameSidecar", "syncNames", "marker",
          "syncMarker", "renameMarker", "syncMarkerName", "unlink",
          "syncUnlink", "exited"}

\* The variables have their types; what was written is counted no further
\* than what was accepted, and what is pending is the tail of it.
TypeOK ==
  /\ \A f \in File : files[f].at \in Place /\ files[f].entry \in Place
  /\ pc \in Steps /\ resume \in {"loop", "timer", "stopping", "publish"}
  /\ seen \in [stop : BOOLEAN, publish : BOOLEAN, commit : BOOLEAN]
  /\ queue \in Seq(Unit) /\ Len(queue) <= QueueLimit
  /\ nextIndex \in 0 .. MaxUnits /\ Len(hashed) <= nextIndex
  /\ \A i \in 1 .. Len(hashed) : hashed[i] = Payload(i - 1)
  /\ \A i \in 1 .. Len(pending) :
       pending[i].n = Len(hashed) - Len(pending) + i - 1
  /\ committed \in 0 .. Len(hashed) /\ promised \in 0 .. committed
  /\ {failed, stopRequested, publishRequested, commitPendingOnFailure,
      completed, prepared} \subseteq BOOLEAN
  /\ wall \in {"fresh", "due", "late"} /\ caller \in {"idle", "joining", "returned"}
  /\ faults \in 0 .. MaxFaults

\* Whenever the power fails after the prepared barrier (line 1082), and
\* whatever of the unsynchronized writes, names and retries survives, the
\* inspector finds a sound recording that holds at least every access unit
\* that a healthy recorder has reported as committed.
CrashKeepsPromise ==
  pc = "crashed" /\ prepared =>
    LET verdict == Inspect(files) IN
      /\ verdict.state \in {"prepared_incomplete", "incomplete", "complete"}
      /\ verdict.units >= promised

\* A recording that is inspected as complete was finalized and holds every
\* access unit that enqueue accepted, in order; and once finalize has said
\* RECORDER_COMPLETED no crash makes it anything else.
CompletionIsExact ==
  /\ TypeOK
  /\ pc = "crashed" =>
       /\ completed => Inspect(files).state = "complete"
       /\ Inspect(files).state = "complete" =>
            /\ publishRequested /\ Inspect(files).units = nextIndex
            /\ files["media"].mem = [i \in 1 .. nextIndex |-> Payload(i - 1)]

\* A recorder never starts over an earlier recording: it passes the checks of
\* initialize (lines 1024-1039) only when the inspector finds nothing there.
NeverOverwrites ==
  [][pc = "open" /\ pc' = "create" => Inspect(files).state = "absent"]_vars

JoinEnds == caller = "joining" ~> (caller = "returned" \/ pc = "crashed")

\* finalize and the destructor return, after failed system calls too, as
\* long as no pending group is ever older than the one-second deadline.
FinalizeReturnsInTime == [](wall # "late") => JoinEnds

\* finalize and the destructor return whatever the storage does: a group that
\* missed its deadline fails the recorder (docs/recording.md, line 89).
FinalizeReturns == JoinEnds
=============================================================================
