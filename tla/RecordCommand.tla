---------------------------- MODULE RecordCommand ----------------------------
(***************************************************************************)
(* The record command (app/record_command.cpp) over its Linux frame source *)
(* (app/record_command_linux.cpp): the command's thread selects a window,  *)
(* opens the recording, starts the capture, and turns the latest frames    *)
(* into access units until it is told to stop or the capture ends.  The    *)
(* durable recorder and the encoder are seen through their answers; exit   *)
(* codes and reasons are left out.                                         *)
(***************************************************************************)
EXTENDS LinuxCapture

CONSTANT RecMaxTime   \* bound: frame intervals after the first frame

ASSUME CommandAssumption == RecMaxTime \in Nat

VARIABLES cmd,    \* the command's thread: step, flags, locals
          file    \* the recorder: not ready, recording, or finalized; its last unit

recVars == <<poolVars, linuxVars, cmd, file>>

NoAccessUnit == [epoch |-> 0, idr |-> FALSE, geometry |-> 0, frame |-> 0]

NoLocals == [first |-> -1, slot |-> -1, epoch |-> 1, geometry |-> 0, force |-> TRUE]

CommandInit ==
  /\ PoolInit /\ PortalInit /\ DesktopInit /\ PwInit
  /\ cmd = [at |-> "bus", started |-> FALSE, state |-> "closed", var |-> NoLocals]
  /\ file = [state |-> "none", last |-> NoAccessUnit]

At(step) == cmd.at = step
Goto(step) == cmd' = [cmd EXCEPT !.at = step]

(* select_window: the steps of open_window; a failure returns at once and  *)
(* the frame source is destroyed.                                          *)
SelectWindow ==
  /\ cmd.at \in {"bus", "create", "select", "start", "node"}
  /\ UNCHANGED <<poolVars, file>>
  /\ \/ At("bus") /\ ConnectBus /\ (Goto("create") \/ Goto("destroyed"))
     \/ At("bus") /\ UNCHANGED linuxVars /\ Goto("destroyed")
     \/ \E stage \in {"create", "select", "start"}, answer \in Answers :
          /\ At(stage) /\ RequestFails(stage, answer)
          /\ Goto("destroyed")
     \/ At("create") /\ CreateGranted /\ Goto("select")
     \/ At("create") /\ CreateMalformed /\ Goto("destroyed")
     \/ At("select") /\ RequestGranted("select") /\ Goto("start")
     \/ At("start") /\ RequestGranted("start") /\ Goto("node")
     \/ At("node") /\ (StartMalformed \/ StartWithoutNode \/ RemoteFails) /\ Goto("destroyed")
     \/ At("node") /\ RemoteOpens /\ Goto("recorder")

OpenRecorder ==
  /\ At("recorder")
  /\ \/ file' = [file EXCEPT !.state = "recording"] /\ Goto("capture")
     \/ Goto("stop") /\ UNCHANGED file
  /\ UNCHANGED <<poolVars, linuxVars>>

(* start_capture: five seconds to see the stream running.                  *)
StartCapture ==
  /\ At("capture") /\ PwStart
  /\ cmd' = IF pw'.loop THEN [cmd EXCEPT !.at = "wait", !.started = TRUE]
            ELSE [cmd EXCEPT !.at = "stop", !.state = "disconnected"]
  /\ UNCHANGED <<poolVars, file>>

PollPortal(p) ==
  /\ portal' = Polled(p)
  /\ desktop' = [DesktopClosed(IF p.terminal = "none" THEN [p EXCEPT !.session = FALSE] ELSE p)
                   EXCEPT !.signals = {}]
  /\ UNCHANGED pw

WaitForStream ==
  /\ At("wait")
  /\ \/ pw.active /\ Goto("loop") /\ UNCHANGED linuxVars
     \/ /\ ~pw.active
        /\ \E p \in Dispatched(portal, desktop) :
             /\ PollPortal(p)
             /\ p.terminal # "none" => cmd' = [cmd EXCEPT !.at = "stop",
                                                          !.state = "disconnected"]
             /\ p.terminal = "none" =>
                  IF pool.terminal = "disconnected"
                    THEN cmd' = [cmd EXCEPT !.at = "stop", !.state = "disconnected"]
                    ELSE UNCHANGED cmd
     \/ \* the five seconds are over
        /\ ~pw.active /\ UNCHANGED linuxVars
        /\ cmd' = [cmd EXCEPT !.at = "stop", !.state = "disconnected"]
  /\ UNCHANGED <<poolVars, file>>

-----------------------------------------------------------------------------
(* The loop: the stop predicate answers yes, or the eight hours are over. *)
LoopStops ==
  /\ At("loop")
  /\ Goto("stop")
  /\ UNCHANGED <<poolVars, linuxVars, file>>

(* poll_terminal of the frame source: the portal, the pool, the stream. *)
PollSource ==
  /\ At("loop")
  /\ \E p \in Dispatched(portal, desktop) :
       LET seen == IF p.terminal # "none" THEN p.terminal
                   ELSE IF ~pool.open THEN pool.terminal
                   ELSE IF cmd.started /\ ~pw.active THEN "disconnected"
                   ELSE "none"
       IN  /\ PollPortal(p)
           /\ cmd' = IF seen = "none" THEN [cmd EXCEPT !.at = "take"]
                     ELSE [cmd EXCEPT !.at = "stop", !.state = seen]
  /\ UNCHANGED <<poolVars, file>>

TakeFrame ==
  /\ At("take")
  /\ \/ TakeLatest /\ Goto("frame")
     \/ In(pool, "ready") = {} /\ UNCHANGED poolVars /\ Goto("loop")
  /\ UNCHANGED <<linuxVars, file>>

(* The lease ends with the iteration. *)
DropLease == pool' = Released(pool) /\ lease' = NoLease /\ UNCHANGED job

First == IF cmd.var.first < 0 THEN lease.frame.time ELSE cmd.var.first
FrameSlot == lease.frame.time - First

(* A frame of an interval that already has one is dropped; one older than  *)
(* the first, or past the session's length, ends the recording.            *)
RefuseFrame ==
  /\ At("frame")
  /\ \/ FrameSlot \notin 0..RecMaxTime /\ Goto("stop")
     \/ FrameSlot \in 0..RecMaxTime /\ cmd.var.slot >= FrameSlot
          /\ cmd' = [cmd EXCEPT !.at = "loop", !.var.first = First]
  /\ DropLease
  /\ UNCHANGED <<linuxVars, file>>

NewGeometry == cmd.var.geometry # 0 /\ cmd.var.geometry # lease.frame.epoch

(* The locals an encoded or skipped frame leaves behind. *)
Advanced(step) ==
  [cmd EXCEPT !.at = step, !.var.first = First, !.var.slot = FrameSlot,
              !.var.geometry = lease.frame.epoch,
              !.var.epoch = IF NewGeometry THEN @ + 1 ELSE @]

(* Mutant: a new geometry does not force an IDR. *)
ForcedOnce == cmd.var.force

Forced == cmd.var.force \/ NewGeometry

(* The encoder may skip the frame: the IDR it was asked for stays due in   *)
(* the encoder until it codes a picture.                                   *)
EncodeFrame ==
  /\ At("frame") /\ FrameSlot \in 0..RecMaxTime /\ cmd.var.slot < FrameSlot
  /\ \/ cmd' = [Advanced("loop") EXCEPT !.var.force = Forced] /\ UNCHANGED file
     \/ \E idr \in (IF Forced THEN {TRUE} ELSE BOOLEAN) :
          LET unit == [epoch |-> Advanced("loop").var.epoch, idr |-> idr,
                       geometry |-> lease.frame.epoch, frame |-> lease.frame.id]
          IN  \/ /\ cmd' = [Advanced("loop") EXCEPT !.var.force = FALSE]
                 /\ file' = [file EXCEPT !.last = unit]
              \/ \* the recorder does not admit it
                 cmd' = [Advanced("stop") EXCEPT !.var.force = FALSE] /\ UNCHANGED file
     \/ \* conversion, scaling or encoding fails
        Goto("stop") /\ UNCHANGED file
  /\ DropLease
  /\ UNCHANGED linuxVars

-----------------------------------------------------------------------------
(* source.stop: the stream if it was started, else the pool; then the      *)
(* portal.  PipeWire's stop closes the pool before the loop is joined.     *)
StopSource ==
  /\ At("stop")
  /\ pool' = Stopped(pool, cmd.state)
  /\ cmd' = [cmd EXCEPT !.at = IF cmd.started \/ pw.active THEN "flags" ELSE "close",
                        !.var = NoLocals]
  /\ UNCHANGED <<job, lease, linuxVars, file>>

StopStream ==
  /\ cmd.at \in {"flags", "leave", "join"}
  /\ \/ At("flags") /\ DestroyFlags /\ Goto("leave")
     \/ At("leave") /\ DestroyLeave /\ Goto("join")
     \/ At("join") /\ DestroyJoin /\ cmd' = [cmd EXCEPT !.at = "close", !.started = FALSE]
  /\ UNCHANGED file

ClosePortal ==
  /\ At("close")
  /\ portal' = PortalClosed(portal)
  /\ desktop' = [DesktopClosed(portal) EXCEPT !.signals = {}]
  /\ Goto("finalize")
  /\ UNCHANGED <<poolVars, pw, file>>

(* The recorder is finalized and the recording inspected. *)
Finalize ==
  /\ At("finalize")
  /\ file' = [file EXCEPT !.state = IF @ = "recording" THEN "finalized" ELSE @]
  /\ Goto("destroyed")
  /\ UNCHANGED <<poolVars, linuxVars>>

(* The frame source's destructor: grant, stream, pool, portal client. *)
DestroySource ==
  /\ At("destroyed") /\ ~pw.loop
  /\ portal' = [CloseSession(portal) EXCEPT !.grant = FALSE, !.bus = FALSE]
  /\ desktop' = [DesktopClosed(portal) EXCEPT !.signals = {}]
  /\ Goto("done")
  /\ UNCHANGED <<poolVars, pw, file>>

-----------------------------------------------------------------------------
CommandStep ==
  \/ SelectWindow \/ OpenRecorder \/ StartCapture \/ WaitForStream \/ LoopStops
  \/ PollSource \/ TakeFrame \/ RefuseFrame \/ EncodeFrame \/ StopSource \/ StopStream \/ ClosePortal
  \/ Finalize \/ DestroySource

(* Timestamps are monotonic unless the clock fails, which reads 0. *)
Newest == Max({0, cmd.var.first + cmd.var.slot} \cup {pool.slot[i].frame.time : i \in 1..CapSlots})
FrameTimes == {0} \cup {t \in {Newest, Newest + 1} : t <= RecMaxTime + 1}

LoopStep == Process(FrameTimes) /\ UNCHANGED <<cmd, file>>
FailStep == FailStops /\ UNCHANGED <<cmd, file>>

OutsideStep ==
  \/ StreamReports /\ UNCHANGED <<cmd, file>>
  \/ ProcessUnformatted /\ UNCHANGED <<cmd, file>>
  \/ (DesktopRevokes \/ BusCloses) /\ ~At("done") /\ UNCHANGED <<poolVars, cmd, file>>

RecNext == CommandStep \/ LoopStep \/ FailStep \/ OutsideStep

(* Both threads run; a callback that has begun returns. *)
RecFairness ==
  /\ WF_recVars(CommandStep)
  /\ WF_recVars((LoopStep /\ job.at # "idle") \/ FailStep)

RecSpec == CommandInit /\ [][RecNext]_recVars

-----------------------------------------------------------------------------
RecTypeOK ==
  /\ LinuxTypeOK
  /\ cmd.started \in BOOLEAN /\ cmd.var.force \in BOOLEAN
  /\ file.state \in {"none", "recording", "finalized"}

(* The recording plays: within a dependency epoch every unit shows one     *)
(* geometry, its first unit is an IDR even if the encoder skipped the      *)
(* frame the epoch began with, and the frames come in capture order.       *)
RecordedChain ==
  [][LET old == file.last
         new == file'.last
     IN  new # old =>
           /\ new.epoch # old.epoch => new.idr
           /\ new.epoch = old.epoch => new.geometry = old.geometry
           /\ new.frame > old.frame /\ new.epoch >= old.epoch]_file

(* A command that has returned holds nothing, whichever way it ended: the  *)
(* loop thread is gone, the PipeWire descriptor and the grant are closed,  *)
(* no frame is leased, and the portal session it was given is closed.  (A  *)
(* session whose creation was answered too late or without its handle is   *)
(* an orphan the program cannot name.)                                     *)
NothingHeld ==
  At("done") =>
    /\ ~pw.loop /\ ~pw.fd /\ ~portal.grant /\ ~portal.session
    /\ lease = NoLease /\ job = NoJob
    /\ desktop.session # "open"

(* A captured frame has one holder at a time, and nobody leaves anything   *)
(* behind: a leased slot is neither overwritten nor handed out again, and  *)
(* a command that has returned holds no frame, thread, descriptor or       *)
(* portal session.                                                         *)
CaptureSafe == RecTypeOK /\ LeaseHolds /\ NothingHeld

(* The command ends: once it stops, and after the desktop revoked the      *)
(* session or the stream failed, whatever the loop thread is in the middle *)
(* of.                                                                     *)
RecordEnds ==
  (At("stop") \/ ~pool.open \/ "revoked" \in desktop.signals) ~> At("done")
=============================================================================
