---------------------------- MODULE LinuxCapture ----------------------------
(***************************************************************************)
(* The Linux capture source: the desktop portal's window selection         *)
(* (capture/linux_capture_gdbus.cpp, with the PortalSelectionStateMachine  *)
(* of capture/capture.cpp), the PipeWire stream and its loop thread        *)
(* (capture/linux_capture_pipewire.cpp).  The portal, the bus and PipeWire *)
(* are external: they answer, refuse, fall silent, revoke and disconnect   *)
(* whenever they like.                                                     *)
(***************************************************************************)
EXTENDS CapturePool

VARIABLES portal,   \* LinuxPortalClient::Implementation
          desktop,  \* the portal's session and the signals not yet dispatched
          pw        \* LinuxPipeWireCapture::Implementation and the descriptor

linuxVars == <<portal, desktop, pw>>

PortalInit ==
  portal = [life |-> "idle", bus |-> FALSE, session |-> FALSE, subscribed |-> FALSE,
            terminal |-> "none", grant |-> FALSE]

DesktopInit == desktop = [session |-> "none", signals |-> {}]

NoStream == [loop |-> FALSE, leaving |-> FALSE, active |-> FALSE, stopping |-> FALSE,
             format |-> FALSE, failing |-> FALSE, fd |-> FALSE]

PwInit == pw = NoStream

-----------------------------------------------------------------------------
(* The lifecycle: what a request's acceptance does to it, and its ends. *)
LifeStep == [create |-> [from |-> "idle", to |-> "creating_session"],
             select |-> [from |-> "creating_session", to |-> "selecting_sources"],
             start  |-> [from |-> "selecting_sources", to |-> "starting"],
             remote |-> [from |-> "starting", to |-> "streaming"]]

Accepted(p, stage) ==
  IF p.life = LifeStep[stage].from THEN [p EXCEPT !.life = LifeStep[stage].to] ELSE p

LifeCancel(p) ==
  IF p.life \in TerminalStates \cup {"streaming"} THEN p ELSE [p EXCEPT !.life = "cancelled"]

LifeClose(p, state) ==
  IF p.life \in TerminalStates THEN p ELSE [p EXCEPT !.life = state]

(* Mutant: a session whose selection did not get as far as streaming is    *)
(* left to the portal.                                                     *)
CloseSessionStreaming(p) ==
  IF p.bus /\ p.session /\ p.life = "streaming"
    THEN [p EXCEPT !.session = FALSE, !.subscribed = FALSE]
    ELSE p

CloseSession(p) ==
  IF p.bus /\ p.session THEN [p EXCEPT !.session = FALSE, !.subscribed = FALSE] ELSE p

DesktopClosed(p) ==
  IF p.bus /\ p.session /\ desktop.session = "open"
    THEN [desktop EXCEPT !.session = "closed", !.signals = @ \ {"revoked"}]
    ELSE desktop

(* Iterating the main context dispatches what the bus has delivered: the   *)
(* last signal dispatched is the one remembered.                           *)
Dispatched(p, d) ==
  IF d.signals = {} THEN {p} ELSE {[p EXCEPT !.terminal = s] : s \in d.signals}

(* open_window: the bus and the capabilities come first; then each of the  *)
(* three requests is sent, accepted and waited for.  An answer is a        *)
(* success, a cancellation, a refusal, or none before the deadline or the  *)
(* session's end; the call itself may fail.                                *)
Answers == {"granted", "cancelled", "rejected", "silent", "failed"}

ConnectBus ==
  /\ portal.life = "idle"
  /\ portal' = [portal EXCEPT !.bus = TRUE]
  /\ UNCHANGED <<desktop, pw>>

Unanswered(p, stage, answer) ==
  LET ended == IF answer = "cancelled" THEN LifeCancel(p) ELSE p
  IN  IF stage = "create" THEN ended ELSE CloseSession(ended)

(* A request that is not granted ends the selection. *)
RequestFails(stage, answer) ==
  /\ answer # "granted"
  /\ \E p \in (IF answer = "silent" THEN Dispatched(portal, desktop) ELSE {portal}) :
       LET q == IF answer = "failed" THEN p ELSE Accepted(p, stage)
       IN  /\ portal' = Unanswered(q, stage, answer)
           /\ \/ desktop' = (IF stage = "create" THEN desktop ELSE DesktopClosed(q))
              \/ \* the session was created, the answer came too late
                 /\ stage = "create" /\ answer = "silent"
                 /\ desktop' = [desktop EXCEPT !.session = "orphan"]
  /\ UNCHANGED pw

(* CreateSession's answer carries the session, unless it is malformed. *)
CreateGranted ==
  /\ portal' = [Accepted(portal, "create") EXCEPT !.session = TRUE, !.subscribed = TRUE]
  /\ desktop' = [desktop EXCEPT !.session = "open"]
  /\ UNCHANGED pw

CreateMalformed ==
  /\ portal' = LifeClose(Accepted(portal, "create"), "closed")
  /\ desktop' = [desktop EXCEPT !.session = "orphan"]
  /\ UNCHANGED pw

RequestGranted(stage) ==
  /\ portal' = Accepted(portal, stage)
  /\ UNCHANGED <<desktop, pw>>

(* Start's answer must name one stream with a node; the PipeWire remote    *)
(* must then open.                                                         *)
StartMalformed ==
  /\ portal' = CloseSession(LifeClose(portal, "closed"))
  /\ desktop' = DesktopClosed(portal)
  /\ UNCHANGED pw

StartWithoutNode ==
  /\ portal' = CloseSession(portal)
  /\ desktop' = DesktopClosed(portal)
  /\ UNCHANGED pw

RemoteFails ==
  /\ portal' = CloseSession(LifeClose(Accepted(portal, "remote"), "closed"))
  /\ desktop' = DesktopClosed(portal)
  /\ UNCHANGED pw

RemoteOpens ==
  /\ portal' = [Accepted(portal, "remote") EXCEPT !.grant = TRUE]
  /\ UNCHANGED <<desktop, pw>>

(* poll_terminal: the remembered end closes the lifecycle and the session. *)
Polled(p) ==
  IF p.terminal = "none" THEN p
  ELSE CloseSession(LifeClose([p EXCEPT !.terminal = "none"], p.terminal))

(* close, and the grant's own descriptor. *)
PortalClosed(p) ==
  LET q == IF p.life = "idle" THEN p ELSE LifeClose(p, "closed")
  IN  [CloseSession(q) EXCEPT !.terminal = "none", !.grant = FALSE]

(* The desktop ends the session, or the bus goes away. *)
DesktopRevokes ==
  /\ desktop.session = "open"
  /\ desktop' = [desktop EXCEPT !.session = "closed",
                   !.signals = IF portal.subscribed THEN @ \cup {"revoked"} ELSE @]
  /\ UNCHANGED <<portal, pw>>

BusCloses ==
  /\ portal.bus /\ desktop.session # "gone"
  /\ desktop' = [session |-> "gone", signals |-> desktop.signals \cup {"disconnected"}]
  /\ UNCHANGED <<portal, pw>>

-----------------------------------------------------------------------------
(* PipeWire: start takes the grant's descriptor; every failure destroys    *)
(* what was built, the descriptor included.                                *)
PwStart ==
  /\ portal.grant
  /\ portal' = [portal EXCEPT !.grant = FALSE]
  /\ pw' \in {[NoStream EXCEPT !.loop = TRUE, !.fd = TRUE], [NoStream EXCEPT !.stopping = TRUE]}
  /\ UNCHANGED desktop

(* Between two callbacks, with a next one to come. *)
LoopIdle == pw.loop /\ ~pw.leaving /\ job.at = "idle" /\ ~pw.failing

(* state_changed and parameter_changed. *)
StreamReports ==
  /\ LoopIdle
  /\ pw' \in {[pw EXCEPT !.active = TRUE],
              [pw EXCEPT !.format = TRUE],
              [pw EXCEPT !.active = FALSE, !.failing = TRUE],
              [pw EXCEPT !.active = FALSE, !.failing = TRUE, !.format = FALSE]}
  /\ UNCHANGED <<poolVars, portal, desktop>>

(* fail clears active first; the pool ends unless the stop is under way. *)
FailStops ==
  /\ pw.failing
  /\ pw' = [pw EXCEPT !.failing = FALSE]
  /\ pool' = (IF pw.stopping THEN pool ELSE Stopped(pool, "disconnected"))
  /\ UNCHANGED <<job, lease, portal, desktop>>

(* process: before a format is known the buffer goes straight back, and if *)
(* PipeWire does not take it the stream has failed.                        *)
ProcessUnformatted ==
  /\ LoopIdle /\ ~pw.format
  /\ pw' = [pw EXCEPT !.active = FALSE, !.failing = TRUE]
  /\ UNCHANGED <<poolVars, portal, desktop>>

Process(times) ==
  /\ pw.loop
  /\ \/ LoopIdle /\ pw.format /\ \E same \in BOOLEAN, t \in times : IngestReserve(same, t)
     \/ LoopIdle /\ pw.format /\ IngestInvalid
     \/ \E whole \in BOOLEAN : IngestCopy(whole)
     \/ IngestRejected
     \/ IngestComplete
  /\ UNCHANGED linuxVars

(* destroy: the flags; then the loop is told to leave and joined, which    *)
(* lets the callback it is in finish; then everything goes.                *)
DestroyFlags ==
  /\ pw' = [pw EXCEPT !.stopping = TRUE, !.active = FALSE]
  /\ UNCHANGED <<poolVars, portal, desktop>>

DestroyLeave ==
  /\ pw' = [pw EXCEPT !.leaving = TRUE]
  /\ UNCHANGED <<poolVars, portal, desktop>>

(* Mutant: the join first waits for the stream to stop being active. *)
DestroyJoinInactive ==
  /\ job.at = "idle" /\ ~pw.failing /\ ~pw.active
  /\ pw' = [pw EXCEPT !.loop = FALSE, !.leaving = FALSE, !.fd = FALSE, !.format = FALSE]
  /\ UNCHANGED <<poolVars, portal, desktop>>

DestroyJoin ==
  /\ job.at = "idle" /\ ~pw.failing
  /\ pw' = [pw EXCEPT !.loop = FALSE, !.leaving = FALSE, !.fd = FALSE, !.format = FALSE]
  /\ UNCHANGED <<poolVars, portal, desktop>>

-----------------------------------------------------------------------------
LinuxTypeOK ==
  /\ PoolTypeOK
  /\ portal.life \in TerminalStates \cup {"idle", "streaming", "creating_session",
                                          "selecting_sources", "starting"}
  /\ portal.terminal \in {"none", "revoked", "disconnected"}
  /\ desktop.session \in {"none", "open", "closed", "gone", "orphan"}
  /\ desktop.signals \subseteq {"revoked", "disconnected"}
  /\ pw \in [DOMAIN NoStream -> BOOLEAN]
=============================================================================
