--------------------------- MODULE ControlSession ---------------------------
(***************************************************************************)
(* SenderControlProtocol of src/transport/control_protocol.cpp against the *)
(* browser's end of the channel in receiver/v1-receiver.js, over one       *)
(* reliable ordered data channel per direction.                            *)
(*                                                                         *)
(* A message is its number, its type and what it refers to.  The times of  *)
(* clock requests and statistics are left out but for the two conditions   *)
(* they enter: whether a request is due, and whether the receiver keeps    *)
(* within its rate and its counters do not regress.                        *)
(***************************************************************************)
EXTENDS Naturals, Sequences, FiniteSets

CONSTANTS CtlBurst,      \* kInitialClockRequestCount
          CtlMaxClocks,  \* kMaximumOutstandingClockRequests
          CtlMaxSend,    \* bound on send_sequence_
          CtlMaxUp       \* bound on the receiver's messages

ASSUME CtlAssumption == {CtlBurst, CtlMaxClocks, CtlMaxSend, CtlMaxUp} \subseteq Nat \ {0}

VARIABLES
  ctl,   \* [phase, send, recv, media, pending, clocks, asked]
  rcv,   \* the browser: [recv, sent, paused, ended, confused]
  down,  \* messages on their way to the receiver
  up     \* messages on their way to the sender

ctlVars == <<ctl, rcv, down, up>>

CtlPhases == {"idle", "connected", "pause_pending", "paused", "resume_pending",
              "end_pending", "ended", "failed"}

CtlActive(c) == c.phase \notin {"idle", "ended", "failed"}

CtlTypeOK ==
  /\ ctl.phase \in CtlPhases
  /\ ctl.send \in 0 .. CtlMaxSend /\ ctl.recv \in 0 .. CtlMaxUp /\ ctl.media \in Nat
  /\ ctl.pending \in 0 .. CtlMaxSend /\ ctl.clocks \subseteq 1 .. CtlMaxSend
  /\ ctl.asked \in 0 .. CtlBurst
  /\ rcv.recv \in 0 .. CtlMaxSend /\ rcv.sent \in 0 .. CtlMaxUp
  /\ {rcv.paused, rcv.ended, rcv.confused} \subseteq BOOLEAN
  /\ Len(down) <= CtlMaxSend /\ Len(up) <= CtlMaxUp

CtlInit ==
  /\ ctl = [phase |-> "idle", send |-> 0, recv |-> 0, media |-> 0, pending |-> 0,
            clocks |-> {}, asked |-> 0]
  /\ rcv = [recv |-> 0, sent |-> 0, paused |-> FALSE, ended |-> FALSE, confused |-> FALSE]
  /\ down = << >> /\ up = << >>

-----------------------------------------------------------------------------
(* An operation yields the protocol's state and an output: the messages to *)
(* send, the event raised ("none" without one), whether the operation was  *)
(* valid and whether the channel is to close.                              *)
Result(c, messages, event, valid, close) ==
  [c |-> c, messages |-> messages, event |-> event, valid |-> valid, close |-> close]

ClearPending(c) == [c EXCEPT !.pending = 0, !.clocks = {}]

CtlFail(c) ==
  IF c.phase \in {"failed", "ended"} THEN Result(c, << >>, "none", FALSE, FALSE)
  ELSE Result(ClearPending([c EXCEPT !.phase = "failed"]), << >>, "terminal", FALSE, TRUE)

(* message(): the next number, for a message of that type. *)
CtlMessage(c, type, ref) == [seq |-> c.send + 1, type |-> type, ref |-> ref]

CtlSend(c, type, ref) ==
  Result([c EXCEPT !.send = c.send + 1], <<CtlMessage(c, type, ref)>>, "none", TRUE, FALSE)

CtlBegin(c, media) ==
  IF c.phase # "idle" THEN CtlFail(c)
  ELSE CtlSend([c EXCEPT !.phase = "connected", !.media = media], "HELLO", media)

RequestClock(c, due) ==
  IF c.phase # "connected" THEN CtlFail(c)
  ELSE IF c.asked >= CtlBurst /\ ~due THEN Result(c, << >>, "none", TRUE, FALSE)
  ELSE IF Cardinality(c.clocks) >= CtlMaxClocks THEN CtlFail(c)
  ELSE CtlSend([c EXCEPT !.clocks = c.clocks \cup {c.send + 1},
                         !.asked = IF c.asked < CtlBurst THEN c.asked + 1 ELSE CtlBurst],
               "CLOCK_REQUEST", 0)

(* A transition is pending under the number of the message that asks for it. *)
Transition(c, phase, type, media) ==
  CtlSend([c EXCEPT !.phase = phase, !.pending = c.send + 1, !.media = media], type, media)

Pause(c) ==
  IF c.phase # "connected" THEN CtlFail(c)
  ELSE Transition(c, "pause_pending", "SESSION_PAUSED", c.media)

Resume(c, media) ==
  IF c.phase # "paused" \/ media <= c.media THEN CtlFail(c)
  ELSE Transition(c, "resume_pending", "SESSION_RESUMED", media)

End(c) ==
  IF ~CtlActive(c) THEN CtlFail(c)
  ELSE Transition(c, "end_pending", "SESSION_ENDED", c.media)

ProtocolError(c) ==
  IF ~CtlActive(c) THEN CtlFail(c)
  ELSE Result(ClearPending([c EXCEPT !.phase = "failed", !.send = c.send + 1]),
              <<CtlMessage(c, "PROTOCOL_ERROR", 0)>>, "terminal", TRUE, TRUE)

(* The messages a receiver sends: [type, ref], in order and well formed;   *)
(* BAD stands for one that is not, that exceeds the rate or that regresses.*)
Counted(r) == [r EXCEPT !.c.recv = @ + 1]

ReceiveClockResponse(c, ref) ==
  IF ref \notin c.clocks THEN CtlFail(c)
  ELSE Counted(Result([c EXCEPT !.clocks = @ \ {ref}], << >>, "clock_response", TRUE, FALSE))

ReceiveStats(c) ==
  IF c.phase # "connected" THEN CtlFail(c)
  ELSE Counted(Result(c, << >>, "receiver_stats", TRUE, FALSE))

AckMoves ==
  [SESSION_PAUSED_ACK |-> [in |-> "pause_pending", to |-> "paused"],
   SESSION_RESUMED_ACK |-> [in |-> "resume_pending", to |-> "connected"],
   SESSION_ENDED_ACK |-> [in |-> "end_pending", to |-> "ended"]]

(* Mutant: any acknowledgement completes the pending transition. *)
ReceiveAnyAck(c, type, ref) ==
  IF c.pending = 0 THEN CtlFail(c)
  ELSE LET done == [c EXCEPT !.pending = 0,
                      !.phase = CASE c.phase = "pause_pending" -> "paused"
                                  [] c.phase = "resume_pending" -> "connected"
                                  [] c.phase = "end_pending" -> "ended"]
       IN  Counted(Result(done, << >>, "acknowledged", TRUE, done.phase = "ended"))

ReceiveAck(c, type, ref) ==
  LET move == AckMoves[type]
      done == [c EXCEPT !.phase = move.to, !.pending = 0,
                        !.clocks = IF move.to = "ended" THEN {} ELSE @]
  IN  IF ref # c.pending \/ c.phase # move.in THEN CtlFail(c)
      ELSE Counted(Result(done, << >>, "acknowledged", TRUE, move.to = "ended"))

ReceiveError(c) ==
  Counted(Result(ClearPending([c EXCEPT !.phase = "failed"]), << >>, "protocol_error",
                 TRUE, TRUE))

CtlReceive(c, m) ==
  IF ~CtlActive(c) \/ m.type = "BAD" THEN CtlFail(c)
  ELSE CASE m.type = "CLOCK_RESPONSE" -> ReceiveClockResponse(c, m.ref)
         [] m.type = "RECEIVER_STATS" -> ReceiveStats(c)
         [] m.type \in DOMAIN AckMoves -> ReceiveAck(c, m.type, m.ref)
         [] m.type = "PROTOCOL_ERROR" -> ReceiveError(c)

ChannelClosed(c) ==
  IF c.phase \in {"ended", "failed"} THEN Result(c, << >>, "none", TRUE, FALSE) ELSE CtlFail(c)

-----------------------------------------------------------------------------
(* handleControlMessage and sendControl of the receiver: a message out of  *)
(* order ends the page's session.                                          *)
Reply ==
  [CLOCK_REQUEST |-> "CLOCK_RESPONSE", SESSION_PAUSED |-> "SESSION_PAUSED_ACK",
   SESSION_RESUMED |-> "SESSION_RESUMED_ACK", SESSION_ENDED |-> "SESSION_ENDED_ACK"]

HandleControlMessage(r, m) ==
  IF m.seq # r.recv + 1 THEN [r EXCEPT !.ended = TRUE, !.confused = TRUE]
  ELSE [r EXCEPT !.recv = m.seq,
                 !.sent = IF m.type \in DOMAIN Reply THEN @ + 1 ELSE @,
                 !.paused = CASE m.type = "SESSION_PAUSED" -> TRUE
                              [] m.type = "SESSION_RESUMED" -> FALSE
                              [] OTHER -> @,
                 !.ended = m.type \in {"SESSION_ENDED", "PROTOCOL_ERROR"}]

Replies(r, m) ==
  IF m.seq = r.recv + 1 /\ m.type \in DOMAIN Reply
  THEN <<[type |-> Reply[m.type], ref |-> m.seq]>> ELSE << >>

ReceiverHandles ==
  /\ down # << >> /\ rcv.sent < CtlMaxUp
  /\ down' = Tail(down)
  /\ IF rcv.ended THEN UNCHANGED <<rcv, up>>
     ELSE /\ rcv' = HandleControlMessage(rcv, Head(down))
          /\ up' = up \o Replies(rcv, Head(down))
  /\ UNCHANGED ctl

(* sendReceiverStats, whose await lets it send after a pause; a receiver   *)
(* that sends too much or something else (BAD); one that leaves.           *)
ReceiverSends ==
  /\ ~rcv.ended /\ rcv.recv > 0 /\ rcv.sent < CtlMaxUp
  /\ \E type \in {"RECEIVER_STATS", "BAD"} : up' = Append(up, [type |-> type, ref |-> 0])
  /\ rcv' = [rcv EXCEPT !.sent = @ + 1]
  /\ UNCHANGED <<ctl, down>>

ReceiverLeaves ==
  /\ ~rcv.ended
  /\ rcv' = [rcv EXCEPT !.ended = TRUE]
  /\ UNCHANGED <<ctl, down, up>>

-----------------------------------------------------------------------------
(* The protocol driven by one caller, that sends each output at once. *)
Drive(r) ==
  /\ ctl' = r.c
  /\ down' = down \o r.messages
  /\ UNCHANGED <<rcv, up>>

Able == ctl.send < CtlMaxSend

DriveBegin == Able /\ ctl.phase = "idle" /\ Drive(CtlBegin(ctl, 1))
DriveClock == Able /\ ctl.phase = "connected" /\ \E due \in BOOLEAN : Drive(RequestClock(ctl, due))
DrivePause == Able /\ CtlActive(ctl) /\ Drive(Pause(ctl))
DriveResume == Able /\ CtlActive(ctl) /\ Drive(Resume(ctl, ctl.media + 1))
DriveEnd == Able /\ CtlActive(ctl) /\ Drive(End(ctl))
DriveError == Able /\ CtlActive(ctl) /\ Drive(ProtocolError(ctl))

DriveReceive ==
  /\ up # << >>
  /\ ctl' = CtlReceive(ctl, Head(up)).c
  /\ up' = Tail(up)
  /\ UNCHANGED <<rcv, down>>

DriveClosed ==
  /\ rcv.ended /\ up = << >> /\ CtlActive(ctl)
  /\ Drive(ChannelClosed(ctl))

CtlNext ==
  \/ DriveBegin \/ DriveClock \/ DrivePause \/ DriveResume \/ DriveEnd \/ DriveError
  \/ DriveReceive \/ DriveClosed
  \/ ReceiverHandles \/ ReceiverSends \/ ReceiverLeaves

CtlSpec == CtlInit /\ [][CtlNext]_ctlVars

-----------------------------------------------------------------------------
(* The two ends agree whatever crosses on the channel: a sender that is    *)
(* paused has a receiver that shows nothing, one that is connected a       *)
(* receiver that is not paused, and one that ended cleanly a receiver that *)
(* took the end, as the last message the sender sent.                      *)
ControlAgrees ==
  /\ CtlTypeOK
  /\ ctl.phase = "paused" => rcv.paused
  /\ ctl.phase = "connected" => ~rcv.paused
  /\ ctl.phase = "ended" => rcv.ended /\ rcv.recv = ctl.send
=============================================================================
