--------------------------- MODULE OwnerSignaling ---------------------------
(***************************************************************************)
(* OwnerSignalingProtocol and OwnerSignalingClient of src/transport/       *)
(* owner_signaling.cpp: the owner's end of the signaling protocol.         *)
(*                                                                         *)
(* Four threads call the client: the websocket's callbacks ("net"), the    *)
(* peer connection's callbacks ("peer"), the share's loop ("app") and the  *)
(* watchdog ("watch").  Each runs the protocol under the mutex and applies *)
(* its output after the unlock: the messages one by one, then the events   *)
(* under the mutex again, then the close.  A message is its number, or     *)
(* what the server says (its type, and whether it is in order and well     *)
(* formed); SDP, candidates and URLs are left out.                         *)
(***************************************************************************)
EXTENDS Naturals, Sequences, FiniteSets, SequencesExt

CONSTANTS OwnMaxEvents,  \* kMaximumPendingEvents
          OwnTimeout,    \* kOwnerLivenessTimeout, in steps of the clock
          OwnMaxClient,  \* bound on client_sequence_
          OwnAutoJoin    \* automatically_create_join

ASSUME OwnAssumption ==
  /\ {OwnMaxEvents, OwnTimeout, OwnMaxClient} \subseteq Nat \ {0}
  /\ OwnAutoJoin \in BOOLEAN

VARIABLES
  proto,      \* [phase, cap, client]: the protocol, whether it holds the
              \* owner capability, and client_sequence_
  output,     \* what each thread has still to apply
  events,     \* the events not yet taken by the share
  socket,     \* the websocket: "new", "connecting", "open", "closed"
  transportOpen,
  silence,    \* time since last_server_activity
  shutdown,
  wire,       \* history: the numbers put on the websocket
  ends,       \* history: terminal events queued
  stops,      \* history: calls of stop
  overflowed  \* history: whether the event queue overflowed

ownVars == <<proto, output, events, socket, transportOpen, silence, shutdown,
             wire, ends, stops, overflowed>>

OwnThreads == {"net", "peer", "app", "watch"}

Ended == {"failed", "revoked", "expired", "stopped"}

ActivePhases == {"creating", "owner_only", "join_pending", "join_open",
                 "join_reserved", "negotiating", "connected",
                 "restart_negotiating"}

OwnEventKinds == {"session_created", "join_created", "receiver_reserved",
                  "receiver_offer", "receiver_restart_offer",
                  "receiver_candidate", "receiver_disconnected", "terminal"}

Output(messages, reports, close) ==
  [messages |-> messages, events |-> reports, close |-> close, overflow |-> FALSE]

Nothing == Output(<< >>, << >>, FALSE)

OwnTypeOK ==
  /\ proto \in [phase : {"idle"} \cup ActivePhases \cup Ended, cap : BOOLEAN,
                client : 0 .. OwnMaxClient]
  /\ DOMAIN output = OwnThreads
  /\ events \in Seq(OwnEventKinds) /\ Len(events) <= OwnMaxEvents
  /\ socket \in {"new", "connecting", "open", "closed"}
  /\ {transportOpen, shutdown, overflowed} \subseteq BOOLEAN
  /\ silence \in 0 .. OwnTimeout
  /\ wire \in Seq(1 .. OwnMaxClient)

OwnInit ==
  /\ proto = [phase |-> "idle", cap |-> FALSE, client |-> 0]
  /\ output = [t \in OwnThreads |-> Nothing]
  /\ events = << >> /\ wire = << >> /\ socket = "new"
  /\ transportOpen = FALSE /\ shutdown = FALSE /\ overflowed = FALSE
  /\ silence = 0 /\ ends = 0 /\ stops = 0

-----------------------------------------------------------------------------
(* OwnerSignalingProtocol: an operation takes the protocol's state to the  *)
(* next one and an output.                                                 *)
Active(p) == p.phase \in ActivePhases

(* Mutant: a failure that reports an ended session once more. *)
FailAgain(p) ==
  [p |-> [p EXCEPT !.phase = "failed", !.cap = FALSE],
   out |-> Output(<< >>, <<"terminal">>, TRUE)]

Fail(p) ==
  IF p.phase \in Ended THEN [p |-> p, out |-> Nothing]
  ELSE [p |-> [p EXCEPT !.phase = "failed", !.cap = FALSE],
        out |-> Output(<< >>, <<"terminal">>, TRUE)]

TransportFailed(p) == IF Active(p) THEN Fail(p) ELSE [p |-> p, out |-> Nothing]

(* authenticated_message, in a phase where the capability is held. *)
AuthenticatedMessage(p, next) ==
  IF ~p.cap THEN Fail(p)
  ELSE [p |-> [p EXCEPT !.client = p.client + 1, !.phase = next],
        out |-> Output(<<p.client + 1>>, << >>, FALSE)]

Begin(p) ==
  IF p.phase # "idle" THEN Fail(p)
  ELSE [p |-> [p EXCEPT !.phase = "creating", !.client = 1],
        out |-> Output(<<1>>, << >>, FALSE)]

CreateJoin(p) ==
  IF p.phase # "owner_only" THEN Fail(p) ELSE AuthenticatedMessage(p, "join_pending")

SendAnswer(p, restart) ==
  IF p.phase # IF restart THEN "restart_negotiating" ELSE "negotiating" THEN Fail(p)
  ELSE AuthenticatedMessage(p, "connected")

Negotiated == {"negotiating", "connected", "restart_negotiating"}

SendCandidate(p) ==
  IF p.phase \notin Negotiated THEN Fail(p) ELSE AuthenticatedMessage(p, p.phase)

Stop(p) ==
  LET notice == IF Active(p) /\ p.cap THEN AuthenticatedMessage(p, "stopped")
                ELSE [p |-> p, out |-> Nothing]
  IN  [p |-> [notice.p EXCEPT !.cap = FALSE, !.phase = "stopped"],
       out |-> Output(notice.out.messages, <<"terminal">>, TRUE)]

(* What the server may say: the phases that accept it, the phase after it  *)
(* and the event it raises.  In "creating" the session has no identifier   *)
(* yet, and everything but SESSION_CREATED is a session mismatch.          *)
Reception ==
  [SESSION_CREATED |-> [in |-> {"creating"}, to |-> "owner_only", event |-> "session_created"],
   JOIN_CREATED |-> [in |-> {"join_pending"}, to |-> "join_open", event |-> "join_created"],
   RECEIVER_RESERVED |-> [in |-> {"join_open"}, to |-> "join_reserved",
                          event |-> "receiver_reserved"],
   RECEIVER_OFFER |-> [in |-> {"join_reserved"}, to |-> "negotiating",
                       event |-> "receiver_offer"],
   RECEIVER_ICE_RESTART_OFFER |-> [in |-> {"connected"}, to |-> "restart_negotiating",
                                   event |-> "receiver_restart_offer"],
   RECEIVER_DISCONNECTED |-> [in |-> {"join_reserved"} \cup Negotiated,
                              to |-> "owner_only", event |-> "receiver_disconnected"]]

(* SESSION_CREATED also brings the capability and may ask for a join. *)
ReceiveProgress(p, type) ==
  LET rule == Reception[type]
      q == [p EXCEPT !.phase = rule.to, !.cap = @ \/ type = "SESSION_CREATED"]
      join == CreateJoin(q)
  IN  IF p.phase \notin rule.in THEN Fail(p)
      ELSE IF type = "SESSION_CREATED" /\ OwnAutoJoin
      THEN [join EXCEPT !.out.events = <<rule.event>> \o @]
      ELSE [p |-> q, out |-> Output(<< >>, <<rule.event>>, FALSE)]

ReceiveCandidate(p) ==
  IF p.phase \notin Negotiated THEN Fail(p)
  ELSE [p |-> p, out |-> Output(<< >>, <<"receiver_candidate">>, FALSE)]

ReceiveHeartbeat(p) ==
  IF p.phase = "creating" THEN Fail(p)
  ELSE [p |-> [p EXCEPT !.client = p.client + 1],
        out |-> Output(<<p.client + 1>>, << >>, FALSE)]

ReceiveTerminal(p, phase) ==
  IF p.phase = "creating" THEN Fail(p)
  ELSE [p |-> [p EXCEPT !.phase = phase, !.cap = FALSE],
        out |-> Output(<< >>, <<"terminal">>, TRUE)]

ServerMessages == DOMAIN Reception \cup
  {"RECEIVER_ICE_CANDIDATE", "HEARTBEAT", "SESSION_REVOKED", "SESSION_EXPIRED", "MALFORMED"}

Receive(p, type) ==
  IF ~Active(p) \/ type = "MALFORMED" THEN Fail(p)
  ELSE CASE type \in DOMAIN Reception -> ReceiveProgress(p, type)
         [] type = "RECEIVER_ICE_CANDIDATE" -> ReceiveCandidate(p)
         [] type = "HEARTBEAT" -> ReceiveHeartbeat(p)
         [] type = "SESSION_REVOKED" -> ReceiveTerminal(p, "revoked")
         [] type = "SESSION_EXPIRED" -> ReceiveTerminal(p, "expired")

Valid(p, r) == r.p.phase # "failed" /\ ~(p.phase \in Ended)

-----------------------------------------------------------------------------
(* OwnerSignalingClient. *)
Idle(t) == output[t] = Nothing

Free(t) == Idle(t) /\ ~shutdown

(* One operation of the protocol under the mutex. *)
Run(t, r) == proto' = r.p /\ output' = [output EXCEPT ![t] = r.out]

Room == proto.client < OwnMaxClient

Start ==
  /\ socket = "new" /\ Free("app") /\ socket' = "connecting"
  /\ UNCHANGED <<proto, output, events, transportOpen, silence, shutdown, wire, ends,
                 stops, overflowed>>

Opened ==
  /\ Free("net") /\ socket = "connecting"
  /\ socket' = "open" /\ transportOpen' = TRUE /\ silence' = 0
  /\ Run("net", Begin(proto))
  /\ UNCHANGED <<events, shutdown, wire, ends, stops, overflowed>>

Received(type) ==
  LET r == Receive(proto, type)
  IN  /\ Free("net") /\ socket = "open" /\ Room
      /\ Run("net", r)
      /\ silence' = IF Valid(proto, r) THEN 0 ELSE silence
      /\ UNCHANGED <<events, socket, transportOpen, shutdown, wire, ends, stops, overflowed>>

(* onClosed, and onError and a binary message, which leave the socket to   *)
(* the close that the failure asks for.                                    *)
ClosedOrFailed ==
  /\ Free("net") /\ socket \in {"connecting", "open"}
  /\ socket' \in {"closed", socket}
  /\ transportOpen' = FALSE
  /\ Run("net", TransportFailed(proto))
  /\ UNCHANGED <<events, silence, shutdown, wire, ends, stops, overflowed>>

Call(t, r) ==
  /\ Free(t) /\ Room
  /\ Run(t, r)
  /\ UNCHANGED <<events, socket, transportOpen, silence, shutdown, wire, ends, overflowed>>

AppCreatesJoin == Call("app", CreateJoin(proto)) /\ socket # "new" /\ UNCHANGED stops

PeerAnswers == \E restart \in BOOLEAN :
  Call("peer", SendAnswer(proto, restart)) /\ proto.phase # "idle" /\ UNCHANGED stops

PeerCandidate ==
  Call("peer", SendCandidate(proto)) /\ proto.phase # "idle" /\ UNCHANGED stops

AppStops == Call("app", Stop(proto)) /\ stops = 0 /\ stops' = 1

(* apply: a message goes out, or the send fails and the thread runs        *)
(* failed() in place of the rest of its output.                            *)
ApplySend(t) ==
  /\ output[t].messages # << >> /\ socket = "open"
  /\ wire' = Append(wire, Head(output[t].messages))
  /\ output' = [output EXCEPT ![t].messages = Tail(@)]
  /\ UNCHANGED <<proto, events, socket, transportOpen, silence, shutdown, ends, stops,
                 overflowed>>

(* failed(), under the mutex. *)
RunFailed(t) ==
  LET r == IF shutdown THEN [p |-> proto, out |-> Nothing] ELSE TransportFailed(proto)
  IN  transportOpen' = FALSE /\ Run(t, r)

ApplySendFails(t) ==
  /\ output[t].messages # << >>
  /\ RunFailed(t)
  /\ UNCHANGED <<events, socket, silence, shutdown, wire, ends, stops, overflowed>>

ApplyEvents(t) ==
  LET o == output[t]
      room == OwnMaxEvents - Len(events)
      pushed == IF Len(o.events) <= room THEN o.events ELSE SubSeq(o.events, 1, room)
  IN  /\ o.messages = << >> /\ o.events # << >> /\ ~o.overflow
      /\ events' = events \o pushed
      /\ ends' = ends + Cardinality({i \in DOMAIN pushed : pushed[i] = "terminal"})
      /\ output' = [output EXCEPT ![t].events = << >>,
                                  ![t].overflow = Len(o.events) > room]
      /\ overflowed' = (overflowed \/ Len(o.events) > room)
      /\ UNCHANGED <<proto, socket, transportOpen, silence, shutdown, wire, stops>>

ApplyOverflow(t) ==
  /\ output[t].overflow
  /\ events' = IF shutdown THEN events ELSE << >>
  /\ RunFailed(t)
  /\ UNCHANGED <<socket, silence, shutdown, wire, ends, stops, overflowed>>

ApplyClose(t) ==
  /\ output[t] = Output(<< >>, << >>, TRUE)
  /\ output' = [output EXCEPT ![t] = Nothing]
  /\ socket' = "closed"
  /\ UNCHANGED <<proto, events, transportOpen, silence, shutdown, wire, ends, stops,
                 overflowed>>

WaitForEvent ==
  /\ Idle("app") /\ events # << >>
  /\ events' = Tail(events)
  /\ UNCHANGED <<proto, output, socket, transportOpen, silence, shutdown, wire, ends,
                 stops, overflowed>>

Passes ==
  /\ silence < OwnTimeout /\ transportOpen /\ silence' = silence + 1
  /\ UNCHANGED <<proto, output, events, socket, transportOpen, shutdown, wire, ends,
                 stops, overflowed>>

(* Mutant: a watch that is off by one step of the clock. *)
WatchTooLate ==
  /\ Free("watch") /\ transportOpen /\ Active(proto) /\ silence > OwnTimeout
  /\ transportOpen' = FALSE
  /\ Run("watch", TransportFailed(proto))
  /\ UNCHANGED <<events, socket, silence, shutdown, wire, ends, stops, overflowed>>

Watch ==
  /\ Free("watch") /\ transportOpen /\ Active(proto) /\ silence >= OwnTimeout
  /\ transportOpen' = FALSE
  /\ Run("watch", TransportFailed(proto))
  /\ UNCHANGED <<events, socket, silence, shutdown, wire, ends, stops, overflowed>>

(* The destructor; the threads have left the client or are joined. *)
Destroy ==
  /\ ~shutdown /\ Idle("app") /\ Idle("peer") /\ stops > 0
  /\ shutdown' = TRUE /\ socket' = "closed"
  /\ UNCHANGED <<proto, output, events, transportOpen, silence, wire, ends, stops,
                 overflowed>>

Apply(t) ==
  ApplySend(t) \/ ApplySendFails(t) \/ ApplyEvents(t) \/ ApplyOverflow(t) \/ ApplyClose(t)

OwnNext ==
  \/ Start \/ Opened \/ ClosedOrFailed \/ AppCreatesJoin \/ PeerAnswers \/ PeerCandidate
  \/ AppStops \/ WaitForEvent \/ Passes \/ Watch \/ Destroy
  \/ \E type \in ServerMessages : Received(type)
  \/ \E t \in OwnThreads : Apply(t)

OwnSpec == OwnInit /\ [][OwnNext]_ownVars

(* The watchdog wakes every kWatchdogInterval; a thread that has an output *)
(* applies it.                                                             *)
OwnFairness == WF_ownVars(Watch) /\ \A t \in OwnThreads : WF_ownVars(Apply(t))

-----------------------------------------------------------------------------
(* However the threads race, once they have applied their outputs nothing  *)
(* is lost between them: an active session has put every number it gave    *)
(* out on the wire, and one that ended without the share's stop has been   *)
(* reported by exactly one terminal event and its transport closed.  An    *)
(* overflow of the event queue is the exception: by the time failed()      *)
(* clears the queue the protocol may have ended, and then says nothing.    *)
OwnNothingLost ==
  /\ OwnTypeOK
  /\ ends <= 1 + stops
  /\ ((\A t \in OwnThreads : Idle(t)) /\ ~overflowed) =>
       /\ Active(proto) => ToSet(wire) = 1 .. proto.client
       /\ proto.phase \in {"failed", "revoked", "expired"} => ends = 1 /\ socket = "closed"

(* The server falls silent for kOwnerLivenessTimeout: the session ends and *)
(* the transport is closed, also when an operation of another thread comes *)
(* in between and unless a late message does.                              *)
OwnSilentServerEnds ==
  transportOpen /\ Active(proto) /\ silence = OwnTimeout ~>
    \/ ~Active(proto) /\ socket = "closed"
    \/ silence = 0 \/ stops > 0 \/ overflowed
=============================================================================
