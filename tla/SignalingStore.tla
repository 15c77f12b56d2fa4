------------------------------- MODULE SignalingStore -------------------------------
(***************************************************************************)
(* signaling/session-state.ts: what SignalingSessionStore does to one      *)
(* session, as operators.  Each handler of the code maps the session, the  *)
(* clock and a message to a result: the session afterwards (or NoSession   *)
(* when it was deleted), whether the message was accepted, the actions to  *)
(* dispatch in order, and the role the connection was bound to.            *)
(*                                                                         *)
(* A connection is bound at most once in its life, so its identifier also  *)
(* stands for the connection generation.  Join capabilities are numbered,  *)
(* 0 is none; SDP, candidates and reasons carry no state and are left out. *)
(***************************************************************************)
EXTENDS Integers, Sequences

CONSTANTS
  NoConn,                      \* no connection
  JOIN_CAPABILITY_LIFETIME, OWNER_ONLY_LIFETIME, JOIN_RESERVATION_LIFETIME,
  ICE_DISCONNECTED_GRACE, ABSOLUTE_SESSION_LIFETIME, HEARTBEAT_INTERVAL,
  PEER_ACTIVITY_TIMEOUT

ASSUME LifetimesAssumption ==
  /\ JOIN_CAPABILITY_LIFETIME \in Nat
  /\ OWNER_ONLY_LIFETIME \in Nat
  /\ JOIN_RESERVATION_LIFETIME \in Nat
  /\ ICE_DISCONNECTED_GRACE \in Nat
  /\ ABSOLUTE_SESSION_LIFETIME \in Nat
  /\ OWNER_ONLY_LIFETIME <= ABSOLUTE_SESSION_LIFETIME
  /\ HEARTBEAT_INTERVAL \in Nat
  /\ PEER_ACTIVITY_TIMEOUT \in Nat

NoDeadline == -1
NoCapability == 0

Phases == {"OWNER_ONLY", "JOIN_OPEN", "JOIN_RESERVED", "CONNECTED"}

Earlier(a, b) == IF a <= b THEN a ELSE b

(* #peer, and the absence of one.                                          *)
Peer(c, expected, now) ==
  [connection |-> c, expectedClientSequence |-> expected, nextServerSequence |-> 1,
   lastActivity |-> now, nextHeartbeat |-> now + HEARTBEAT_INTERVAL, heartbeatSequence |-> 0]

NoPeer == [connection |-> NoConn, expectedClientSequence |-> 0, nextServerSequence |-> 0,
           lastActivity |-> 0, nextHeartbeat |-> 0, heartbeatSequence |-> 0]

NoSession ==
  [id |-> 0, phase |-> "NONE", absoluteDeadline |-> 0, phaseDeadline |-> NoDeadline,
   joinCapability |-> NoCapability, joinExpiresAt |-> NoDeadline, owner |-> NoPeer,
   receiver |-> NoPeer, offerSeen |-> FALSE, answerSeen |-> FALSE,
   restartOfferPending |-> FALSE, iceDisconnectedDeadline |-> NoDeadline]

Live(s) == s.id # 0
HasReceiver(s) == s.receiver.connection # NoConn
----------------------------------------------------------------------------
(* The types of the messages the server sends.                             *)
ServerMessages ==
  {"SESSION_CREATED", "JOIN_CREATED", "JOIN_RESERVED", "RECEIVER_RESERVED", "RECEIVER_OFFER",
   "RECEIVER_ICE_RESTART_OFFER", "RECEIVER_ICE_CANDIDATE", "OWNER_ANSWER",
   "OWNER_ICE_RESTART_ANSWER", "OWNER_ICE_CANDIDATE", "HEARTBEAT", "RECEIVER_DISCONNECTED",
   "SESSION_REVOKED", "SESSION_EXPIRED"}

(* Actions for the server to dispatch, and #send, which takes the next     *)
(* sequence number of the addressed peer.                                  *)
SEND(peer, type) == [kind |-> "SEND", connection |-> peer.connection, type |-> type,
                     sequence |-> peer.nextServerSequence]
CLOSE(c) == [kind |-> "CLOSE", connection |-> c, type |-> "CLOSE", sequence |-> 0]

Advance(peer) == [peer EXCEPT !.nextServerSequence = @ + 1]
SentToOwner(s) == [s EXCEPT !.owner = Advance(@)]
SentToReceiver(s) == [s EXCEPT !.receiver = Advance(@)]

Result(s, accepted, actions) ==
  [session |-> s, accepted |-> accepted, actions |-> actions, binding |-> "NONE"]

(* #detachReceiver                                                         *)

(* Mutant: the ICE grace deadline survives the receiver it belonged to.    *)
DetachedKeepingIceDeadline(s, now) ==
  [s EXCEPT !.receiver = NoPeer, !.phase = "OWNER_ONLY",
            !.phaseDeadline = Earlier(now + OWNER_ONLY_LIFETIME, s.absoluteDeadline),
            !.joinCapability = NoCapability, !.joinExpiresAt = NoDeadline,
            !.offerSeen = FALSE, !.answerSeen = FALSE, !.restartOfferPending = FALSE]

Detached(s, now) ==
  [s EXCEPT !.receiver = NoPeer, !.phase = "OWNER_ONLY",
            !.phaseDeadline = Earlier(now + OWNER_ONLY_LIFETIME, s.absoluteDeadline),
            !.joinCapability = NoCapability, !.joinExpiresAt = NoDeadline,
            !.offerSeen = FALSE, !.answerSeen = FALSE, !.restartOfferPending = FALSE,
            !.iceDisconnectedDeadline = NoDeadline]

DetachReceiver(s, now, closeReceiver, accepted) ==
  LET close == IF HasReceiver(s) /\ closeReceiver
                 THEN <<CLOSE(s.receiver.connection)>> ELSE <<>>
  IN Result(SentToOwner(Detached(s, now)), accepted,
            Append(close, SEND(s.owner, "RECEIVER_DISCONNECTED")))

(* #revoke: the session is deleted.                                        *)

Revoke(s, closeOwner, accepted) ==
  Result(NoSession, accepted,
    (IF HasReceiver(s)
       THEN <<SEND(s.receiver, "SESSION_REVOKED"), CLOSE(s.receiver.connection)>> ELSE <<>>)
    \o
    (IF closeOwner
       THEN <<SEND(s.owner, "SESSION_REVOKED"), CLOSE(s.owner.connection)>> ELSE <<>>))

OwnerStateFailure(s) == Revoke(s, TRUE, FALSE)

(* #expire: the session is deleted.                                        *)
Expire(s) ==
  Result(NoSession, FALSE,
    (IF HasReceiver(s)
       THEN <<SEND(s.receiver, "SESSION_EXPIRED"), CLOSE(s.receiver.connection)>> ELSE <<>>)
    \o <<SEND(s.owner, "SESSION_EXPIRED"), CLOSE(s.owner.connection)>>)

(* #expireJoin: nobody is told.                                            *)
JoinExpired(s, now) ==
  IF s.phase = "JOIN_OPEN" /\ s.joinExpiresAt # NoDeadline /\ now >= s.joinExpiresAt
    THEN [s EXCEPT !.joinCapability = NoCapability, !.joinExpiresAt = NoDeadline,
                   !.phase = "OWNER_ONLY",
                   !.phaseDeadline = Earlier(now + OWNER_ONLY_LIFETIME, s.absoluteDeadline)]
    ELSE s
----------------------------------------------------------------------------
(* The deadline cascade that #expireBeforeMessage and tick share: whether  *)
(* some deadline ends the session or the peer, and what happens then.      *)
OwnerSilent(s, now)    == now - s.owner.lastActivity >= PEER_ACTIVITY_TIMEOUT
ReceiverSilent(s, now) == /\ HasReceiver(s)
                          /\ now - s.receiver.lastActivity >= PEER_ACTIVITY_TIMEOUT
PhaseOver(s, phase, now) == /\ s.phase = phase
                            /\ s.phaseDeadline # NoDeadline
                            /\ now >= s.phaseDeadline
IceGraceOver(s, now)   == /\ s.iceDisconnectedDeadline # NoDeadline
                          /\ now >= s.iceDisconnectedDeadline

(* Mutant: the absolute deadline is left to the other timers.              *)
AbsoluteNeverOver(s, now) == FALSE

AbsoluteOver(s, now) == now >= s.absoluteDeadline

DeadlineHit(s, now) ==
  LET j == JoinExpired(s, now) IN
  \/ AbsoluteOver(s, now)
  \/ OwnerSilent(s, now)
  \/ PhaseOver(j, "OWNER_ONLY", now)
  \/ PhaseOver(j, "JOIN_RESERVED", now)
  \/ ReceiverSilent(j, now)
  \/ IceGraceOver(j, now)

DeadlineResult(s, now) ==
  LET j == JoinExpired(s, now) IN
  IF AbsoluteOver(s, now) THEN Expire(s)
  ELSE IF OwnerSilent(s, now) THEN Revoke(s, TRUE, FALSE)
  ELSE IF PhaseOver(j, "OWNER_ONLY", now) THEN Expire(j)
  ELSE DetachReceiver(j, now, TRUE, FALSE)

(* #heartbeatActions: the owner first, then the receiver.                  *)
HeartbeatDue(peer, now) == peer.connection # NoConn /\ now >= peer.nextHeartbeat

HeartbeatPeer(peer, now) ==
  IF HeartbeatDue(peer, now)
    THEN Advance([peer EXCEPT !.heartbeatSequence = @ + 1,
                              !.nextHeartbeat = now + HEARTBEAT_INTERVAL])
    ELSE peer

HeartbeatTo(peer, now) ==
  IF HeartbeatDue(peer, now) THEN <<SEND(peer, "HEARTBEAT")>> ELSE <<>>

(* Mutant: the receiver is served before the owner.                        *)
HeartbeatReceiverFirst(s, now) ==
  HeartbeatTo(s.receiver, now) \o HeartbeatTo(s.owner, now)

HeartbeatActions(s, now) ==
  HeartbeatTo(s.owner, now) \o HeartbeatTo(s.receiver, now)

(* tick, for this session.                                                 *)
TickResult(s, now) ==
  IF DeadlineHit(s, now)
    THEN DeadlineResult(s, now)
    ELSE LET j == JoinExpired(s, now) IN
         Result([j EXCEPT !.owner = HeartbeatPeer(@, now), !.receiver = HeartbeatPeer(@, now)],
                TRUE, HeartbeatActions(j, now))
----------------------------------------------------------------------------
(* Messages.  The credential of an owner message stands for the owner      *)
(* capability of the session with that identifier, the credential of       *)
(* RESERVE_JOIN for a join capability.                                     *)
OwnerMessages == {"CREATE_JOIN", "OWNER_ANSWER", "OWNER_ICE_RESTART_ANSWER",
                  "OWNER_ICE_CANDIDATE", "OWNER_HEARTBEAT_ACK", "OWNER_STOP", "OWNER_REVOKE"}
ReceiverMessages == {"RECEIVER_OFFER", "RECEIVER_ICE_RESTART_OFFER", "RECEIVER_ICE_CANDIDATE",
                     "RECEIVER_HEARTBEAT_ACK", "RECEIVER_ICE_STATE"}
IceStates == {"connected", "disconnected", "failed", "closed"}

Rejected(s) == Result(s, FALSE, <<>>)
Bound(r, role) == [r EXCEPT !.binding = role]

ForwardToOwner(s, type) == Result(SentToOwner(s), TRUE, <<SEND(s.owner, type)>>)
ForwardToReceiver(s, type) == Result(SentToReceiver(s), TRUE, <<SEND(s.receiver, type)>>)

(* #createSession, in a store with room for one more session.              *)
CreateSession(id, c, m, now) ==
  IF m.sequence # 1
    THEN Rejected(NoSession)
    ELSE Bound(ForwardToOwner(
                 [NoSession EXCEPT !.id = id, !.phase = "OWNER_ONLY",
                                   !.absoluteDeadline = now + ABSOLUTE_SESSION_LIFETIME,
                                   !.phaseDeadline = now + OWNER_ONLY_LIFETIME,
                                   !.owner = Peer(c, 2, now)],
                 "SESSION_CREATED"), "OWNER")

(* #reserveJoin                                                            *)

(* Mutant: an expired capability is left to the next tick.                 *)
AdmitsUntilTick(s, m, now) ==
  /\ m.sequence = 1 /\ s.phase = "JOIN_OPEN" /\ ~HasReceiver(s)
  /\ s.joinCapability # NoCapability /\ m.credential = s.joinCapability

AdmitsReservation(s, m, now) ==
  /\ m.sequence = 1 /\ Live(s) /\ s.phase = "JOIN_OPEN" /\ ~HasReceiver(s)
  /\ s.joinCapability # NoCapability /\ s.joinExpiresAt # NoDeadline
  /\ now < s.joinExpiresAt /\ now < s.absoluteDeadline
  /\ s.phaseDeadline # NoDeadline => now < s.phaseDeadline
  /\ m.credential = s.joinCapability

Reserved(s, c, now) ==
  [s EXCEPT !.joinCapability = NoCapability, !.joinExpiresAt = NoDeadline,
            !.phase = "JOIN_RESERVED",
            !.phaseDeadline = Earlier(now + JOIN_RESERVATION_LIFETIME, s.absoluteDeadline),
            !.receiver = Peer(c, 2, now),
            !.offerSeen = FALSE, !.answerSeen = FALSE, !.restartOfferPending = FALSE]

ReserveJoin(s, c, m, now) ==
  IF ~AdmitsReservation(s, m, now)
    THEN Rejected(s)
    ELSE LET r == Reserved(s, c, now) IN
         Bound(Result(SentToOwner(SentToReceiver(r)), TRUE,
                      <<SEND(r.receiver, "JOIN_RESERVED"), SEND(r.owner, "RECEIVER_RESERVED")>>),
               "RECEIVER")

(* #createJoin; fresh is the capability the entropy source returns.        *)
CreateJoin(s, fresh, now) ==
  IF s.phase # "OWNER_ONLY" \/ HasReceiver(s) \/ s.joinCapability # NoCapability
    THEN OwnerStateFailure(s)
    ELSE LET expires == Earlier(now + JOIN_CAPABILITY_LIFETIME, s.absoluteDeadline) IN
         ForwardToOwner([s EXCEPT !.joinCapability = fresh, !.joinExpiresAt = expires,
                                  !.phase = "JOIN_OPEN", !.phaseDeadline = expires],
                        "JOIN_CREATED")

(* #ownerAnswer, for the first answer and for the answer to an ICE restart. *)
OwnerAnswer(s) ==
  IF ~HasReceiver(s) \/ s.phase # "JOIN_RESERVED" \/ ~s.offerSeen \/ s.answerSeen
    THEN OwnerStateFailure(s)
    ELSE ForwardToReceiver([s EXCEPT !.answerSeen = TRUE, !.phase = "CONNECTED",
                                     !.phaseDeadline = NoDeadline], "OWNER_ANSWER")

OwnerRestartAnswer(s) ==
  IF ~HasReceiver(s) \/ s.phase # "CONNECTED" \/ ~s.restartOfferPending
    THEN OwnerStateFailure(s)
    ELSE ForwardToReceiver([s EXCEPT !.restartOfferPending = FALSE],
                           "OWNER_ICE_RESTART_ANSWER")

OwnerCandidate(s) ==
  IF ~HasReceiver(s) \/ ~s.offerSeen
    THEN OwnerStateFailure(s)
    ELSE ForwardToReceiver(s, "OWNER_ICE_CANDIDATE")

(* #receiverIceState                                                       *)
ReceiverIceState(s, iceState, now) ==
  CASE ~HasReceiver(s) \/ s.phase # "CONNECTED" -> OwnerStateFailure(s)
    [] OTHER ->
       CASE iceState = "connected" ->
              Result([s EXCEPT !.iceDisconnectedDeadline = NoDeadline], TRUE, <<>>)
         [] iceState = "disconnected" ->
              Result([s EXCEPT !.iceDisconnectedDeadline =
                        Earlier(now + ICE_DISCONNECTED_GRACE, s.absoluteDeadline)], TRUE, <<>>)
         [] OTHER -> DetachReceiver(s, now, TRUE, TRUE)

(* #heartbeatAck, by role.                                                 *)
AckMatches(peer, m) == m.heartbeatSequence = peer.heartbeatSequence /\ m.heartbeatSequence # 0

OwnerHeartbeatAck(s, m) ==
  IF AckMatches(s.owner, m) THEN Result(s, TRUE, <<>>) ELSE OwnerStateFailure(s)

ReceiverHeartbeatAck(s, m, now) ==
  IF AckMatches(s.receiver, m) THEN Result(s, TRUE, <<>>) ELSE DetachReceiver(s, now, TRUE, FALSE)
----------------------------------------------------------------------------
(* #handleOwner: s is the session the binding names, or NoSession.         *)
OwnerAuthentic(s, c, m) ==
  /\ Live(s) /\ s.owner.connection = c
  /\ m.type \in OwnerMessages
  /\ m.sessionId = s.id /\ m.credential = s.id
  /\ m.sequence = s.owner.expectedClientSequence

OwnerMessage(s, m, fresh, now) ==
  CASE m.type = "CREATE_JOIN"              -> CreateJoin(s, fresh, now)
    [] m.type = "OWNER_ANSWER"             -> OwnerAnswer(s)
    [] m.type = "OWNER_ICE_RESTART_ANSWER" -> OwnerRestartAnswer(s)
    [] m.type = "OWNER_ICE_CANDIDATE"      -> OwnerCandidate(s)
    [] m.type = "OWNER_HEARTBEAT_ACK"      -> OwnerHeartbeatAck(s, m)
    [] OTHER                               -> Revoke(s, TRUE, TRUE)

Active(peer, now) ==
  [peer EXCEPT !.lastActivity = now,
               !.expectedClientSequence = peer.expectedClientSequence + 1]

OwnerActive(s, now) == [s EXCEPT !.owner = Active(@, now)]

(* Mutant: deadlines are left to the next tick.                            *)
HandleOwnerUntilTick(s, c, m, fresh, now) ==
  IF OwnerAuthentic(s, c, m) THEN OwnerMessage(OwnerActive(s, now), m, fresh, now)
  ELSE IF Live(s) THEN Revoke(s, TRUE, FALSE)
  ELSE Rejected(s)

HandleOwner(s, c, m, fresh, now) ==
  LET j == JoinExpired(s, now) IN
  IF Live(s) /\ DeadlineHit(s, now) THEN DeadlineResult(s, now)
  ELSE IF OwnerAuthentic(j, c, m) THEN OwnerMessage(OwnerActive(j, now), m, fresh, now)
  ELSE IF Live(j) THEN Revoke(j, TRUE, FALSE)
  ELSE Rejected(j)

(* #handleReceiver                                                         *)
ReceiverAuthentic(s, c, m) ==
  /\ Live(s) /\ s.receiver.connection = c
  /\ m.type \notin OwnerMessages \cup {"CREATE_SESSION"}
  /\ m.sessionId = s.id
  /\ m.sequence = s.receiver.expectedClientSequence

ReceiverOffer(s, now) ==
  IF s.phase # "JOIN_RESERVED" \/ s.offerSeen
    THEN DetachReceiver(s, now, TRUE, FALSE)
    ELSE ForwardToOwner([s EXCEPT !.offerSeen = TRUE], "RECEIVER_OFFER")

ReceiverRestartOffer(s, now) ==
  IF s.phase # "CONNECTED" \/ s.restartOfferPending
    THEN DetachReceiver(s, now, TRUE, FALSE)
    ELSE ForwardToOwner([s EXCEPT !.restartOfferPending = TRUE], "RECEIVER_ICE_RESTART_OFFER")

ReceiverCandidate(s, now) ==
  IF ~s.offerSeen
    THEN DetachReceiver(s, now, TRUE, FALSE)
    ELSE ForwardToOwner(s, "RECEIVER_ICE_CANDIDATE")

ReceiverMessage(s, m, now) ==
  CASE m.type = "RECEIVER_OFFER"             -> ReceiverOffer(s, now)
    [] m.type = "RECEIVER_ICE_RESTART_OFFER" -> ReceiverRestartOffer(s, now)
    [] m.type = "RECEIVER_ICE_CANDIDATE"     -> ReceiverCandidate(s, now)
    [] m.type = "RECEIVER_HEARTBEAT_ACK"     -> ReceiverHeartbeatAck(s, m, now)
    [] m.type = "RECEIVER_ICE_STATE"         -> ReceiverIceState(s, m.iceState, now)
    [] OTHER                                 -> DetachReceiver(s, now, TRUE, FALSE)

ReceiverActive(s, now) == [s EXCEPT !.receiver = Active(@, now)]

HandleReceiver(s, c, m, now) ==
  LET j == JoinExpired(s, now) IN
  IF Live(s) /\ DeadlineHit(s, now) THEN DeadlineResult(s, now)
  ELSE IF ReceiverAuthentic(j, c, m) THEN ReceiverMessage(ReceiverActive(j, now), m, now)
  ELSE IF Live(j) THEN DetachReceiver(j, now, TRUE, FALSE)
  ELSE Rejected(j)

(* disconnect: only the connection that still is the peer changes anything. *)
Disconnect(s, role, c, now) ==
  CASE role = "OWNER"    /\ Live(s) /\ s.owner.connection = c    -> Revoke(s, FALSE, TRUE)
    [] role = "RECEIVER" /\ Live(s) /\ s.receiver.connection = c -> DetachReceiver(s, now, FALSE, TRUE)
    [] OTHER -> Result(s, TRUE, <<>>)
====================================================================================
