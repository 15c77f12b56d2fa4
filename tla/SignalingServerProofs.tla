--------------------------- MODULE SignalingServerProofs ---------------------------
(***************************************************************************)
(* For any connections, lifetimes and bounds: the store and the server are *)
(* type correct, the session record agrees with its phase, and no deadline *)
(* lies past the absolute one.  Each store operation gets a lemma saying   *)
(* that it keeps Inv ("...Inv") or that its result is Fine: a session that *)
(* satisfies Inv and actions on known connections.  StoreInv lifts this to *)
(* the server, whose stack of pending actions it types as well.            *)
(***************************************************************************)
EXTENDS SignalingServer, SequenceTheorems, TLAPS

USE ConnAssumption

(* What every store operation keeps true of the session it works on.       *)
Inv(s) == s \in SessionType /\ (Live(s) => s.owner.connection \in Conn /\ PhaseFits(s) /\ Capped(s))

(* An absent peer is a peer of the type. *)
LEMMA NoPeerType == NoPeer \in PeerType
BY DEF NoPeer, PeerType

(* The earlier of two times is a time, not after the second. *)
LEMMA EarlierNat ==
  ASSUME NEW a \in Nat, NEW b \in Nat
  PROVE  Earlier(a, b) \in Nat /\ Earlier(a, b) <= b
BY DEF Earlier

(* A detached session keeps Inv. *)
LEMMA DetachedInv ==
  ASSUME NEW s, Inv(s), Live(s), NEW t \in Nat
  PROVE  Inv(Detached(s, t)) /\ Live(Detached(s, t))
<1> DEFINE d == Detached(s, t)
           e == Earlier(t + OWNER_ONLY_LIFETIME, s.absoluteDeadline)
<1>1. s \in SessionType
  BY DEF Inv
<1>2. e \in Nat /\ e <= s.absoluteDeadline
  <2>1. s.absoluteDeadline \in Nat /\ t + OWNER_ONLY_LIFETIME \in Nat
    BY <1>1, LifetimesAssumption DEF SessionType
  <2> QED BY <2>1, EarlierNat
<1> HIDE DEF e
<1>3. d \in SessionType
  BY <1>1, <1>2, NoPeerType DEF Detached, e, SessionType, Phases, Deadlines, NoDeadline, NoCapability
<1>4. /\ d.phase = "OWNER_ONLY" /\ d.receiver = NoPeer /\ d.phaseDeadline = e
      /\ d.joinCapability = NoCapability /\ d.joinExpiresAt = NoDeadline
      /\ d.offerSeen = FALSE /\ d.answerSeen = FALSE /\ d.restartOfferPending = FALSE
      /\ d.iceDisconnectedDeadline = NoDeadline
      /\ d.id = s.id /\ d.absoluteDeadline = s.absoluteDeadline /\ d.owner = s.owner
  BY <1>1 DEF Detached, e, SessionType
<1> HIDE DEF d
<1>5. PhaseFits(d)
  BY <1>2, <1>4 DEF PhaseFits, Phases, HasReceiver, NoPeer, NoDeadline
<1>6. Capped(d)
  BY <1>1, <1>2, <1>4 DEF Capped, NoDeadline, SessionType
<1>7. d.owner.connection \in Conn /\ Live(d)
  BY <1>4 DEF Inv, Live
<1> QED BY <1>3, <1>5, <1>6, <1>7 DEF Inv, d

(* Numbering a message to the owner keeps Inv. *)
LEMMA SentToOwnerInv ==
  ASSUME NEW s, Inv(s), Live(s)
  PROVE  Inv(SentToOwner(s)) /\ Live(SentToOwner(s))
BY DEF Inv, SentToOwner, Advance, SessionType, PeerType, Live, PhaseFits, Capped,
       HasReceiver, NoDeadline, NoCapability, Phases, Deadlines

(* Numbering a message to the receiver keeps Inv. *)
LEMMA SentToReceiverInv ==
  ASSUME NEW s, Inv(s), Live(s)
  PROVE  Inv(SentToReceiver(s)) /\ Live(SentToReceiver(s))
BY DEF Inv, SentToReceiver, Advance, SessionType, PeerType, Live, PhaseFits, Capped,
       HasReceiver, NoDeadline, NoCapability, Phases, Deadlines

(* A peer that was heard of is a peer of the type. *)
LEMMA ActiveType ==
  ASSUME NEW p \in PeerType, NEW t \in Nat
  PROVE  Active(p, t) \in PeerType /\ Active(p, t).connection = p.connection
<1>1. p.expectedClientSequence + 1 \in Nat
  BY DEF PeerType
<1> QED BY <1>1 DEF Active, PeerType

(* Hearing of the owner keeps Inv. *)
LEMMA OwnerActiveInv ==
  ASSUME NEW s, Inv(s), Live(s), NEW t \in Nat
  PROVE  /\ Inv(OwnerActive(s, t)) /\ Live(OwnerActive(s, t))
         /\ HasReceiver(OwnerActive(s, t)) = HasReceiver(s)
<1> DEFINE d == OwnerActive(s, t)
<1>1. s \in SessionType /\ s.owner \in PeerType
  BY DEF Inv, SessionType
<1>2. d.owner = Active(s.owner, t)
  BY <1>1 DEF OwnerActive, SessionType
<1>3. d.owner \in PeerType /\ d.owner.connection = s.owner.connection
  BY <1>1, <1>2, ActiveType
<1>4. d = [s EXCEPT !.owner = Active(s.owner, t)]
  BY DEF OwnerActive
<1> HIDE DEF d
<1>5. d \in SessionType
  BY <1>1, <1>2, <1>3, <1>4 DEF SessionType
<1>6. /\ d.phase = s.phase /\ d.receiver = s.receiver /\ d.phaseDeadline = s.phaseDeadline
      /\ d.joinCapability = s.joinCapability /\ d.joinExpiresAt = s.joinExpiresAt
      /\ d.offerSeen = s.offerSeen /\ d.answerSeen = s.answerSeen
      /\ d.restartOfferPending = s.restartOfferPending
      /\ d.iceDisconnectedDeadline = s.iceDisconnectedDeadline
      /\ d.id = s.id /\ d.absoluteDeadline = s.absoluteDeadline
  BY <1>1, <1>4 DEF SessionType
<1>7. HasReceiver(d) = HasReceiver(s)
  BY <1>3, <1>6 DEF HasReceiver
<1>8. Live(d) /\ PhaseFits(d) /\ Capped(d) /\ d.owner.connection \in Conn
  BY <1>3, <1>6, <1>7 DEF Inv, Live, PhaseFits, Capped
<1> QED BY <1>3, <1>5, <1>7, <1>8 DEF Inv, d

(* Hearing of the receiver keeps Inv. *)
LEMMA ReceiverActiveInv ==
  ASSUME NEW s, Inv(s), Live(s), NEW t \in Nat
  PROVE  /\ Inv(ReceiverActive(s, t)) /\ Live(ReceiverActive(s, t))
         /\ ReceiverActive(s, t).receiver.connection = s.receiver.connection
<1> DEFINE d == ReceiverActive(s, t)
<1>1. s \in SessionType /\ s.receiver \in PeerType
  BY DEF Inv, SessionType
<1>2. d.receiver = Active(s.receiver, t)
  BY <1>1 DEF ReceiverActive, SessionType
<1>3. d.receiver \in PeerType /\ d.receiver.connection = s.receiver.connection
  BY <1>1, <1>2, ActiveType
<1>4. d = [s EXCEPT !.receiver = Active(s.receiver, t)]
  BY DEF ReceiverActive
<1> HIDE DEF d
<1>5. d \in SessionType
  BY <1>1, <1>2, <1>3, <1>4 DEF SessionType
<1>6. /\ d.phase = s.phase /\ d.owner = s.owner /\ d.phaseDeadline = s.phaseDeadline
      /\ d.joinCapability = s.joinCapability /\ d.joinExpiresAt = s.joinExpiresAt
      /\ d.offerSeen = s.offerSeen /\ d.answerSeen = s.answerSeen
      /\ d.restartOfferPending = s.restartOfferPending
      /\ d.iceDisconnectedDeadline = s.iceDisconnectedDeadline
      /\ d.id = s.id /\ d.absoluteDeadline = s.absoluteDeadline
  BY <1>1, <1>4 DEF SessionType
<1>7. HasReceiver(d) = HasReceiver(s)
  BY <1>3, <1>6 DEF HasReceiver
<1>8. Live(d) /\ PhaseFits(d) /\ Capped(d) /\ d.owner.connection \in Conn
  BY <1>3, <1>6, <1>7 DEF Inv, Live, PhaseFits, Capped
<1> QED BY <1>3, <1>5, <1>7, <1>8 DEF Inv, d

(* The empty store satisfies Inv. *)
LEMMA NoSessionInv == Inv(NoSession) /\ ~Live(NoSession)
<1>1. NoSession \in SessionType
  BY NoPeerType DEF NoSession, SessionType, Deadlines, NoDeadline, NoCapability
<1> QED BY <1>1 DEF Inv, Live, NoSession

(* Expiring an open join keeps Inv. *)
LEMMA JoinExpiredInv ==
  ASSUME NEW s, Inv(s), NEW t \in Nat
  PROVE  /\ Inv(JoinExpired(s, t)) /\ (Live(s) <=> Live(JoinExpired(s, t)))
         /\ JoinExpired(s, t).owner = s.owner
<1> DEFINE d == JoinExpired(s, t)
           e == Earlier(t + OWNER_ONLY_LIFETIME, s.absoluteDeadline)
<1>1. s \in SessionType
  BY DEF Inv
<1>2. e \in Nat /\ e <= s.absoluteDeadline
  <2>1. s.absoluteDeadline \in Nat /\ t + OWNER_ONLY_LIFETIME \in Nat
    BY <1>1, LifetimesAssumption DEF SessionType
  <2> QED BY <2>1, EarlierNat
<1> HIDE DEF e
<1>3. CASE s.phase = "JOIN_OPEN" /\ s.joinExpiresAt # NoDeadline /\ t >= s.joinExpiresAt
  <2>1. d \in SessionType
    BY <1>1, <1>2, <1>3 DEF JoinExpired, e, SessionType, Phases, Deadlines, NoDeadline, NoCapability
  <2>2. /\ d.phase = "OWNER_ONLY" /\ d.receiver = s.receiver /\ d.phaseDeadline = e
        /\ d.joinCapability = NoCapability /\ d.joinExpiresAt = NoDeadline
        /\ d.offerSeen = s.offerSeen /\ d.answerSeen = s.answerSeen
        /\ d.restartOfferPending = s.restartOfferPending
        /\ d.iceDisconnectedDeadline = s.iceDisconnectedDeadline
        /\ d.id = s.id /\ d.absoluteDeadline = s.absoluteDeadline /\ d.owner = s.owner
    BY <1>1, <1>3 DEF JoinExpired, e, SessionType
  <2> HIDE DEF d
  <2>3. Live(s) => PhaseFits(d) /\ Capped(d) /\ d.owner.connection \in Conn
    BY <1>1, <1>2, <1>3, <2>2 DEF Inv, PhaseFits, Capped, Phases, HasReceiver, NoDeadline, SessionType
  <2> QED BY <2>1, <2>2, <2>3 DEF Inv, Live, d
<1>4. CASE ~(s.phase = "JOIN_OPEN" /\ s.joinExpiresAt # NoDeadline /\ t >= s.joinExpiresAt)
  BY <1>4 DEF JoinExpired
<1> QED BY <1>3, <1>4
----------------------------------------------------------------------------
(* A result the server may store and dispatch.                             *)
Fine(r) == Inv(r.session) /\ r.actions \in Seq(ActionType)

(* A SEND is an action of the type. *)
LEMMA SendType ==
  ASSUME NEW peer \in PeerType, peer.connection \in Conn, NEW type \in ServerMessages
  PROVE  SEND(peer, type) \in ActionType
BY DEF SEND, ActionType, PeerType

(* A CLOSE is an action of the type. *)
LEMMA CloseType ==
  ASSUME NEW c \in Conn
  PROVE  CLOSE(c) \in ActionType
BY DEF CLOSE, ActionType

(* The peers of a live session are connections. *)
LEMMA PeersKnown ==
  ASSUME NEW s, Inv(s), Live(s)
  PROVE  /\ s.owner \in PeerType /\ s.owner.connection \in Conn
         /\ s.receiver \in PeerType
         /\ HasReceiver(s) => s.receiver.connection \in Conn
BY DEF Inv, SessionType, PeerType, HasReceiver

(* A result built from parts of their types is fine. *)
LEMMA FineResult ==
  ASSUME NEW s, Inv(s), NEW a, NEW acts \in Seq(ActionType)
  PROVE  Fine(Result(s, a, acts))
BY DEF Fine, Result

(* A rejection is fine. *)
LEMMA FineRejected ==
  ASSUME NEW s, Inv(s)
  PROVE  Fine(Rejected(s))
<1>1. <<>> \in Seq(ActionType)
  OBVIOUS
<1> QED BY <1>1, FineResult DEF Rejected

(* Forwarding to the owner is fine. *)
LEMMA FineForwardToOwner ==
  ASSUME NEW s, Inv(s), Live(s), NEW type \in ServerMessages
  PROVE  Fine(ForwardToOwner(s, type))
<1>1. SEND(s.owner, type) \in ActionType
  BY PeersKnown, SendType
<1>2. <<SEND(s.owner, type)>> \in Seq(ActionType)
  BY <1>1
<1> QED BY <1>2, SentToOwnerInv, FineResult DEF ForwardToOwner

(* Forwarding to the receiver is fine. *)
LEMMA FineForwardToReceiver ==
  ASSUME NEW s, Inv(s), Live(s), HasReceiver(s), NEW type \in ServerMessages
  PROVE  Fine(ForwardToReceiver(s, type))
<1>1. SEND(s.receiver, type) \in ActionType
  BY PeersKnown, SendType
<1>2. <<SEND(s.receiver, type)>> \in Seq(ActionType)
  BY <1>1
<1> QED BY <1>2, SentToReceiverInv, FineResult DEF ForwardToReceiver

(* #detachReceiver is fine. *)
LEMMA FineDetach ==
  ASSUME NEW s, Inv(s), Live(s), NEW t \in Nat, NEW k \in BOOLEAN, NEW a
  PROVE  Fine(DetachReceiver(s, t, k, a))
<1> DEFINE close == IF HasReceiver(s) /\ k THEN <<CLOSE(s.receiver.connection)>> ELSE <<>>
<1>1. close \in Seq(ActionType)
  BY PeersKnown, CloseType
<1>2. SEND(s.owner, "RECEIVER_DISCONNECTED") \in ActionType
  BY PeersKnown, SendType DEF ServerMessages
<1> HIDE DEF close
<1>3. Append(close, SEND(s.owner, "RECEIVER_DISCONNECTED")) \in Seq(ActionType)
  BY <1>1, <1>2
<1>4. Inv(SentToOwner(Detached(s, t)))
  BY DetachedInv, SentToOwnerInv
<1> QED BY <1>3, <1>4, FineResult DEF DetachReceiver, close

(* A last message and a close for one peer.                                *)
LEMMA FarewellType ==
  ASSUME NEW peer \in PeerType, peer.connection \in Conn, NEW type \in ServerMessages
  PROVE  <<SEND(peer, type), CLOSE(peer.connection)>> \in Seq(ActionType)
<1>1. SEND(peer, type) \in ActionType
  BY SendType
<1>2. CLOSE(peer.connection) \in ActionType
  BY CloseType
<1> QED BY <1>1, <1>2

(* #revoke is fine. *)
LEMMA FineRevoke ==
  ASSUME NEW s, Inv(s), Live(s), NEW k \in BOOLEAN, NEW a
  PROVE  Fine(Revoke(s, k, a))
<1> DEFINE p == IF HasReceiver(s)
                  THEN <<SEND(s.receiver, "SESSION_REVOKED"), CLOSE(s.receiver.connection)>> ELSE <<>>
           q == IF k THEN <<SEND(s.owner, "SESSION_REVOKED"), CLOSE(s.owner.connection)>> ELSE <<>>
<1>1. p \in Seq(ActionType)
  BY PeersKnown, FarewellType DEF ServerMessages
<1>2. q \in Seq(ActionType)
  BY PeersKnown, FarewellType DEF ServerMessages
<1> HIDE DEF p, q
<1>3. p \o q \in Seq(ActionType)
  BY <1>1, <1>2
<1> QED BY <1>3, NoSessionInv, FineResult DEF Revoke, p, q

(* #expire is fine. *)
LEMMA FineExpire ==
  ASSUME NEW s, Inv(s), Live(s)
  PROVE  Fine(Expire(s))
<1> DEFINE p == IF HasReceiver(s)
                  THEN <<SEND(s.receiver, "SESSION_EXPIRED"), CLOSE(s.receiver.connection)>> ELSE <<>>
           q == <<SEND(s.owner, "SESSION_EXPIRED"), CLOSE(s.owner.connection)>>
<1>1. p \in Seq(ActionType)
  BY PeersKnown, FarewellType DEF ServerMessages
<1>2. q \in Seq(ActionType)
  BY PeersKnown, FarewellType DEF ServerMessages
<1> HIDE DEF p, q
<1>3. p \o q \in Seq(ActionType)
  BY <1>1, <1>2
<1> QED BY <1>3, NoSessionInv, FineResult DEF Expire, p, q
(* Whatever deadline was hit, its result is fine. *)
LEMMA FineDeadlines ==
  ASSUME NEW s, Inv(s), Live(s), NEW t \in Nat
  PROVE  Fine(DeadlineResult(s, t))
<1> DEFINE j == JoinExpired(s, t)
<1>1. Inv(j) /\ Live(j)
  BY JoinExpiredInv
<1>2. Fine(Expire(s)) /\ Fine(Revoke(s, TRUE, FALSE))
  BY FineExpire, FineRevoke
<1>3. Fine(Expire(j)) /\ Fine(DetachReceiver(j, t, TRUE, FALSE))
  BY <1>1, FineExpire, FineDetach
<1> QED BY <1>2, <1>3 DEF DeadlineResult

(* A peer that was sent a heartbeat is a peer of the type. *)
LEMMA HeartbeatPeerType ==
  ASSUME NEW p \in PeerType, NEW t \in Nat
  PROVE  HeartbeatPeer(p, t) \in PeerType /\ HeartbeatPeer(p, t).connection = p.connection
<1> DEFINE q == [p EXCEPT !.heartbeatSequence = p.heartbeatSequence + 1,
                          !.nextHeartbeat = t + HEARTBEAT_INTERVAL]
<1>1. p.heartbeatSequence + 1 \in Nat /\ t + HEARTBEAT_INTERVAL \in Nat
  BY LifetimesAssumption DEF PeerType
<1>2. q \in PeerType /\ q.connection = p.connection
  BY <1>1 DEF PeerType
<1> HIDE DEF q
<1>3. q.nextServerSequence + 1 \in Nat
  BY <1>2 DEF PeerType
<1>4. Advance(q) \in PeerType /\ Advance(q).connection = p.connection
  BY <1>2, <1>3 DEF Advance, PeerType
<1> QED BY <1>4 DEF HeartbeatPeer, q

(* tick is fine. *)
LEMMA FineTick ==
  ASSUME NEW s, Inv(s), Live(s), NEW t \in Nat
  PROVE  Fine(TickResult(s, t))
<1> DEFINE j == JoinExpired(s, t)
           o == HeartbeatPeer(j.owner, t)
           r == HeartbeatPeer(j.receiver, t)
           d == [j EXCEPT !.owner = o, !.receiver = r]
<1>1. Inv(j) /\ Live(j)
  BY JoinExpiredInv
<1> HIDE DEF j
<1>2. j \in SessionType /\ j.owner \in PeerType /\ j.receiver \in PeerType
  BY <1>1 DEF Inv, SessionType
<1>3. /\ o \in PeerType /\ o.connection = j.owner.connection
      /\ r \in PeerType /\ r.connection = j.receiver.connection
  BY <1>2, HeartbeatPeerType
<1> HIDE DEF o, r
<1>4. d \in SessionType
  BY <1>2, <1>3 DEF SessionType
<1>5. /\ d.phase = j.phase /\ d.owner = o /\ d.receiver = r /\ d.phaseDeadline = j.phaseDeadline
      /\ d.joinCapability = j.joinCapability /\ d.joinExpiresAt = j.joinExpiresAt
      /\ d.offerSeen = j.offerSeen /\ d.answerSeen = j.answerSeen
      /\ d.restartOfferPending = j.restartOfferPending
      /\ d.iceDisconnectedDeadline = j.iceDisconnectedDeadline
      /\ d.id = j.id /\ d.absoluteDeadline = j.absoluteDeadline
  BY <1>2 DEF SessionType
<1> HIDE DEF d
<1>6. HasReceiver(d) = HasReceiver(j)
  BY <1>3, <1>5 DEF HasReceiver
<1>7. PhaseFits(d) /\ Capped(d) /\ d.owner.connection \in Conn
  BY <1>1, <1>3, <1>5, <1>6 DEF Inv, PhaseFits, Capped
<1>8. Inv(d)
  BY <1>4, <1>7 DEF Inv
<1>9. HeartbeatActions(j, t) \in Seq(ActionType)
  <2>1. HeartbeatTo(j.owner, t) \in Seq(ActionType)
    <3>1. SEND(j.owner, "HEARTBEAT") \in ActionType
      BY <1>1, PeersKnown, SendType DEF ServerMessages
    <3> QED BY <3>1 DEF HeartbeatTo
  <2>2. HeartbeatTo(j.receiver, t) \in Seq(ActionType)
    <3>1. CASE HasReceiver(j)
      <4>1. SEND(j.receiver, "HEARTBEAT") \in ActionType
        BY <1>1, <3>1, PeersKnown, SendType DEF ServerMessages
      <4> QED BY <4>1 DEF HeartbeatTo
    <3>2. CASE ~HasReceiver(j)
      <4>1. HeartbeatTo(j.receiver, t) = <<>>
        BY <3>2 DEF HasReceiver, HeartbeatTo, HeartbeatDue
      <4> QED BY <4>1
    <3> QED BY <3>1, <3>2
  <2> QED BY <2>1, <2>2 DEF HeartbeatActions
<1>10. Fine(Result(d, TRUE, HeartbeatActions(j, t)))
  BY <1>8, <1>9, FineResult
<1>11. Fine(DeadlineResult(s, t))
  BY FineDeadlines
<1> QED BY <1>10, <1>11 DEF TickResult, d, o, r, j
----------------------------------------------------------------------------
(* What each handler does to the record, field by field.                   *)

LEMMA JoinOpenedInv ==
  ASSUME NEW s, Inv(s), Live(s), NEW t \in Nat, NEW fresh \in Nat, NEW e \in Nat,
         fresh # NoCapability, e <= s.absoluteDeadline,
         s.phase = "OWNER_ONLY"
  PROVE  Inv([s EXCEPT !.joinCapability = fresh, !.joinExpiresAt = e, !.phase = "JOIN_OPEN", !.phaseDeadline = e]) /\ Live([s EXCEPT !.joinCapability = fresh, !.joinExpiresAt = e, !.phase = "JOIN_OPEN", !.phaseDeadline = e])
<1> DEFINE d == [s EXCEPT !.joinCapability = fresh, !.joinExpiresAt = e, !.phase = "JOIN_OPEN", !.phaseDeadline = e]
<1>1. s \in SessionType /\ s.absoluteDeadline \in Nat
  BY DEF Inv, SessionType
<1>3. d \in SessionType
  BY <1>1 DEF SessionType, Phases, Deadlines, NoDeadline, NoCapability
<1>4. /\ d.phase = "JOIN_OPEN" /\ d.owner = s.owner /\ d.receiver = s.receiver
      /\ d.phaseDeadline = e /\ d.joinCapability = fresh
      /\ d.joinExpiresAt = e /\ d.offerSeen = s.offerSeen /\ d.answerSeen = s.answerSeen
      /\ d.restartOfferPending = s.restartOfferPending /\ d.iceDisconnectedDeadline = s.iceDisconnectedDeadline
      /\ d.id = s.id /\ d.absoluteDeadline = s.absoluteDeadline
  BY <1>1 DEF SessionType
<1> HIDE DEF d
<1>5. PhaseFits(d)
  BY <1>1, <1>4 DEF Inv, PhaseFits, Phases, HasReceiver, NoDeadline, NoCapability
<1>6. Capped(d)
  BY <1>1, <1>4 DEF Inv, Capped, NoDeadline
<1>7. Live(d) /\ d.owner.connection \in Conn
  BY <1>4 DEF Inv, Live
<1> QED BY <1>3, <1>5, <1>6, <1>7 DEF Inv, d

(* The owner's answer keeps Inv. *)
LEMMA AnsweredInv ==
  ASSUME NEW s, Inv(s), Live(s),
         s.phase = "JOIN_RESERVED", s.offerSeen
  PROVE  Inv([s EXCEPT !.answerSeen = TRUE, !.phase = "CONNECTED", !.phaseDeadline = NoDeadline]) /\ Live([s EXCEPT !.answerSeen = TRUE, !.phase = "CONNECTED", !.phaseDeadline = NoDeadline])
<1> DEFINE d == [s EXCEPT !.answerSeen = TRUE, !.phase = "CONNECTED", !.phaseDeadline = NoDeadline]
<1>1. s \in SessionType /\ s.absoluteDeadline \in Nat
  BY DEF Inv, SessionType
<1>3. d \in SessionType
  BY <1>1 DEF SessionType, Phases, Deadlines, NoDeadline, NoCapability
<1>4. /\ d.phase = "CONNECTED" /\ d.owner = s.owner /\ d.receiver = s.receiver
      /\ d.phaseDeadline = NoDeadline /\ d.joinCapability = s.joinCapability
      /\ d.joinExpiresAt = s.joinExpiresAt /\ d.offerSeen = s.offerSeen /\ d.answerSeen = TRUE
      /\ d.restartOfferPending = s.restartOfferPending /\ d.iceDisconnectedDeadline = s.iceDisconnectedDeadline
      /\ d.id = s.id /\ d.absoluteDeadline = s.absoluteDeadline
  BY <1>1 DEF SessionType
<1> HIDE DEF d
<1>5. PhaseFits(d)
  BY <1>1, <1>4 DEF Inv, PhaseFits, Phases, HasReceiver, NoDeadline, NoCapability
<1>6. Capped(d)
  BY <1>1, <1>4 DEF Inv, Capped, NoDeadline
<1>7. Live(d) /\ d.owner.connection \in Conn
  BY <1>4 DEF Inv, Live
<1> QED BY <1>3, <1>5, <1>6, <1>7 DEF Inv, d

(* The owner's restart answer keeps Inv. *)
LEMMA RestartAnsweredInv ==
  ASSUME NEW s, Inv(s), Live(s)
  PROVE  Inv([s EXCEPT !.restartOfferPending = FALSE]) /\ Live([s EXCEPT !.restartOfferPending = FALSE])
<1> DEFINE d == [s EXCEPT !.restartOfferPending = FALSE]
<1>1. s \in SessionType /\ s.absoluteDeadline \in Nat
  BY DEF Inv, SessionType
<1>3. d \in SessionType
  BY <1>1 DEF SessionType, Phases, Deadlines, NoDeadline, NoCapability
<1>4. /\ d.phase = s.phase /\ d.owner = s.owner /\ d.receiver = s.receiver
      /\ d.phaseDeadline = s.phaseDeadline /\ d.joinCapability = s.joinCapability
      /\ d.joinExpiresAt = s.joinExpiresAt /\ d.offerSeen = s.offerSeen /\ d.answerSeen = s.answerSeen
      /\ d.restartOfferPending = FALSE /\ d.iceDisconnectedDeadline = s.iceDisconnectedDeadline
      /\ d.id = s.id /\ d.absoluteDeadline = s.absoluteDeadline
  BY <1>1 DEF SessionType
<1> HIDE DEF d
<1>5. PhaseFits(d)
  BY <1>1, <1>4 DEF Inv, PhaseFits, Phases, HasReceiver, NoDeadline, NoCapability
<1>6. Capped(d)
  BY <1>1, <1>4 DEF Inv, Capped, NoDeadline
<1>7. Live(d) /\ d.owner.connection \in Conn
  BY <1>4 DEF Inv, Live
<1> QED BY <1>3, <1>5, <1>6, <1>7 DEF Inv, d

(* A restart offer keeps Inv. *)
LEMMA RestartOfferedInv ==
  ASSUME NEW s, Inv(s), Live(s), s.phase = "CONNECTED"
  PROVE  Inv([s EXCEPT !.restartOfferPending = TRUE]) /\ Live([s EXCEPT !.restartOfferPending = TRUE])
<1> DEFINE d == [s EXCEPT !.restartOfferPending = TRUE]
<1>1. s \in SessionType /\ s.absoluteDeadline \in Nat
  BY DEF Inv, SessionType
<1>3. d \in SessionType
  BY <1>1 DEF SessionType, Phases, Deadlines, NoDeadline, NoCapability
<1>4. /\ d.phase = s.phase /\ d.owner = s.owner /\ d.receiver = s.receiver
      /\ d.phaseDeadline = s.phaseDeadline /\ d.joinCapability = s.joinCapability
      /\ d.joinExpiresAt = s.joinExpiresAt /\ d.offerSeen = s.offerSeen /\ d.answerSeen = s.answerSeen
      /\ d.restartOfferPending = TRUE /\ d.iceDisconnectedDeadline = s.iceDisconnectedDeadline
      /\ d.id = s.id /\ d.absoluteDeadline = s.absoluteDeadline
  BY <1>1 DEF SessionType
<1> HIDE DEF d
<1>5. PhaseFits(d)
  BY <1>1, <1>4 DEF Inv, PhaseFits, Phases, HasReceiver, NoDeadline, NoCapability
<1>6. Capped(d)
  BY <1>1, <1>4 DEF Inv, Capped, NoDeadline
<1>7. Live(d) /\ d.owner.connection \in Conn
  BY <1>4 DEF Inv, Live
<1> QED BY <1>3, <1>5, <1>6, <1>7 DEF Inv, d

(* An offer keeps Inv. *)
LEMMA OfferedInv ==
  ASSUME NEW s, Inv(s), Live(s), s.phase = "JOIN_RESERVED"
  PROVE  Inv([s EXCEPT !.offerSeen = TRUE]) /\ Live([s EXCEPT !.offerSeen = TRUE])
<1> DEFINE d == [s EXCEPT !.offerSeen = TRUE]
<1>1. s \in SessionType /\ s.absoluteDeadline \in Nat
  BY DEF Inv, SessionType
<1>3. d \in SessionType
  BY <1>1 DEF SessionType, Phases, Deadlines, NoDeadline, NoCapability
<1>4. /\ d.phase = s.phase /\ d.owner = s.owner /\ d.receiver = s.receiver
      /\ d.phaseDeadline = s.phaseDeadline /\ d.joinCapability = s.joinCapability
      /\ d.joinExpiresAt = s.joinExpiresAt /\ d.offerSeen = TRUE /\ d.answerSeen = s.answerSeen
      /\ d.restartOfferPending = s.restartOfferPending /\ d.iceDisconnectedDeadline = s.iceDisconnectedDeadline
      /\ d.id = s.id /\ d.absoluteDeadline = s.absoluteDeadline
  BY <1>1 DEF SessionType
<1> HIDE DEF d
<1>5. PhaseFits(d)
  BY <1>1, <1>4 DEF Inv, PhaseFits, Phases, HasReceiver, NoDeadline, NoCapability
<1>6. Capped(d)
  BY <1>1, <1>4 DEF Inv, Capped, NoDeadline
<1>7. Live(d) /\ d.owner.connection \in Conn
  BY <1>4 DEF Inv, Live
<1> QED BY <1>3, <1>5, <1>6, <1>7 DEF Inv, d

(* A connected receiver keeps Inv. *)
LEMMA IceConnectedInv ==
  ASSUME NEW s, Inv(s), Live(s)
  PROVE  Inv([s EXCEPT !.iceDisconnectedDeadline = NoDeadline]) /\ Live([s EXCEPT !.iceDisconnectedDeadline = NoDeadline])
<1> DEFINE d == [s EXCEPT !.iceDisconnectedDeadline = NoDeadline]
<1>1. s \in SessionType /\ s.absoluteDeadline \in Nat
  BY DEF Inv, SessionType
<1>3. d \in SessionType
  BY <1>1 DEF SessionType, Phases, Deadlines, NoDeadline, NoCapability
<1>4. /\ d.phase = s.phase /\ d.owner = s.owner /\ d.receiver = s.receiver
      /\ d.phaseDeadline = s.phaseDeadline /\ d.joinCapability = s.joinCapability
      /\ d.joinExpiresAt = s.joinExpiresAt /\ d.offerSeen = s.offerSeen /\ d.answerSeen = s.answerSeen
      /\ d.restartOfferPending = s.restartOfferPending /\ d.iceDisconnectedDeadline = NoDeadline
      /\ d.id = s.id /\ d.absoluteDeadline = s.absoluteDeadline
  BY <1>1 DEF SessionType
<1> HIDE DEF d
<1>5. PhaseFits(d)
  BY <1>1, <1>4 DEF Inv, PhaseFits, Phases, HasReceiver, NoDeadline, NoCapability
<1>6. Capped(d)
  BY <1>1, <1>4 DEF Inv, Capped, NoDeadline
<1>7. Live(d) /\ d.owner.connection \in Conn
  BY <1>4 DEF Inv, Live
<1> QED BY <1>3, <1>5, <1>6, <1>7 DEF Inv, d

(* A disconnected receiver keeps Inv. *)
LEMMA IceDisconnectedInv ==
  ASSUME NEW s, Inv(s), Live(s), s.phase = "CONNECTED",
         NEW e \in Nat, e <= s.absoluteDeadline
  PROVE  Inv([s EXCEPT !.iceDisconnectedDeadline = e]) /\ Live([s EXCEPT !.iceDisconnectedDeadline = e])
<1> DEFINE d == [s EXCEPT !.iceDisconnectedDeadline = e]
<1>1. s \in SessionType /\ s.absoluteDeadline \in Nat
  BY DEF Inv, SessionType
<1>3. d \in SessionType
  BY <1>1 DEF SessionType, Phases, Deadlines, NoDeadline, NoCapability
<1>4. /\ d.phase = s.phase /\ d.owner = s.owner /\ d.receiver = s.receiver
      /\ d.phaseDeadline = s.phaseDeadline /\ d.joinCapability = s.joinCapability
      /\ d.joinExpiresAt = s.joinExpiresAt /\ d.offerSeen = s.offerSeen /\ d.answerSeen = s.answerSeen
      /\ d.restartOfferPending = s.restartOfferPending /\ d.iceDisconnectedDeadline = e
      /\ d.id = s.id /\ d.absoluteDeadline = s.absoluteDeadline
  BY <1>1 DEF SessionType
<1> HIDE DEF d
<1>5. PhaseFits(d)
  BY <1>1, <1>4 DEF Inv, PhaseFits, Phases, HasReceiver, NoDeadline, NoCapability
<1>6. Capped(d)
  BY <1>1, <1>4 DEF Inv, Capped, NoDeadline
<1>7. Live(d) /\ d.owner.connection \in Conn
  BY <1>4 DEF Inv, Live
<1> QED BY <1>3, <1>5, <1>6, <1>7 DEF Inv, d

(* A new peer is a peer of the type. *)
LEMMA PeerTyped ==
  ASSUME NEW c \in Conn, NEW n \in Nat, NEW t \in Nat
  PROVE  Peer(c, n, t) \in PeerType /\ Peer(c, n, t).connection = c
<1>1. t + HEARTBEAT_INTERVAL \in Nat
  BY LifetimesAssumption
<1> QED BY <1>1 DEF Peer, PeerType

(* A reservation keeps Inv. *)
LEMMA ReservedInv ==
  ASSUME NEW s, Inv(s), Live(s), NEW c \in Conn, NEW t \in Nat, s.phase = "JOIN_OPEN"
  PROVE  Inv(Reserved(s, c, t)) /\ Live(Reserved(s, c, t)) /\ HasReceiver(Reserved(s, c, t))
<1> DEFINE e == Earlier(t + JOIN_RESERVATION_LIFETIME, s.absoluteDeadline)
           p == Peer(c, 2, t)
           d == Reserved(s, c, t)
<1>1. s \in SessionType /\ s.absoluteDeadline \in Nat
  BY DEF Inv, SessionType
<1>2. /\ e \in Nat /\ e <= s.absoluteDeadline
      /\ p \in PeerType /\ p.connection = c
  <2>1. t + JOIN_RESERVATION_LIFETIME \in Nat
    BY LifetimesAssumption
  <2> QED BY <1>1, <2>1, EarlierNat, PeerTyped
<1> HIDE DEF e, p
<1>3. d \in SessionType
  BY <1>1, <1>2 DEF Reserved, e, p, SessionType, Phases, Deadlines, NoDeadline, NoCapability
<1>4. /\ d.phase = "JOIN_RESERVED" /\ d.owner = s.owner /\ d.receiver = p
      /\ d.phaseDeadline = e /\ d.joinCapability = NoCapability /\ d.joinExpiresAt = NoDeadline
      /\ d.offerSeen = FALSE /\ d.answerSeen = FALSE /\ d.restartOfferPending = FALSE
      /\ d.iceDisconnectedDeadline = s.iceDisconnectedDeadline
      /\ d.id = s.id /\ d.absoluteDeadline = s.absoluteDeadline
  BY <1>1 DEF Reserved, e, p, SessionType
<1> HIDE DEF d
<1>5. HasReceiver(d)
  BY <1>2, <1>4 DEF HasReceiver
<1>6. PhaseFits(d)
  BY <1>2, <1>4, <1>5 DEF Inv, PhaseFits, Phases, NoDeadline
<1>7. Capped(d)
  BY <1>1, <1>2, <1>4 DEF Inv, Capped, NoDeadline
<1>8. Live(d) /\ d.owner.connection \in Conn
  BY <1>4 DEF Inv, Live
<1> QED BY <1>3, <1>5, <1>6, <1>7, <1>8 DEF Inv, d

(* #reserveJoin is fine. *)
LEMMA FineReserveJoin ==
  ASSUME NEW s, Inv(s), NEW c \in Conn, NEW m, NEW t \in Nat
  PROVE  Fine(ReserveJoin(s, c, m, t))
<1> DEFINE r == Reserved(s, c, t)
<1>1. CASE ~AdmitsReservation(s, m, t)
  BY <1>1, FineRejected DEF ReserveJoin
<1>2. CASE AdmitsReservation(s, m, t)
  <2>1. Inv(r) /\ Live(r) /\ HasReceiver(r)
    BY <1>2, ReservedInv DEF AdmitsReservation
  <2> HIDE DEF r
  <2>2. Inv(SentToOwner(SentToReceiver(r)))
    BY <2>1, SentToReceiverInv, SentToOwnerInv
  <2>3. SEND(r.receiver, "JOIN_RESERVED") \in ActionType
    BY <2>1, PeersKnown, SendType DEF ServerMessages
  <2>4. SEND(r.owner, "RECEIVER_RESERVED") \in ActionType
    BY <2>1, PeersKnown, SendType DEF ServerMessages
  <2>5. <<SEND(r.receiver, "JOIN_RESERVED"), SEND(r.owner, "RECEIVER_RESERVED")>> \in Seq(ActionType)
    BY <2>3, <2>4
  <2> QED BY <1>2, <2>2, <2>5 DEF ReserveJoin, Bound, Result, Fine, r
<1> QED BY <1>1, <1>2

(* #createSession is fine. *)
LEMMA FineCreateSession ==
  ASSUME NEW id \in Nat \ {0}, NEW c \in Conn, NEW m, NEW t \in Nat
  PROVE  Fine(CreateSession(id, c, m, t))
<1> DEFINE p == Peer(c, 2, t)
           a == t + ABSOLUTE_SESSION_LIFETIME
           o == t + OWNER_ONLY_LIFETIME
           d == [NoSession EXCEPT !.id = id, !.phase = "OWNER_ONLY", !.absoluteDeadline = a,
                                  !.phaseDeadline = o, !.owner = p]
<1>1. a \in Nat /\ o \in Nat /\ o <= a
  BY LifetimesAssumption
<1>2. p \in PeerType /\ p.connection = c
  BY PeerTyped
<1>3. NoSession \in SessionType
  BY NoSessionInv DEF Inv
<1> HIDE DEF p, a, o
<1>4. d \in SessionType
  BY <1>1, <1>2, <1>3 DEF SessionType, Phases, Deadlines
<1>5. /\ d.phase = "OWNER_ONLY" /\ d.owner = p /\ d.receiver = NoPeer
      /\ d.phaseDeadline = o /\ d.joinCapability = NoCapability /\ d.joinExpiresAt = NoDeadline
      /\ d.offerSeen = FALSE /\ d.answerSeen = FALSE /\ d.restartOfferPending = FALSE
      /\ d.iceDisconnectedDeadline = NoDeadline /\ d.id = id /\ d.absoluteDeadline = a
  BY DEF NoSession
<1> HIDE DEF d
<1>6. PhaseFits(d)
  BY <1>1, <1>5 DEF PhaseFits, Phases, HasReceiver, NoPeer, NoDeadline
<1>7. Capped(d)
  BY <1>1, <1>5 DEF Capped, NoDeadline
<1>8. Inv(d) /\ Live(d)
  BY <1>2, <1>4, <1>5, <1>6, <1>7 DEF Inv, Live
<1>9. Fine(ForwardToOwner(d, "SESSION_CREATED"))
  BY <1>8, FineForwardToOwner DEF ServerMessages
<1>10. Fine(Rejected(NoSession))
  BY NoSessionInv, FineRejected
<1>11. CASE m.sequence # 1
  BY <1>10, <1>11 DEF CreateSession
<1>12. CASE m.sequence = 1
  BY <1>9, <1>12 DEF CreateSession, Bound, ForwardToOwner, Result, Fine, d, a, o, p
<1> QED BY <1>11, <1>12
----------------------------------------------------------------------------
(* #createJoin is fine. *)
LEMMA FineCreateJoin ==
  ASSUME NEW s, Inv(s), Live(s), NEW fresh \in Nat \ {0}, NEW t \in Nat
  PROVE  Fine(CreateJoin(s, fresh, t))
<1> DEFINE e == Earlier(t + JOIN_CAPABILITY_LIFETIME, s.absoluteDeadline)
<1>1. e \in Nat /\ e <= s.absoluteDeadline
  <2>1. s.absoluteDeadline \in Nat /\ t + JOIN_CAPABILITY_LIFETIME \in Nat
    BY LifetimesAssumption DEF Inv, SessionType
  <2> QED BY <2>1, EarlierNat
<1> HIDE DEF e
<1>2. CASE s.phase # "OWNER_ONLY" \/ HasReceiver(s) \/ s.joinCapability # NoCapability
  BY <1>2, FineRevoke DEF CreateJoin, OwnerStateFailure
<1>3. CASE ~(s.phase # "OWNER_ONLY" \/ HasReceiver(s) \/ s.joinCapability # NoCapability)
  <2> DEFINE d == [s EXCEPT !.joinCapability = fresh, !.joinExpiresAt = e,
                            !.phase = "JOIN_OPEN", !.phaseDeadline = e]
  <2>1. Inv(d) /\ Live(d)
    BY <1>1, <1>3, JoinOpenedInv DEF NoCapability
  <2> HIDE DEF d
  <2>2. Fine(ForwardToOwner(d, "JOIN_CREATED"))
    BY <2>1, FineForwardToOwner DEF ServerMessages
  <2> QED BY <1>3, <2>2 DEF CreateJoin, d, e
<1> QED BY <1>2, <1>3

(* Both answers of the owner are fine. *)
LEMMA FineOwnerAnswers ==
  ASSUME NEW s, Inv(s), Live(s)
  PROVE  Fine(OwnerAnswer(s)) /\ Fine(OwnerRestartAnswer(s)) /\ Fine(OwnerCandidate(s))
<1>1. Fine(OwnerStateFailure(s))
  BY FineRevoke DEF OwnerStateFailure
<1>2. Fine(OwnerAnswer(s))
  <2>1. CASE ~HasReceiver(s) \/ s.phase # "JOIN_RESERVED" \/ ~s.offerSeen \/ s.answerSeen
    BY <1>1, <2>1 DEF OwnerAnswer
  <2>2. CASE ~(~HasReceiver(s) \/ s.phase # "JOIN_RESERVED" \/ ~s.offerSeen \/ s.answerSeen)
    <3> DEFINE d == [s EXCEPT !.answerSeen = TRUE, !.phase = "CONNECTED",
                              !.phaseDeadline = NoDeadline]
    <3>1. Inv(d) /\ Live(d)
      BY <2>2, AnsweredInv
    <3>2. HasReceiver(d)
      BY <2>2 DEF HasReceiver, Inv, SessionType
    <3> HIDE DEF d
    <3>3. Fine(ForwardToReceiver(d, "OWNER_ANSWER"))
      BY <3>1, <3>2, FineForwardToReceiver DEF ServerMessages
    <3> QED BY <2>2, <3>3 DEF OwnerAnswer, d
  <2> QED BY <2>1, <2>2
<1>3. Fine(OwnerRestartAnswer(s))
  <2>1. CASE ~HasReceiver(s) \/ s.phase # "CONNECTED" \/ ~s.restartOfferPending
    BY <1>1, <2>1 DEF OwnerRestartAnswer
  <2>2. CASE ~(~HasReceiver(s) \/ s.phase # "CONNECTED" \/ ~s.restartOfferPending)
    <3> DEFINE d == [s EXCEPT !.restartOfferPending = FALSE]
    <3>1. Inv(d) /\ Live(d)
      BY RestartAnsweredInv
    <3>2. HasReceiver(d)
      BY <2>2 DEF HasReceiver, Inv, SessionType
    <3> HIDE DEF d
    <3>3. Fine(ForwardToReceiver(d, "OWNER_ICE_RESTART_ANSWER"))
      BY <3>1, <3>2, FineForwardToReceiver DEF ServerMessages
    <3> QED BY <2>2, <3>3 DEF OwnerRestartAnswer, d
  <2> QED BY <2>1, <2>2
<1>4. Fine(OwnerCandidate(s))
  <2>1. HasReceiver(s) => Fine(ForwardToReceiver(s, "OWNER_ICE_CANDIDATE"))
    BY FineForwardToReceiver DEF ServerMessages
  <2> QED BY <1>1, <2>1 DEF OwnerCandidate
<1> QED BY <1>2, <1>3, <1>4

(* Every message of the owner is fine. *)
LEMMA FineOwnerMessage ==
  ASSUME NEW s, Inv(s), Live(s), NEW m, NEW fresh \in Nat \ {0}, NEW t \in Nat
  PROVE  Fine(OwnerMessage(s, m, fresh, t))
<1>1. Fine(OwnerHeartbeatAck(s, m))
  <2>1. Fine(Result(s, TRUE, <<>>))
    <3>1. <<>> \in Seq(ActionType)
      OBVIOUS
    <3> QED BY <3>1, FineResult
  <2> QED BY <2>1, FineRevoke DEF OwnerHeartbeatAck, OwnerStateFailure
<1>2. Fine(Revoke(s, TRUE, TRUE))
  BY FineRevoke
<1> QED BY <1>1, <1>2, FineCreateJoin, FineOwnerAnswers DEF OwnerMessage

(* #handleOwner is fine. *)
LEMMA FineHandleOwner ==
  ASSUME NEW s, Inv(s), NEW c, NEW m, NEW fresh \in Nat \ {0}, NEW t \in Nat
  PROVE  Fine(HandleOwner(s, c, m, fresh, t))
<1> DEFINE j == JoinExpired(s, t)
<1>1. Inv(j) /\ (Live(s) <=> Live(j))
  BY JoinExpiredInv
<1> HIDE DEF j
<1>2. Live(s) => Fine(DeadlineResult(s, t))
  BY FineDeadlines
<1>3. OwnerAuthentic(j, c, m) => Fine(OwnerMessage(OwnerActive(j, t), m, fresh, t))
  BY <1>1, OwnerActiveInv, FineOwnerMessage DEF OwnerAuthentic
<1>4. Live(j) => Fine(Revoke(j, TRUE, FALSE))
  BY <1>1, FineRevoke
<1>5. Fine(Rejected(j))
  BY <1>1, FineRejected
<1> QED BY <1>2, <1>3, <1>4, <1>5 DEF HandleOwner, j
----------------------------------------------------------------------------
(* Both offers of the receiver are fine. *)
LEMMA FineOffers ==
  ASSUME NEW s, Inv(s), Live(s), NEW t \in Nat
  PROVE  /\ Fine(ReceiverOffer(s, t)) /\ Fine(ReceiverRestartOffer(s, t))
         /\ Fine(ReceiverCandidate(s, t))
<1>1. Fine(DetachReceiver(s, t, TRUE, FALSE))
  BY FineDetach
<1>2. Fine(ReceiverOffer(s, t))
  <2>1. s.phase = "JOIN_RESERVED" => Fine(ForwardToOwner([s EXCEPT !.offerSeen = TRUE], "RECEIVER_OFFER"))
    BY OfferedInv, FineForwardToOwner DEF ServerMessages
  <2> QED BY <1>1, <2>1 DEF ReceiverOffer
<1>3. Fine(ReceiverRestartOffer(s, t))
  <2>1. s.phase = "CONNECTED" =>
          Fine(ForwardToOwner([s EXCEPT !.restartOfferPending = TRUE], "RECEIVER_ICE_RESTART_OFFER"))
    BY RestartOfferedInv, FineForwardToOwner DEF ServerMessages
  <2> QED BY <1>1, <2>1 DEF ReceiverRestartOffer
<1>4. Fine(ReceiverCandidate(s, t))
  <2>1. Fine(ForwardToOwner(s, "RECEIVER_ICE_CANDIDATE"))
    BY FineForwardToOwner DEF ServerMessages
  <2> QED BY <1>1, <2>1 DEF ReceiverCandidate
<1> QED BY <1>2, <1>3, <1>4

(* #receiverIceState is fine. *)
LEMMA FineIceState ==
  ASSUME NEW s, Inv(s), Live(s), NEW i, NEW t \in Nat
  PROVE  Fine(ReceiverIceState(s, i, t))
<1> DEFINE e == Earlier(t + ICE_DISCONNECTED_GRACE, s.absoluteDeadline)
<1>1. e \in Nat /\ e <= s.absoluteDeadline
  <2>1. s.absoluteDeadline \in Nat /\ t + ICE_DISCONNECTED_GRACE \in Nat
    BY LifetimesAssumption DEF Inv, SessionType
  <2> QED BY <2>1, EarlierNat
<1> HIDE DEF e
<1>2. <<>> \in Seq(ActionType)
  OBVIOUS
<1>3. Fine(OwnerStateFailure(s))
  BY FineRevoke DEF OwnerStateFailure
<1>4. Fine(Result([s EXCEPT !.iceDisconnectedDeadline = NoDeadline], TRUE, <<>>))
  BY <1>2, IceConnectedInv, FineResult
<1>5. s.phase = "CONNECTED" => Fine(Result([s EXCEPT !.iceDisconnectedDeadline = e], TRUE, <<>>))
  BY <1>1, <1>2, IceDisconnectedInv, FineResult
<1>6. Fine(DetachReceiver(s, t, TRUE, TRUE))
  BY FineDetach
<1> QED BY <1>3, <1>4, <1>5, <1>6 DEF ReceiverIceState, e

(* Every message of the receiver is fine. *)
LEMMA FineReceiverMessage ==
  ASSUME NEW s, Inv(s), Live(s), NEW m, NEW t \in Nat
  PROVE  Fine(ReceiverMessage(s, m, t))
<1>1. Fine(DetachReceiver(s, t, TRUE, FALSE))
  BY FineDetach
<1>2. Fine(ReceiverHeartbeatAck(s, m, t))
  <2>1. Fine(Result(s, TRUE, <<>>))
    <3>1. <<>> \in Seq(ActionType)
      OBVIOUS
    <3> QED BY <3>1, FineResult
  <2> QED BY <1>1, <2>1 DEF ReceiverHeartbeatAck
<1>3. Fine(ReceiverIceState(s, m.iceState, t))
  BY FineIceState
<1> QED BY <1>1, <1>2, <1>3, FineOffers DEF ReceiverMessage

(* #handleReceiver is fine. *)
LEMMA FineHandleReceiver ==
  ASSUME NEW s, Inv(s), NEW c, NEW m, NEW t \in Nat
  PROVE  Fine(HandleReceiver(s, c, m, t))
<1> DEFINE j == JoinExpired(s, t)
<1>1. Inv(j) /\ (Live(s) <=> Live(j))
  BY JoinExpiredInv
<1> HIDE DEF j
<1>2. Live(s) => Fine(DeadlineResult(s, t))
  BY FineDeadlines
<1>3. ReceiverAuthentic(j, c, m) => Fine(ReceiverMessage(ReceiverActive(j, t), m, t))
  BY <1>1, ReceiverActiveInv, FineReceiverMessage DEF ReceiverAuthentic
<1>4. Live(j) => Fine(DetachReceiver(j, t, TRUE, FALSE))
  BY <1>1, FineDetach
<1>5. Fine(Rejected(j))
  BY <1>1, FineRejected
<1> QED BY <1>2, <1>3, <1>4, <1>5 DEF HandleReceiver, j

(* disconnect is fine. *)
LEMMA FineDisconnect ==
  ASSUME NEW s, Inv(s), NEW role, NEW c, NEW t \in Nat
  PROVE  Fine(Disconnect(s, role, c, t))
<1>1. Live(s) => Fine(Revoke(s, FALSE, TRUE)) /\ Fine(DetachReceiver(s, t, FALSE, TRUE))
  BY FineRevoke, FineDetach
<1>2. Fine(Result(s, TRUE, <<>>))
  <2>1. <<>> \in Seq(ActionType)
    OBVIOUS
  <2> QED BY <2>1, FineResult
<1> QED BY <1>1, <1>2 DEF Disconnect
----------------------------------------------------------------------------
(* The inductive invariant: types, and Inv of the stored session.          *)
StoreInv == TypeOK /\ Inv(session)

(* What a call leaves in the store satisfies Inv. *)
LEMMA StoredInv ==
  ASSUME StoreInv, NEW id, NEW r, Fine(r)
  PROVE  Inv(SessionNamed(id)) /\ Inv(Stored(id, r)) /\ r.actions \in Seq(ActionType)
BY NoSessionInv DEF StoreInv, SessionNamed, Stored, Fine

(* The session a call works on satisfies Inv. *)
LEMMA NamedInv ==
  ASSUME StoreInv, NEW id
  PROVE  Inv(SessionNamed(id))
BY NoSessionInv DEF StoreInv, SessionNamed

(* What a message leaves pending is typed. *)
LEMMA FinishTyped ==
  ASSUME NEW c \in Conn, NEW r, Fine(r), Finish(c, r)
  PROVE  pending' \in Seq(ActionType)
<1>1. r.actions \in Seq(ActionType) /\ CLOSE(c) \in ActionType
  BY CloseType DEF Fine
<1>2. Append(r.actions, CLOSE(c)) \in Seq(ActionType)
  BY <1>1
<1> QED BY <1>1, <1>2 DEF Finish

(* The result of a connection's disconnect is fine. *)
LEMMA DisconnectFine ==
  ASSUME StoreInv, NEW c \in Conn
  PROVE  Fine(DisconnectResult(c))
<1>1. now \in Nat
  BY DEF StoreInv, TypeOK
<1> QED BY <1>1, NamedInv, FineDisconnect DEF DisconnectResult

(* StoreInv holds initially. *)
LEMMA InitStoreInv == Init => StoreInv
<1> SUFFICES ASSUME Init PROVE StoreInv
  OBVIOUS
<1>1. Inv(session)
  BY NoSessionInv DEF Init
<1>2. session \in SessionType
  BY <1>1 DEF Inv
<1>3. binding \in [Conn -> [role : Roles, session : Nat]]
  BY DEF Init, Unbound, Roles
<1>4. pending \in Seq(ActionType)
  BY DEF Init
<1>5. issued \in Seq(IssueType)
  BY DEF Init
<1>6. admitted \in Seq(AdmissionType)
  BY DEF Init
<1>7. now \in Nat /\ created \in Nat /\ delivered \in [Conn -> SUBSET Nat] /\ socket \in [Conn -> SocketStates]
  BY DEF Init, SocketStates
<1> QED BY <1>1, <1>2, <1>3, <1>4, <1>5, <1>6, <1>7 DEF StoreInv, TypeOK

(* Whatever an action does to the rest, it is enough that it stores a good *)
(* session and queues well-formed actions.                                 *)
LEMMA DispatchStoreInv ==
  ASSUME StoreInv, Dispatch
  PROVE  StoreInv'
<1> DEFINE h == Head(pending)
<1>1. pending \in Seq(ActionType) /\ pending # <<>>
  BY DEF StoreInv, TypeOK, Dispatch, DispatchSkip, DispatchClose, DispatchSend,
         DispatchBackpressure, Dispatchable
<1>2. h \in ActionType /\ Tail(pending) \in Seq(ActionType)
  BY <1>1
<1>3. h.connection \in Conn /\ h.sequence \in Nat
  BY <1>2 DEF ActionType
<1> HIDE DEF h
<1>4. CASE DispatchSkip
  BY <1>2, <1>4 DEF StoreInv, TypeOK, DispatchSkip
<1>5. CASE DispatchClose
  <2>1. socket' \in [Conn -> SocketStates]
    BY <1>3, <1>5 DEF StoreInv, TypeOK, DispatchClose, SocketStates, Head1, h
  <2> QED BY <1>2, <1>5, <2>1 DEF StoreInv, TypeOK, DispatchClose
<1>6. CASE DispatchSend
  <2>1. delivered' \in [Conn -> SUBSET Nat]
    BY <1>3, <1>6 DEF StoreInv, TypeOK, DispatchSend, Head1, h
  <2> QED BY <1>2, <1>6, <2>1 DEF StoreInv, TypeOK, DispatchSend
<1>7. CASE DispatchBackpressure
  <2> DEFINE r == DisconnectResult(h.connection)
  <2>1. Fine(r)
    BY <1>3, DisconnectFine
  <2> HIDE DEF r
  <2>2. Inv(session')
    BY <1>7, <2>1, StoredInv DEF DispatchBackpressure, Head1, h, r
  <2>3. pending' \in Seq(ActionType)
    <3>1. r.actions \in Seq(ActionType)
      BY <2>1 DEF Fine
    <3>2. pending' = r.actions \o Tail(pending)
      BY <1>7 DEF DispatchBackpressure, Head1, h, r
    <3> QED BY <1>2, <3>1, <3>2
  <2>4. socket' \in [Conn -> SocketStates]
    BY <1>3, <1>7 DEF StoreInv, TypeOK, DispatchBackpressure, SocketStates, Head1, h
  <2> QED BY <1>7, <2>2, <2>3, <2>4 DEF StoreInv, TypeOK, DispatchBackpressure, Inv
<1> QED BY <1>4, <1>5, <1>6, <1>7 DEF Dispatch

(* Connects, failures, closes and timeouts keep StoreInv. *)
LEMMA ConnectionStoreInv ==
  ASSUME StoreInv, NEW c \in Conn,
         Connect(c) \/ FailConnection(c) \/ SocketClosed(c) \/ FirstMessageTimeout(c)
  PROVE  StoreInv'
<1> DEFINE r == DisconnectResult(c)
<1>1. Fine(r)
  BY DisconnectFine
<1> HIDE DEF r
<1>2. r.actions \in Seq(ActionType) /\ Inv(Stored(binding[c].session, r))
  BY <1>1, StoredInv
<1>3. CASE Connect(c) \/ FirstMessageTimeout(c)
  <2>1. socket' \in [Conn -> SocketStates]
    BY <1>3 DEF StoreInv, TypeOK, Connect, FirstMessageTimeout, SocketStates
  <2> QED BY <1>3, <2>1 DEF StoreInv, TypeOK, Connect, FirstMessageTimeout
<1>4. CASE FailConnection(c)
  <2>1. Inv(session') /\ session' \in SessionType
    BY <1>2, <1>4 DEF FailConnection, r, Inv
  <2>2. pending' \in Seq(ActionType)
    <3>1. CLOSE(c) \in ActionType
      BY CloseType
    <3>2. pending' = Append(r.actions, CLOSE(c))
      BY <1>4 DEF FailConnection, r
    <3> QED BY <1>2, <3>1, <3>2
  <2> QED BY <1>4, <2>1, <2>2 DEF StoreInv, TypeOK, FailConnection
<1>5. CASE SocketClosed(c)
  <2>1. Inv(session') /\ session' \in SessionType /\ pending' \in Seq(ActionType)
    BY <1>2, <1>5 DEF SocketClosed, r, Inv
  <2>2. socket' \in [Conn -> SocketStates]
    BY <1>5 DEF StoreInv, TypeOK, SocketClosed, SocketStates
  <2> QED BY <1>5, <2>1, <2>2 DEF StoreInv, TypeOK, SocketClosed
<1> QED BY <1>3, <1>4, <1>5

(* The tick and the clock keep StoreInv. *)
LEMMA TimeStoreInv ==
  ASSUME StoreInv, Tick \/ AdvanceTime
  PROVE  StoreInv'
<1>1. CASE Tick
  <2>1. Fine(TickResult(session, now))
    BY <1>1, FineTick DEF StoreInv, TypeOK, Tick
  <2>2. Inv(session') /\ session' \in SessionType /\ pending' \in Seq(ActionType)
    BY <1>1, <2>1 DEF Tick, Fine, Inv
  <2> QED BY <1>1, <2>2 DEF StoreInv, TypeOK, Tick
<1>2. CASE AdvanceTime
  BY <1>2 DEF StoreInv, TypeOK, AdvanceTime
<1> QED BY <1>1, <1>2

(* A first message is typed. *)
LEMMA FirstMessageTyped ==
  ASSUME StoreInv, NEW m \in FirstMessages
  PROVE  m.sessionId \in Nat /\ m.credential \in Nat
<1>1. created \in Nat /\ Len(issued) \in Nat
  BY DEF StoreInv, TypeOK
<1> QED BY <1>1 DEF FirstMessages, Message

(* A new binding is typed. *)
LEMMA BindTyped ==
  ASSUME StoreInv, NEW c \in Conn, NEW r, NEW id \in Nat, Bind(c, r, id), r.binding \in Roles
  PROVE  binding' \in [Conn -> [role : Roles, session : Nat]]
<1>1. [role |-> r.binding, session |-> id] \in [role : Roles, session : Nat]
  OBVIOUS
<1>2. binding \in [Conn -> [role : Roles, session : Nat]]
  BY DEF StoreInv, TypeOK
<1> QED BY <1>1, <1>2 DEF Bind

(* Messages of unbound connections keep StoreInv. *)
LEMMA HandleUnboundStoreInv ==
  ASSUME StoreInv, NEW c \in Conn, NEW m \in FirstMessages,
         HandleCreateSession(c, m) \/ HandleReserveJoin(c, m) \/ HandleUnbound(c, m)
  PROVE  StoreInv'
<1>1. m.sessionId \in Nat /\ m.credential \in Nat
  BY FirstMessageTyped
<1>2. now \in Nat /\ created \in Nat
  BY DEF StoreInv, TypeOK
<1>3. Fine(Rejected(session)) /\ Rejected(session).binding \in Roles
  <2>1. Fine(Rejected(session))
    BY FineRejected DEF StoreInv
  <2> QED BY <2>1 DEF Rejected, Result, Roles
<1>4. CASE HandleCreateSession(c, m)
  <2> DEFINE id == created + 1
             r  == IF Live(session) THEN Rejected(session) ELSE CreateSession(id, c, m, now)
  <2>1. Fine(r)
    BY <1>2, <1>3, FineCreateSession
  <2>2. r.binding \in Roles
    BY <1>3 DEF CreateSession, Rejected, Bound, ForwardToOwner, Result, Roles
  <2> HIDE DEF r
  <2>3. /\ session' = r.session /\ created' = (IF r.accepted THEN id ELSE created)
        /\ Bind(c, r, id) /\ Finish(c, r)
    BY <1>4 DEF HandleCreateSession, r
  <2>4. id \in Nat
    BY <1>2
  <2> HIDE DEF id
  <2>5. binding' \in [Conn -> [role : Roles, session : Nat]]
    BY <2>2, <2>3, <2>4, BindTyped
  <2>6. pending' \in Seq(ActionType)
    BY <2>1, <2>3, FinishTyped
  <2>7. Inv(session') /\ session' \in SessionType /\ created' \in Nat
    BY <1>2, <2>1, <2>3, <2>4 DEF Fine, Inv
  <2> QED BY <1>4, <2>5, <2>6, <2>7 DEF StoreInv, TypeOK, HandleCreateSession
<1>5. CASE HandleReserveJoin(c, m)
  <2> DEFINE r == ReserveJoin(SessionNamed(m.sessionId), c, m, now)
             a == [capability |-> m.credential, connection |-> c, at |-> now]
  <2>1. Fine(r)
    BY <1>2, NamedInv, FineReserveJoin
  <2>2. r.binding \in Roles
    BY DEF ReserveJoin, Rejected, Bound, Result, Roles
  <2> HIDE DEF r
  <2>3. /\ session' = Stored(m.sessionId, r)
        /\ Bind(c, r, m.sessionId) /\ Finish(c, r)
        /\ admitted' = (IF r.accepted THEN Append(admitted, a) ELSE admitted)
    BY <1>5 DEF HandleReserveJoin, r
  <2>4. binding' \in [Conn -> [role : Roles, session : Nat]]
    BY <1>1, <2>2, <2>3, BindTyped
  <2>5. pending' \in Seq(ActionType)
    BY <2>1, <2>3, FinishTyped
  <2>6. Inv(session') /\ session' \in SessionType
    BY <2>1, <2>3, StoredInv DEF Inv
  <2>7. admitted' \in Seq(AdmissionType)
    <3>1. a \in AdmissionType
      BY <1>1, <1>2 DEF AdmissionType
    <3>2. admitted \in Seq(AdmissionType)
      BY DEF StoreInv, TypeOK
    <3> HIDE DEF a
    <3> QED BY <2>3, <3>1, <3>2
  <2> QED BY <1>5, <2>4, <2>5, <2>6, <2>7 DEF StoreInv, TypeOK, HandleReserveJoin
<1>6. CASE HandleUnbound(c, m)
  <2>1. pending' \in Seq(ActionType)
    BY <1>3, <1>6, FinishTyped DEF HandleUnbound
  <2> QED BY <1>6, <2>1 DEF StoreInv, TypeOK, HandleUnbound
<1> QED BY <1>4, <1>5, <1>6

(* Messages of bound connections keep StoreInv. *)
LEMMA HandleBoundStoreInv ==
  ASSUME StoreInv, NEW c \in Conn, NEW m, HandleOwnerMessage(c, m) \/ HandleReceiverMessage(c, m)
  PROVE  StoreInv'
<1>1. now \in Nat /\ Len(issued) \in Nat /\ Len(issued) + 1 \in Nat \ {0}
      /\ binding[c].session \in Nat
  BY DEF StoreInv, TypeOK
<1>2. CASE HandleOwnerMessage(c, m)
  <2> DEFINE id    == binding[c].session
             fresh == Len(issued) + 1
             r     == HandleOwner(SessionNamed(id), c, m, fresh, now)
             i     == [session |-> id, at |-> now]
  <2>1. Fine(r)
    BY <1>1, NamedInv, FineHandleOwner
  <2> HIDE DEF r
  <2>2. /\ session' = Stored(id, r) /\ Finish(c, r)
        /\ issued' = (IF Stored(id, r).joinCapability = fresh THEN Append(issued, i) ELSE issued)
    BY <1>2 DEF HandleOwnerMessage, r
  <2>3. pending' \in Seq(ActionType)
    BY <2>1, <2>2, FinishTyped
  <2>4. Inv(session') /\ session' \in SessionType
    BY <2>1, <2>2, StoredInv DEF Inv
  <2>5. issued' \in Seq(IssueType)
    <3>1. i \in IssueType
      BY <1>1 DEF IssueType
    <3>2. issued \in Seq(IssueType)
      BY DEF StoreInv, TypeOK
    <3> HIDE DEF i
    <3> QED BY <2>2, <3>1, <3>2
  <2> QED BY <1>2, <2>3, <2>4, <2>5 DEF StoreInv, TypeOK, HandleOwnerMessage
<1>3. CASE HandleReceiverMessage(c, m)
  <2> DEFINE id == binding[c].session
             r  == HandleReceiver(SessionNamed(id), c, m, now)
  <2>1. Fine(r)
    BY <1>1, NamedInv, FineHandleReceiver
  <2> HIDE DEF r
  <2>2. session' = Stored(id, r) /\ Finish(c, r)
    BY <1>3 DEF HandleReceiverMessage, r
  <2>3. pending' \in Seq(ActionType)
    BY <2>1, <2>2, FinishTyped
  <2>4. Inv(session') /\ session' \in SessionType
    BY <2>1, <2>2, StoredInv DEF Inv
  <2> QED BY <1>3, <2>3, <2>4 DEF StoreInv, TypeOK, HandleReceiverMessage
<1> QED BY <1>2, <1>3

(* Every step keeps StoreInv. *)
LEMMA NextStoreInv == StoreInv /\ [Next]_vars => StoreInv'
<1> SUFFICES ASSUME StoreInv, [Next]_vars PROVE StoreInv'
  OBVIOUS
<1>1. CASE UNCHANGED vars
  BY <1>1 DEF StoreInv, TypeOK, vars
<1>2. ASSUME NEW c \in Conn, Handle(c) PROVE StoreInv'
  <2>1. CASE \E m \in FirstMessages :
               HandleCreateSession(c, m) \/ HandleReserveJoin(c, m) \/ HandleUnbound(c, m)
    BY <2>1, HandleUnboundStoreInv
  <2>2. CASE \E m \in BoundMessages(c) : HandleOwnerMessage(c, m) \/ HandleReceiverMessage(c, m)
    BY <2>2, HandleBoundStoreInv
  <2> QED BY <1>2, <2>1, <2>2 DEF Handle
<1>3. ASSUME NEW c \in Conn,
             Connect(c) \/ FailConnection(c) \/ SocketClosed(c) \/ FirstMessageTimeout(c)
      PROVE  StoreInv'
  BY <1>3, ConnectionStoreInv
<1>4. CASE Tick \/ AdvanceTime
  BY <1>4, TimeStoreInv
<1>5. CASE Dispatch
  BY <1>5, DispatchStoreInv
<1> QED BY <1>1, <1>2, <1>3, <1>4, <1>5 DEF Next

(* The store and the server keep their types: session records, bindings    *)
(* and the stack of actions that nested dispatch builds.                   *)
THEOREM ServerTypes == Spec => []TypeOK
<1>1. StoreInv => TypeOK
  BY DEF StoreInv
<1> QED BY <1>1, InitStoreInv, NextStoreInv, PTL DEF Spec

(* Whatever the connections send and whenever they fail, the session       *)
(* record's fields agree with its phase.                                   *)
THEOREM PhasesStayConsistent == Spec => []PhaseConsistent
<1>1. StoreInv => PhaseConsistent
  BY DEF StoreInv, Inv, PhaseConsistent
<1> QED BY <1>1, InitStoreInv, NextStoreInv, PTL DEF Spec

(* No deadline of a session is ever later than its absolute deadline.      *)
THEOREM DeadlinesStayCapped == Spec => []DeadlinesCapped
<1>1. StoreInv => DeadlinesCapped
  BY DEF StoreInv, Inv, DeadlinesCapped
<1> QED BY <1>1, InitStoreInv, NextStoreInv, PTL DEF Spec

(* Phases, deadlines and types hold together in every reachable state,     *)
(* for every set of connections and every bound.                           *)
THEOREM StoreStaysConsistent == Spec => []StoreConsistent
  BY ServerTypes, PhasesStayConsistent, DeadlinesStayCapped, PTL DEF StoreConsistent

-----------------------------------------------------------------------------
(***************************************************************************)
(* Who is admitted, who is told and who is closed, for any connections,    *)
(* lifetimes and bounds: a join capability admits one receiver, the peers  *)
(* of the store are the sockets bound to it, the owner is sent every       *)
(* number although dispatch nests, an expired session is inert and an old  *)
(* connection cannot touch a newer session.                                *)
(*                                                                         *)
(* Each store operation but the two that admit a connection gets a lemma   *)
(* that its result is Orderly: whoever it drops it also closes, and it     *)
(* numbers at most one message to the owner, before which it sends nothing *)
(* that could be held up.  #reserveJoin does send before: there the        *)
(* cleanup of the receiver may overtake the owner's message (Overtaken).   *)
(***************************************************************************)

HIDE ConnAssumption

In(a, list) == \E i \in DOMAIN list : list[i] = a

IsPeer(s, c) == Live(s) /\ c \in {s.owner.connection, s.receiver.connection}

To(e, c) == e.kind = "SEND" /\ e.connection = c

(* Of a message still to dispatch to connection c: it has number n and no  *)
(* other one is there.                                                     *)
OneSend(list, c, n) ==
  \A i \in DOMAIN list : To(list[i], c) =>
    list[i].sequence = n /\ \A j \in DOMAIN list : To(list[j], c) => i = j

Tells(list, c) == \E i \in DOMAIN list : To(list[i], c)

(* The session n that may follow s: the same one, possibly without its     *)
(* receiver and without its join capability, or none.                      *)
Follows(s, n) ==
  \/ n = NoSession
  \/ /\ n.id = s.id /\ n.absoluteDeadline = s.absoluteDeadline
     /\ n.owner.connection = s.owner.connection
     /\ n.receiver.connection \in {s.receiver.connection, NoConn}

(* Whoever r no longer knows, other than x, it closes. *)
Closes(s, r, x) ==
  \A c \in Conn : c # x /\ IsPeer(s, c) /\ ~IsPeer(r.session, c) => In(CLOSE(c), r.actions)

(* The messages to the owner: at most one, with the next number; and in a  *)
(* session that goes on nothing is sent before it.                         *)
Numbers(s, r) ==
  /\ OneSend(r.actions, s.owner.connection, s.owner.nextServerSequence)
  /\ Live(r.session) =>
       /\ r.session.owner.nextServerSequence =
            s.owner.nextServerSequence
              + (IF Tells(r.actions, s.owner.connection) THEN 1 ELSE 0)
       /\ \A i \in DOMAIN r.actions : To(r.actions[i], s.owner.connection) =>
            \A j \in 1 .. (i - 1) : r.actions[j].kind # "SEND"
  /\ \A i \in DOMAIN r.actions : r.actions[i].kind = "SEND" => IsPeer(s, r.actions[i].connection)

(* A join capability is kept as it is or dropped. *)
JoinKept(s, n) ==
  \/ n.joinCapability = NoCapability
  \/ n.joinCapability = s.joinCapability /\ n.joinExpiresAt = s.joinExpiresAt

Tidy(s, r, x) == Follows(s, r.session) /\ Closes(s, r, x) /\ Numbers(s, r)

Orderly(s, r, x) == Tidy(s, r, x) /\ JoinKept(s, r.session)
----------------------------------------------------------------------------
(* The newest capability is the one that is open, it has admitted nobody,  *)
(* and it expires in time.                                                 *)
JoinInv ==
  /\ session.joinCapability # NoCapability =>
       /\ session.joinCapability = Len(issued) /\ Len(issued) > 0
       /\ session.joinExpiresAt <= issued[Len(issued)].at + JOIN_CAPABILITY_LIFETIME
       /\ \A i \in DOMAIN admitted : admitted[i].capability < Len(issued)
  /\ \A i \in DOMAIN admitted :
       admitted[i].capability >= 1 /\ admitted[i].capability <= Len(issued)
  /\ SingleUseJoin

Attached(c, role) ==
  /\ socket[c] \in {"OPEN", "CLOSING"}
  /\ binding[c] = [role |-> role, session |-> session.id]

(* The peers of the session are bound to it and not closed; an open        *)
(* connection that is bound is one of them, or about to be closed.         *)
PeerInv ==
  /\ Live(session) => Attached(session.owner.connection, "OWNER")
  /\ Live(session) /\ HasReceiver(session) => Attached(session.receiver.connection, "RECEIVER")
  /\ \A c \in Conn : socket[c] = "OPEN" /\ binding[c].role # "NONE" =>
       IsPeer(session, c) \/ In(CLOSE(c), pending)
  /\ \A c \in Conn : binding[c].role = "NONE" => binding[c] = Unbound
  /\ \A c \in Conn : socket[c] = "UNUSED" => binding[c].role = "NONE"

(* The messages 1 to n have been handed to c. *)
Upto(c, n) == n \in Nat /\ delivered[c] = 1 .. n

(* The only message still to go to c is the next one. *)
Plain(c) == \E n \in Nat : Upto(c, n) /\ OneSend(pending, c, n + 1)

(* A receiver is being admitted: the owner is told after it. *)
Reserving(o) ==
  DOMAIN pending = {1, 2} /\ To(pending[2], o) /\ pending[2].type = "RECEIVER_RESERVED"

(* The session's numbers go as far as what owner o was handed and what is  *)
(* to come, before which nothing can be held up, except in an admission.   *)
InTurn(o) ==
  /\ Upto(o, session.owner.nextServerSequence - (IF Tells(pending, o) THEN 2 ELSE 1))
  /\ \A i \in DOMAIN pending : To(pending[i], o) =>
       Reserving(o) \/ \A j \in 1 .. (i - 1) : pending[j].kind # "SEND"

(* The receiver just admitted was held up, and its cleanup is about to     *)
(* overtake, or has overtaken, its announcement to owner o.                *)
Overtaken(o) ==
  \E n \in Nat :
    /\ session.owner.nextServerSequence = n + 3
    /\ \/ /\ delivered[o] = 1 .. n /\ Reserving(o) /\ pending[2].sequence = n + 1
          /\ To(pending[1], o) /\ pending[1].sequence = n + 2
       \/ /\ delivered[o] = (1 .. n) \cup {n + 2}
          /\ DOMAIN pending = {1} /\ To(pending[1], o) /\ pending[1].sequence = n + 1

(* What is still to be dispatched completes the stream of every owner.     *)
StreamInv ==
  /\ \A c \in Conn : binding[c].role = "NONE" => delivered[c] = {} /\ ~Tells(pending, c)
  /\ \A c \in Conn : binding[c].role = "OWNER" /\ socket[c] = "OPEN" =>
       Plain(c) \/ (Live(session) /\ c = session.owner.connection /\ Overtaken(c))
  /\ Live(session) /\ socket[session.owner.connection] = "OPEN" =>
       InTurn(session.owner.connection) \/ Overtaken(session.owner.connection)

AdmissionInv == StoreInv /\ JoinInv /\ PeerInv /\ StreamInv
----------------------------------------------------------------------------
(* The results that end or shrink a session, and the plain ones.           *)

(* The peers of a live session are two. *)
Distinct(s) == Inv(s) /\ Live(s) /\ s.owner.connection # s.receiver.connection

(* The numbers up to n, and one more. *)
LEMMA OneMore ==
  ASSUME NEW n \in Nat
  PROVE  (1 .. n) \cup {n + 1} = 1 .. (n + 1)
OBVIOUS

(* How far the numbers go is determined. *)
LEMMA UptoUnique ==
  ASSUME NEW c, NEW n, NEW m, Upto(c, n), Upto(c, m)
  PROVE  n = m
<1>1. n \in Nat /\ m \in Nat /\ 1 .. n = 1 .. m
  BY DEF Upto
<1>2. n \in 1 .. n <=> n \in 1 .. m
  BY <1>1
<1>3. m \in 1 .. n <=> m \in 1 .. m
  BY <1>1
<1> QED  BY <1>1, <1>2, <1>3

(* Two pairs in a row. *)
LEMMA PairsConcat ==
  ASSUME NEW S, NEW p \in Seq(S), NEW q \in Seq(S), Len(p) = 2, Len(q) = 2
  PROVE  /\ p \o q \in Seq(S) /\ Len(p \o q) = 4
         /\ (p \o q)[1] = p[1] /\ (p \o q)[2] = p[2]
         /\ (p \o q)[3] = q[1] /\ (p \o q)[4] = q[2]
<1>1. p \o q \in Seq(S) /\ Len(p \o q) = Len(p) + Len(q)
  BY ConcatProperties
<1>2. \A i \in 1 .. Len(p) + Len(q) :
        (p \o q)[i] = IF i <= Len(p) THEN p[i] ELSE q[i - Len(p)]
  BY ConcatProperties
<1>3. \A i \in 1 .. 4 : (p \o q)[i] = IF i <= 2 THEN p[i] ELSE q[i - 2]
  BY <1>2
<1> QED  BY <1>1, <1>3

(* What a revocation or an expiry says, and to whom. *)
Farewell(s, type, k, list) ==
  /\ list \in Seq(ActionType)
  /\ HasReceiver(s) /\ k =>
       /\ Len(list) = 4
       /\ list[1] = SEND(s.receiver, type) /\ list[2] = CLOSE(s.receiver.connection)
       /\ list[3] = SEND(s.owner, type) /\ list[4] = CLOSE(s.owner.connection)
  /\ HasReceiver(s) /\ ~k =>
       /\ Len(list) = 2
       /\ list[1] = SEND(s.receiver, type) /\ list[2] = CLOSE(s.receiver.connection)
  /\ ~HasReceiver(s) /\ k =>
       /\ Len(list) = 2
       /\ list[1] = SEND(s.owner, type) /\ list[2] = CLOSE(s.owner.connection)
  /\ ~HasReceiver(s) /\ ~k => list = << >>

LEMMA FarewellParts ==
  ASSUME NEW s, Inv(s), Live(s), NEW type \in ServerMessages, NEW k \in BOOLEAN
  PROVE  Farewell(s, type, k,
           (IF HasReceiver(s)
              THEN <<SEND(s.receiver, type), CLOSE(s.receiver.connection)>> ELSE << >>)
           \o (IF k THEN <<SEND(s.owner, type), CLOSE(s.owner.connection)>> ELSE << >>))
<1> DEFINE r1 == SEND(s.receiver, type)
           r2 == CLOSE(s.receiver.connection)
           o1 == SEND(s.owner, type)
           o2 == CLOSE(s.owner.connection)
           p == <<r1, r2>>
           q == <<o1, o2>>
<1>1. q \in Seq(ActionType) /\ (HasReceiver(s) => p \in Seq(ActionType))
  BY PeersKnown, FarewellType
<1> HIDE DEF r1, r2, o1, o2
<1>2. Len(p) = 2 /\ p[1] = r1 /\ p[2] = r2 /\ Len(q) = 2 /\ q[1] = o1 /\ q[2] = o2
  OBVIOUS
<1> HIDE DEF p, q
<1>3. << >> \o q = q /\ << >> \o << >> = << >> /\ << >> \in Seq(ActionType)
  BY <1>1, ConcatEmptySeq, EmptySeq
<1>4. HasReceiver(s) => p \o << >> = p
  BY <1>1, ConcatEmptySeq
<1>5. HasReceiver(s) =>
        /\ p \o q \in Seq(ActionType) /\ Len(p \o q) = 4
        /\ (p \o q)[1] = r1 /\ (p \o q)[2] = r2 /\ (p \o q)[3] = o1 /\ (p \o q)[4] = o2
  BY <1>1, <1>2, PairsConcat
<1> DEFINE list == (IF HasReceiver(s) THEN p ELSE << >>) \o (IF k THEN q ELSE << >>)
<1>6. /\ HasReceiver(s) /\ k => list = p \o q
      /\ HasReceiver(s) /\ ~k => list = p
      /\ ~HasReceiver(s) /\ k => list = q
      /\ ~HasReceiver(s) /\ ~k => list = << >>
  BY <1>3, <1>4
<1> HIDE DEF list
<1>7. list \in Seq(ActionType)
  BY <1>1, <1>3, <1>5, <1>6
<1>8. Farewell(s, type, k, list)
  BY <1>1, <1>2, <1>3, <1>5, <1>6, <1>7 DEF Farewell, r1, r2, o1, o2
<1> QED  BY <1>8 DEF list, p, q, r1, r2, o1, o2

(* Such a result is orderly: but for an owner that is gone already it      *)
(* closes both peers, and it numbers one message to each.                  *)
LEMMA FarewellOrderly ==
  ASSUME NEW s, Distinct(s), NEW type \in ServerMessages, NEW k \in BOOLEAN,
         NEW r, r.session = NoSession, Farewell(s, type, k, r.actions)
  PROVE  Orderly(s, r, IF k THEN NoConn ELSE s.owner.connection)
<1> DEFINE list == r.actions
           o == s.owner.connection
           d == s.receiver.connection
<1>1. /\ o \in Conn /\ o # d /\ o # NoConn /\ (HasReceiver(s) <=> d # NoConn)
      /\ list \in Seq(ActionType)
      /\ Live(s) /\ ~Live(NoSession)
  <2>1. Live(s) /\ o \in Conn /\ o # d
    BY PeersKnown DEF Distinct
  <2>2. o # NoConn
    BY <2>1, ConnAssumption
  <2>3. HasReceiver(s) <=> d # NoConn
    BY DEF HasReceiver
  <2>4. list \in Seq(ActionType)
    BY DEF Farewell
  <2>5. ~Live(NoSession)
    BY NoSessionInv
  <2> QED  BY <2>1, <2>2, <2>3, <2>4, <2>5
<1>2. \A i \in DOMAIN list :
        \/ list[i] = SEND(s.receiver, type) /\ HasReceiver(s) /\ i = 1
        \/ list[i] = CLOSE(d) /\ HasReceiver(s) /\ i = 2
        \/ list[i] = SEND(s.owner, type) /\ k /\ i = (IF HasReceiver(s) THEN 3 ELSE 1)
        \/ list[i] = CLOSE(o) /\ k
  BY <1>1 DEF Farewell
<1>3. /\ HasReceiver(s) => In(CLOSE(d), list)
      /\ k => In(CLOSE(o), list)
  <2>1. HasReceiver(s) => 2 \in DOMAIN list /\ list[2] = CLOSE(d)
    BY <1>1 DEF Farewell
  <2>2. k => LET n == IF HasReceiver(s) THEN 4 ELSE 2 IN n \in DOMAIN list /\ list[n] = CLOSE(o)
    BY <1>1 DEF Farewell
  <2> QED  BY <2>1, <2>2 DEF In
<1>4. /\ SEND(s.owner, type).sequence = s.owner.nextServerSequence
      /\ SEND(s.owner, type).connection = o /\ SEND(s.receiver, type).connection = d
      /\ \A c : CLOSE(c).kind = "CLOSE"
  BY DEF SEND, CLOSE
<1>5. OneSend(list, o, s.owner.nextServerSequence)
  BY <1>1, <1>2, <1>4 DEF OneSend, To
<1>6. Numbers(s, r)
  <2>1. \A i \in DOMAIN list : list[i].kind = "SEND" => IsPeer(s, list[i].connection)
    BY <1>1, <1>2, <1>4 DEF IsPeer
  <2> QED  BY <1>1, <1>5, <2>1 DEF Numbers
<1>7. Closes(s, r, IF k THEN NoConn ELSE o)
  <2> SUFFICES ASSUME NEW c \in Conn, c # (IF k THEN NoConn ELSE o), IsPeer(s, c)
               PROVE  In(CLOSE(c), list)
    BY DEF Closes
  <2>1. CASE c = o
    BY <1>3, <2>1
  <2>2. CASE c = d
    BY <1>1, <1>3, <2>2, ConnAssumption
  <2> QED  BY <2>1, <2>2 DEF IsPeer
<1>8. Follows(s, r.session)
  BY DEF Follows
<1> QED  BY <1>6, <1>7, <1>8 DEF Orderly, Tidy, JoinKept, NoSession

(* #revoke is orderly; without closeOwner the owner is gone already. *)
LEMMA RevokeOrderly ==
  ASSUME NEW s, Distinct(s), NEW k \in BOOLEAN, NEW a
  PROVE  /\ Orderly(s, Revoke(s, k, a), IF k THEN NoConn ELSE s.owner.connection)
         /\ Revoke(s, k, a).session = NoSession
<1>1. Revoke(s, k, a).session = NoSession
  BY DEF Revoke, Result
<1>2. Farewell(s, "SESSION_REVOKED", k, Revoke(s, k, a).actions)
  BY FarewellParts DEF Revoke, Result, Distinct, ServerMessages
<1> QED  BY <1>1, <1>2, FarewellOrderly DEF ServerMessages

(* #expire is orderly. *)
LEMMA ExpireOrderly ==
  ASSUME NEW s, Distinct(s)
  PROVE  Orderly(s, Expire(s), NoConn) /\ Expire(s).session = NoSession
<1>1. Expire(s).session = NoSession
  BY DEF Expire, Result
<1>2. Farewell(s, "SESSION_EXPIRED", TRUE, Expire(s).actions)
  BY FarewellParts DEF Expire, Result, Distinct, ServerMessages
<1>3. Orderly(s, Expire(s), IF TRUE THEN NoConn ELSE s.owner.connection)
  BY <1>1, <1>2, FarewellOrderly DEF ServerMessages
<1> QED  BY <1>1, <1>3

(* What is the same of a session that goes on: everything that Tidy looks  *)
(* at, but for d messages sent to the owner.                               *)
Kept(s, n, d) ==
  /\ n.id = s.id /\ n.absoluteDeadline = s.absoluteDeadline
  /\ n.owner.connection = s.owner.connection
  /\ n.receiver.connection = s.receiver.connection
  /\ n.owner.nextServerSequence = s.owner.nextServerSequence + d

(* What is orderly after a step that tells nobody is orderly for the whole. *)
LEMMA TidyAfter ==
  ASSUME NEW s, NEW j, NEW r, NEW x, Inv(s), Kept(s, j, 0), Tidy(j, r, x)
  PROVE  Tidy(s, r, x)
<1>1. s.owner.nextServerSequence \in Nat
  BY DEF Inv, SessionType, PeerType
<1>2. j.owner.nextServerSequence = s.owner.nextServerSequence
  BY <1>1 DEF Kept
<1>3. \A c : IsPeer(s, c) <=> IsPeer(j, c)
  BY DEF Kept, IsPeer, Live
<1>4. Follows(s, r.session)
  BY DEF Tidy, Follows, Kept
<1>5. Closes(s, r, x)
  BY <1>3 DEF Tidy, Closes
<1>6. Numbers(s, r)
  BY <1>2, <1>3 DEF Tidy, Numbers, Kept
<1> QED  BY <1>4, <1>5, <1>6 DEF Tidy

(* So is what it does to the join capability. *)
LEMMA JoinKeptAfter ==
  ASSUME NEW s, NEW j, NEW n, JoinKept(s, j), JoinKept(j, n)
  PROVE  JoinKept(s, n)
BY DEF JoinKept

(* Both together. *)
LEMMA OrderlyAfter ==
  ASSUME NEW s, NEW j, NEW r, NEW x, Inv(s), Kept(s, j, 0), JoinKept(s, j), Orderly(j, r, x)
  PROVE  Orderly(s, r, x)
BY TidyAfter, JoinKeptAfter DEF Orderly

(* The fields of a numbered session. *)
LEMMA SentFields ==
  ASSUME NEW s, Inv(s)
  PROVE  /\ Kept(s, SentToOwner(s), 1) /\ Kept(s, SentToReceiver(s), 0)
         /\ JoinKept(s, SentToOwner(s)) /\ JoinKept(s, SentToReceiver(s))
<1>1. s \in SessionType
  BY DEF Inv
<1>2. Kept(s, SentToOwner(s), 1) /\ JoinKept(s, SentToOwner(s))
  BY <1>1 DEF Kept, JoinKept, SentToOwner, Advance, SessionType, PeerType
<1>3. Kept(s, SentToReceiver(s), 0) /\ JoinKept(s, SentToReceiver(s))
  BY <1>1 DEF Kept, JoinKept, SentToReceiver, Advance, SessionType, PeerType
<1> QED  BY <1>2, <1>3

(* A session that goes on as it is, telling nobody, or only the receiver.  *)
LEMMA QuietTidy ==
  ASSUME NEW s, Distinct(s), NEW r, Kept(s, r.session, 0), r.actions \in Seq(ActionType),
         \A i \in DOMAIN r.actions :
            r.actions[i].kind = "SEND" /\ r.actions[i].connection = s.receiver.connection
  PROVE  Tidy(s, r, NoConn)
<1>1. Follows(s, r.session)
  BY DEF Kept, Follows
<1>2. Closes(s, r, NoConn)
  BY DEF Kept, Closes, IsPeer, Live
<1>3. \A i \in DOMAIN r.actions : ~To(r.actions[i], s.owner.connection)
  BY DEF To, Distinct
<1>4. Numbers(s, r)
  BY <1>3 DEF Numbers, OneSend, Tells, Kept, IsPeer, Distinct
<1> QED  BY <1>1, <1>2, <1>4 DEF Tidy

(* A session that goes on, telling the owner first.                        *)
LEMMA TellingTidy ==
  ASSUME NEW s, Distinct(s), NEW r, Kept(s, r.session, 1), r.actions \in Seq(ActionType),
         r.actions # << >>, To(r.actions[1], s.owner.connection),
         r.actions[1].sequence = s.owner.nextServerSequence,
         \A i \in DOMAIN r.actions : i # 1 =>
            r.actions[i].kind = "SEND" /\ r.actions[i].connection = s.receiver.connection
  PROVE  Tidy(s, r, NoConn)
<1>1. Follows(s, r.session)
  BY DEF Kept, Follows
<1>2. Closes(s, r, NoConn)
  BY DEF Kept, Closes, IsPeer, Live
<1>3. \A i \in DOMAIN r.actions : To(r.actions[i], s.owner.connection) => i = 1
  BY DEF To, Distinct
<1>4. OneSend(r.actions, s.owner.connection, s.owner.nextServerSequence)
  BY <1>3 DEF OneSend
<1>5. Tells(r.actions, s.owner.connection)
  BY DEF Tells
<1>6. \A i \in DOMAIN r.actions : r.actions[i].kind = "SEND" => IsPeer(s, r.actions[i].connection)
  BY DEF To, IsPeer, Distinct
<1>7. \A i \in DOMAIN r.actions : To(r.actions[i], s.owner.connection) =>
        \A j \in 1 .. (i - 1) : r.actions[j].kind # "SEND"
  BY <1>3
<1>8. Numbers(s, r)
  BY <1>4, <1>5, <1>6, <1>7 DEF Numbers, Kept
<1> QED  BY <1>1, <1>2, <1>8 DEF Tidy
----------------------------------------------------------------------------
(* The operations of the store, one by one.                                *)

(* #detachReceiver; without closeReceiver the receiver is gone already.    *)
LEMMA DetachOrderly ==
  ASSUME NEW s, Distinct(s), NEW t \in Nat, NEW k \in BOOLEAN, NEW a
  PROVE  LET r == DetachReceiver(s, t, k, a) IN
         /\ Orderly(s, r, IF k THEN NoConn ELSE s.receiver.connection)
         /\ r.session.id = s.id /\ r.session.receiver = NoPeer
<1> DEFINE r == DetachReceiver(s, t, k, a)
           d == Detached(s, t)
           n == SentToOwner(d)
           o == s.owner.connection
           close == IF HasReceiver(s) /\ k THEN <<CLOSE(s.receiver.connection)>> ELSE << >>
           m == SEND(s.owner, "RECEIVER_DISCONNECTED")
<1>1. s \in SessionType /\ Live(s) /\ Inv(s) /\ Inv(d)
  BY DetachedInv DEF Distinct, Inv
<1>2. /\ d.id = s.id /\ d.absoluteDeadline = s.absoluteDeadline /\ d.owner = s.owner
      /\ d.receiver = NoPeer /\ d.joinCapability = NoCapability
  BY <1>1 DEF Detached, SessionType
<1>3. /\ n.id = d.id /\ n.absoluteDeadline = d.absoluteDeadline
      /\ n.owner.connection = o /\ n.receiver = NoPeer /\ n.joinCapability = NoCapability
      /\ n.owner.nextServerSequence = s.owner.nextServerSequence + 1
  <2> HIDE DEF d
  <2>1. Kept(d, n, 1)
    BY <1>1, SentFields
  <2>2. n.receiver = d.receiver /\ n.joinCapability = d.joinCapability
    BY <1>1 DEF SentToOwner, Inv, SessionType
  <2> QED  BY <1>2, <2>1, <2>2 DEF Kept
<1>4. r.session = n /\ r.actions = Append(close, m)
  BY DEF DetachReceiver, Result
<1>5. /\ m.kind = "SEND" /\ m.connection = o /\ m.sequence = s.owner.nextServerSequence
      /\ NoPeer.connection = NoConn /\ NoConn \notin Conn
      /\ CLOSE(s.receiver.connection).kind = "CLOSE"
  BY ConnAssumption DEF SEND, CLOSE, NoPeer
<1>6. close \in Seq(ActionType) /\ m \in ActionType
  BY <1>1, PeersKnown, CloseType, SendType DEF ServerMessages
<1>7. /\ Len(close) = (IF HasReceiver(s) /\ k THEN 1 ELSE 0)
      /\ HasReceiver(s) /\ k => close[1] = CLOSE(s.receiver.connection)
  OBVIOUS
<1> HIDE DEF close, m, n, d, r
<1>8. \A i \in DOMAIN r.actions :
        \/ i = Len(close) + 1 /\ r.actions[i] = m
        \/ i = 1 /\ HasReceiver(s) /\ k /\ r.actions[i] = CLOSE(s.receiver.connection)
  BY <1>4, <1>6, <1>7
<1>9. Len(close) + 1 \in DOMAIN r.actions /\ r.actions[Len(close) + 1] = m
  BY <1>4, <1>6
<1>10. HasReceiver(s) /\ k => In(CLOSE(s.receiver.connection), r.actions)
  <2>1. HasReceiver(s) /\ k => 1 \in DOMAIN r.actions /\ r.actions[1] = CLOSE(s.receiver.connection)
    BY <1>4, <1>6, <1>7
  <2> QED  BY <2>1 DEF In
<1>11. Follows(s, r.session) /\ JoinKept(s, r.session)
  BY <1>2, <1>3, <1>4, <1>5 DEF Follows, JoinKept
<1>12. Closes(s, r, IF k THEN NoConn ELSE s.receiver.connection)
  <2> SUFFICES ASSUME NEW c \in Conn, c # (IF k THEN NoConn ELSE s.receiver.connection),
                      IsPeer(s, c), ~IsPeer(r.session, c)
               PROVE  In(CLOSE(c), r.actions)
    BY DEF Closes
  <2>1. c = s.receiver.connection
    BY <1>1, <1>2, <1>3, <1>4 DEF IsPeer, Live
  <2> QED  BY <1>5, <1>10, <2>1 DEF HasReceiver
<1>13. \A i \in DOMAIN r.actions : r.actions[i].kind = "SEND" => i = Len(close) + 1 /\ r.actions[i] = m
  BY <1>5, <1>8
<1>14. OneSend(r.actions, o, s.owner.nextServerSequence) /\ Tells(r.actions, o)
  BY <1>5, <1>9, <1>13 DEF OneSend, Tells, To
<1>15. Len(close) \in Nat
  BY <1>7
<1>16. Numbers(s, r)
  <2>1. \A i \in DOMAIN r.actions : To(r.actions[i], o) =>
          \A j \in 1 .. (i - 1) : r.actions[j].kind # "SEND"
    <3> SUFFICES ASSUME NEW i \in DOMAIN r.actions, To(r.actions[i], o), NEW j \in 1 .. (i - 1),
                        r.actions[j].kind = "SEND"
                 PROVE  FALSE
      OBVIOUS
    <3>1. i = Len(close) + 1
      BY <1>13 DEF To
    <3>2. j \in DOMAIN r.actions
      BY <1>4, <1>6, <1>15, <3>1
    <3> QED  BY <1>13, <1>15, <3>1, <3>2
  <2>2. \A i \in DOMAIN r.actions : r.actions[i].kind = "SEND" => IsPeer(s, r.actions[i].connection)
    BY <1>1, <1>5, <1>13 DEF IsPeer
  <2>3. r.session.owner.nextServerSequence = s.owner.nextServerSequence + 1
    BY <1>3, <1>4
  <2> QED  BY <1>14, <2>1, <2>2, <2>3 DEF Numbers
<1> QED  BY <1>2, <1>3, <1>4, <1>11, <1>12, <1>16 DEF Orderly, Tidy, r

(* A result without actions, for a session that goes on.                   *)
LEMMA QuietOrderly ==
  ASSUME NEW s, Distinct(s), NEW n, Kept(s, n, 0), JoinKept(s, n), NEW a
  PROVE  Orderly(s, Result(n, a, << >>), NoConn)
<1> DEFINE r == Result(n, a, << >>)
<1>1. r.session = n /\ r.actions = << >>
  BY DEF Result
<1> HIDE DEF r
<1>2. r.actions \in Seq(ActionType) /\ DOMAIN r.actions = {}
  BY <1>1, EmptySeq
<1>3. Tidy(s, r, NoConn)
  BY <1>1, <1>2, QuietTidy
<1> QED  BY <1>1, <1>3 DEF Orderly, r

(* Forwarding to the owner, from a session that the handler updated.       *)
LEMMA ForwardToOwnerTidy ==
  ASSUME NEW s, Distinct(s), NEW n, Inv(n), Kept(s, n, 0), n.owner = s.owner,
         NEW type \in ServerMessages
  PROVE  Tidy(s, ForwardToOwner(n, type), NoConn)
<1> DEFINE r == ForwardToOwner(n, type)
           m == SEND(n.owner, type)
<1>1. r.session = SentToOwner(n) /\ r.actions = <<m>>
  BY DEF ForwardToOwner, Result
<1>2. m \in ActionType
  <2>1. n.owner \in PeerType /\ n.owner.connection \in Conn
    BY PeersKnown DEF Distinct
  <2> QED  BY <2>1, SendType
<1>3. m.kind = "SEND" /\ m.connection = s.owner.connection /\ m.sequence = s.owner.nextServerSequence
  BY DEF SEND
<1>4. Kept(s, SentToOwner(n), 1)
  <2>1. Kept(n, SentToOwner(n), 1)
    BY SentFields
  <2> QED  BY <2>1 DEF Kept
<1> HIDE DEF r, m
<1>5. Tidy(s, r, NoConn)
  <2>1. /\ r.actions \in Seq(ActionType) /\ r.actions # << >> /\ DOMAIN r.actions = {1}
        /\ r.actions[1] = m
    BY <1>1, <1>2
  <2> QED  BY <1>1, <1>3, <1>4, <2>1, TellingTidy DEF To
<1> QED  BY <1>5 DEF r

(* The same, when the handler left the join capability alone.              *)
LEMMA ForwardToOwnerOrderly ==
  ASSUME NEW s, Distinct(s), NEW n, Inv(n), Kept(s, n, 0), n.owner = s.owner, JoinKept(s, n),
         NEW type \in ServerMessages
  PROVE  Orderly(s, ForwardToOwner(n, type), NoConn)
<1>1. JoinKept(n, ForwardToOwner(n, type).session)
  BY SentFields DEF ForwardToOwner, Result
<1> QED  BY <1>1, ForwardToOwnerTidy, JoinKeptAfter DEF Orderly

(* Forwarding to the receiver. *)
LEMMA ForwardToReceiverOrderly ==
  ASSUME NEW s, Distinct(s), HasReceiver(s), NEW n, Inv(n), Kept(s, n, 0), JoinKept(s, n),
         NEW type \in ServerMessages
  PROVE  Orderly(s, ForwardToReceiver(n, type), NoConn)
<1> DEFINE r == ForwardToReceiver(n, type)
           m == SEND(n.receiver, type)
<1>1. r.session = SentToReceiver(n) /\ r.actions = <<m>>
  BY DEF ForwardToReceiver, Result
<1>2. Live(n) /\ HasReceiver(n)
  BY DEF Kept, Live, HasReceiver, Distinct
<1>3. m \in ActionType
  BY <1>2, PeersKnown, SendType
<1>4. m.kind = "SEND" /\ m.connection = s.receiver.connection
  BY DEF SEND, Kept
<1>5. Kept(s, SentToReceiver(n), 0) /\ JoinKept(s, SentToReceiver(n))
  <2>1. Kept(n, SentToReceiver(n), 0) /\ JoinKept(n, SentToReceiver(n))
    BY SentFields
  <2>2. s.owner.nextServerSequence \in Nat
    BY DEF Distinct, Inv, SessionType, PeerType
  <2> QED  BY <2>1, <2>2, JoinKeptAfter DEF Kept
<1> HIDE DEF r, m
<1>6. Tidy(s, r, NoConn)
  <2>1. r.actions \in Seq(ActionType) /\ DOMAIN r.actions = {1} /\ r.actions[1] = m
    BY <1>1, <1>3
  <2> QED  BY <1>1, <1>4, <1>5, <2>1, QuietTidy
<1> QED  BY <1>1, <1>5, <1>6 DEF Orderly, r

(* Expiring an open join changes no peer. *)
LEMMA JoinExpiredKept ==
  ASSUME NEW s, Inv(s), NEW t \in Nat
  PROVE  LET j == JoinExpired(s, t) IN
         /\ Kept(s, j, 0) /\ JoinKept(s, j) /\ j.owner = s.owner /\ j.receiver = s.receiver
         /\ Distinct(s) => Distinct(j)
<1> DEFINE j == JoinExpired(s, t)
<1>1. s \in SessionType /\ s.owner.nextServerSequence \in Nat
  BY DEF Inv, SessionType, PeerType
<1>2. /\ j.id = s.id /\ j.absoluteDeadline = s.absoluteDeadline
      /\ j.owner = s.owner /\ j.receiver = s.receiver
      /\ \/ j.joinCapability = NoCapability
         \/ j.joinCapability = s.joinCapability /\ j.joinExpiresAt = s.joinExpiresAt
  BY <1>1 DEF JoinExpired, SessionType
<1>3. Inv(j)
  BY JoinExpiredInv
<1> HIDE DEF j
<1>4. Kept(s, j, 0) /\ JoinKept(s, j)
  BY <1>1, <1>2 DEF Kept, JoinKept
<1>5. Distinct(s) => Distinct(j)
  BY <1>2, <1>3 DEF Distinct, Live
<1> QED  BY <1>2, <1>4, <1>5 DEF j

(* Nor does hearing of one, but for its activity. *)
LEMMA ActiveKept ==
  ASSUME NEW s, Distinct(s), NEW t \in Nat
  PROVE  /\ Kept(s, OwnerActive(s, t), 0) /\ JoinKept(s, OwnerActive(s, t))
         /\ Distinct(OwnerActive(s, t))
         /\ Kept(s, ReceiverActive(s, t), 0) /\ JoinKept(s, ReceiverActive(s, t))
         /\ Distinct(ReceiverActive(s, t))
<1>1. /\ s \in SessionType /\ Inv(s) /\ Live(s) /\ s.owner \in PeerType /\ s.receiver \in PeerType
      /\ s.owner.nextServerSequence \in Nat
  BY DEF Distinct, Inv, SessionType, PeerType
<1>2. \A p \in PeerType : /\ Active(p, t).connection = p.connection
                          /\ Active(p, t).nextServerSequence = p.nextServerSequence
  BY DEF Active, PeerType
<1>3. ASSUME NEW n, n = OwnerActive(s, t) \/ n = ReceiverActive(s, t)
      PROVE  Kept(s, n, 0) /\ JoinKept(s, n) /\ Distinct(n)
  <2>1. Inv(n) /\ Live(n)
    BY <1>1, <1>3, OwnerActiveInv, ReceiverActiveInv
  <2>2. Kept(s, n, 0) /\ JoinKept(s, n)
    <3>1. CASE n = OwnerActive(s, t)
      <4>1. /\ n.id = s.id /\ n.absoluteDeadline = s.absoluteDeadline
            /\ n.owner = Active(s.owner, t) /\ n.receiver = s.receiver
            /\ n.joinCapability = s.joinCapability /\ n.joinExpiresAt = s.joinExpiresAt
        BY <1>1, <3>1 DEF OwnerActive, SessionType
      <4> QED  BY <1>1, <1>2, <4>1 DEF Kept, JoinKept
    <3>2. CASE n = ReceiverActive(s, t)
      <4>1. /\ n.id = s.id /\ n.absoluteDeadline = s.absoluteDeadline
            /\ n.receiver = Active(s.receiver, t) /\ n.owner = s.owner
            /\ n.joinCapability = s.joinCapability /\ n.joinExpiresAt = s.joinExpiresAt
        BY <1>1, <3>2 DEF ReceiverActive, SessionType
      <4> QED  BY <1>1, <1>2, <4>1 DEF Kept, JoinKept
    <3> QED  BY <1>3, <3>1, <3>2
  <2> QED  BY <2>1, <2>2 DEF Distinct, Kept
<1> QED  BY <1>3

(* Whatever deadline was hit. *)
LEMMA DeadlinesOrderly ==
  ASSUME NEW s, Distinct(s), NEW t \in Nat
  PROVE  Orderly(s, DeadlineResult(s, t), NoConn)
<1> DEFINE j == JoinExpired(s, t)
<1>1. Inv(s) /\ Kept(s, j, 0) /\ JoinKept(s, j) /\ Distinct(j)
  BY JoinExpiredKept DEF Distinct
<1> HIDE DEF j
<1>2. Orderly(s, Expire(s), NoConn)
  BY ExpireOrderly
<1>3. Orderly(s, Revoke(s, TRUE, FALSE), NoConn)
  <2>1. Orderly(s, Revoke(s, TRUE, FALSE), IF TRUE THEN NoConn ELSE s.owner.connection)
    BY RevokeOrderly
  <2> QED  BY <2>1
<1>4. Orderly(s, Expire(j), NoConn)
  BY <1>1, ExpireOrderly, OrderlyAfter
<1>5. Orderly(s, DetachReceiver(j, t, TRUE, FALSE), NoConn)
  <2>1. Orderly(j, DetachReceiver(j, t, TRUE, FALSE), IF TRUE THEN NoConn ELSE j.receiver.connection)
    BY <1>1, DetachOrderly
  <2> QED  BY <1>1, <2>1, OrderlyAfter
<1> QED  BY <1>2, <1>3, <1>4, <1>5 DEF DeadlineResult, j

(* A revocation by the server, or a detachment, that closes everyone.      *)
LEMMA ServerEndsOrderly ==
  ASSUME NEW s, Distinct(s), NEW t \in Nat, NEW a
  PROVE  /\ Orderly(s, Revoke(s, TRUE, a), NoConn)
         /\ Orderly(s, DetachReceiver(s, t, TRUE, a), NoConn)
<1>1. Orderly(s, Revoke(s, TRUE, a), IF TRUE THEN NoConn ELSE s.owner.connection)
  BY RevokeOrderly
<1>2. Orderly(s, DetachReceiver(s, t, TRUE, a), IF TRUE THEN NoConn ELSE s.receiver.connection)
  BY DetachOrderly
<1> QED  BY <1>1, <1>2

(* A capability that is the one just drawn, and expires in time. *)
Opened(n, fresh, t) ==
  n.joinCapability = fresh /\ n.joinExpiresAt <= t + JOIN_CAPABILITY_LIFETIME

(* What a message of the owner may do. *)
OwnerOrderly(s, r, fresh, t) ==
  Tidy(s, r, NoConn) /\ (JoinKept(s, r.session) \/ Opened(r.session, fresh, t))

(* CREATE_JOIN *)
LEMMA CreateJoinOrderly ==
  ASSUME NEW s, Distinct(s), NEW fresh \in Nat \ {0}, NEW t \in Nat
  PROVE  OwnerOrderly(s, CreateJoin(s, fresh, t), fresh, t)
<1> DEFINE e == Earlier(t + JOIN_CAPABILITY_LIFETIME, s.absoluteDeadline)
           n == [s EXCEPT !.joinCapability = fresh, !.joinExpiresAt = e,
                          !.phase = "JOIN_OPEN", !.phaseDeadline = e]
<1>1. CASE s.phase # "OWNER_ONLY" \/ HasReceiver(s) \/ s.joinCapability # NoCapability
  BY <1>1, ServerEndsOrderly DEF CreateJoin, OwnerStateFailure, OwnerOrderly, Orderly
<1>2. CASE ~(s.phase # "OWNER_ONLY" \/ HasReceiver(s) \/ s.joinCapability # NoCapability)
  <2>1. s \in SessionType /\ s.absoluteDeadline \in Nat /\ Inv(s) /\ Live(s)
    BY DEF Distinct, Inv, SessionType
  <2>2. t + JOIN_CAPABILITY_LIFETIME \in Nat
    BY LifetimesAssumption
  <2>3. e \in Nat /\ e <= s.absoluteDeadline /\ e <= t + JOIN_CAPABILITY_LIFETIME
    BY <2>1, <2>2 DEF Earlier
  <2> HIDE DEF e
  <2>4. Inv(n)
    BY <1>2, <2>1, <2>3, JoinOpenedInv DEF NoCapability
  <2>5. Kept(s, n, 0) /\ n.owner = s.owner /\ n.joinCapability = fresh /\ n.joinExpiresAt = e
    BY <2>1 DEF Kept, SessionType, PeerType
  <2> HIDE DEF n
  <2>6. Tidy(s, ForwardToOwner(n, "JOIN_CREATED"), NoConn)
    BY <2>4, <2>5, ForwardToOwnerTidy DEF ServerMessages
  <2>7. Opened(ForwardToOwner(n, "JOIN_CREATED").session, fresh, t)
    <3>1. SentToOwner(n).joinCapability = fresh /\ SentToOwner(n).joinExpiresAt = e
      BY <2>4, <2>5 DEF SentToOwner, Inv, SessionType
    <3> QED  BY <2>3, <3>1 DEF Opened, ForwardToOwner, Result
  <2>8. CreateJoin(s, fresh, t) = ForwardToOwner(n, "JOIN_CREATED")
    BY <1>2 DEF CreateJoin, e, n
  <2> QED  BY <2>6, <2>7, <2>8 DEF OwnerOrderly
<1> QED  BY <1>1, <1>2

(* The owner's answers and candidates. *)
LEMMA OwnerAnswersOrderly ==
  ASSUME NEW s, Distinct(s)
  PROVE  /\ Orderly(s, OwnerAnswer(s), NoConn)
         /\ Orderly(s, OwnerRestartAnswer(s), NoConn)
         /\ Orderly(s, OwnerCandidate(s), NoConn)
<1>1. s \in SessionType /\ Inv(s) /\ Live(s)
  BY DEF Distinct, Inv
<1>2. Orderly(s, OwnerStateFailure(s), NoConn)
  <2>1. 0 \in Nat
    OBVIOUS
  <2> QED  BY <2>1, ServerEndsOrderly DEF OwnerStateFailure
<1>3. Orderly(s, OwnerAnswer(s), NoConn)
  <2> DEFINE n == [s EXCEPT !.answerSeen = TRUE, !.phase = "CONNECTED", !.phaseDeadline = NoDeadline]
  <2>1. CASE HasReceiver(s) /\ s.phase = "JOIN_RESERVED" /\ s.offerSeen
    <3>1. Inv(n)
      BY <1>1, <2>1, AnsweredInv
    <3>2. Kept(s, n, 0) /\ JoinKept(s, n)
      BY <1>1 DEF Kept, JoinKept, SessionType, PeerType
    <3> HIDE DEF n
    <3>3. Orderly(s, ForwardToReceiver(n, "OWNER_ANSWER"), NoConn)
      BY <2>1, <3>1, <3>2, ForwardToReceiverOrderly DEF ServerMessages
    <3> QED  BY <1>2, <3>3 DEF OwnerAnswer, n
  <2> QED  BY <1>2, <2>1 DEF OwnerAnswer
<1>4. Orderly(s, OwnerRestartAnswer(s), NoConn)
  <2> DEFINE n == [s EXCEPT !.restartOfferPending = FALSE]
  <2>1. CASE HasReceiver(s)
    <3>1. Inv(n)
      BY <1>1, RestartAnsweredInv
    <3>2. Kept(s, n, 0) /\ JoinKept(s, n)
      BY <1>1 DEF Kept, JoinKept, SessionType, PeerType
    <3> HIDE DEF n
    <3>3. Orderly(s, ForwardToReceiver(n, "OWNER_ICE_RESTART_ANSWER"), NoConn)
      BY <2>1, <3>1, <3>2, ForwardToReceiverOrderly DEF ServerMessages
    <3> QED  BY <1>2, <3>3 DEF OwnerRestartAnswer, n
  <2> QED  BY <1>2, <2>1 DEF OwnerRestartAnswer
<1>5. Orderly(s, OwnerCandidate(s), NoConn)
  <2>1. Kept(s, s, 0) /\ JoinKept(s, s)
    BY <1>1 DEF Kept, JoinKept, SessionType, PeerType
  <2>2. HasReceiver(s) => Orderly(s, ForwardToReceiver(s, "OWNER_ICE_CANDIDATE"), NoConn)
    BY <1>1, <2>1, ForwardToReceiverOrderly DEF ServerMessages
  <2> QED  BY <1>2, <2>2 DEF OwnerCandidate
<1> QED  BY <1>3, <1>4, <1>5

(* Every message of the owner. *)
LEMMA OwnerMessageOrderly ==
  ASSUME NEW s, Distinct(s), NEW m, NEW fresh \in Nat \ {0}, NEW t \in Nat
  PROVE  OwnerOrderly(s, OwnerMessage(s, m, fresh, t), fresh, t)
<1>1. Orderly(s, Revoke(s, TRUE, TRUE), NoConn) /\ Orderly(s, OwnerStateFailure(s), NoConn)
  BY ServerEndsOrderly DEF OwnerStateFailure
<1>2. Orderly(s, OwnerHeartbeatAck(s, m), NoConn)
  <2>1. Kept(s, s, 0) /\ JoinKept(s, s)
    BY DEF Kept, JoinKept, Distinct, Inv, SessionType, PeerType
  <2>2. Orderly(s, Result(s, TRUE, << >>), NoConn)
    BY <2>1, QuietOrderly
  <2> QED  BY <1>1, <2>2 DEF OwnerHeartbeatAck
<1>3. OwnerOrderly(s, CreateJoin(s, fresh, t), fresh, t)
  BY CreateJoinOrderly
<1> QED  BY <1>1, <1>2, <1>3, OwnerAnswersOrderly DEF OwnerMessage, OwnerOrderly, Orderly

(* #handleOwner on a live session. *)
LEMMA HandleOwnerOrderly ==
  ASSUME NEW s, Distinct(s), NEW c, NEW m, NEW fresh \in Nat \ {0}, NEW t \in Nat
  PROVE  OwnerOrderly(s, HandleOwner(s, c, m, fresh, t), fresh, t)
<1> DEFINE j == JoinExpired(s, t)
           n == OwnerActive(j, t)
<1>1. Inv(s) /\ Live(s) /\ Kept(s, j, 0) /\ JoinKept(s, j) /\ Distinct(j)
  BY JoinExpiredKept DEF Distinct
<1> HIDE DEF j
<1>2. Kept(j, n, 0) /\ JoinKept(j, n) /\ Distinct(n) /\ Inv(j)
  BY <1>1, ActiveKept DEF Distinct
<1> HIDE DEF n
<1>3. Orderly(s, DeadlineResult(s, t), NoConn)
  BY DeadlinesOrderly
<1>4. OwnerOrderly(s, OwnerMessage(n, m, fresh, t), fresh, t)
  <2> DEFINE r == OwnerMessage(n, m, fresh, t)
  <2>1. OwnerOrderly(n, r, fresh, t)
    BY <1>2, OwnerMessageOrderly
  <2> HIDE DEF r
  <2>2. Tidy(s, r, NoConn)
    BY <1>1, <1>2, <2>1, TidyAfter DEF OwnerOrderly
  <2>3. JoinKept(n, r.session) => JoinKept(s, r.session)
    BY <1>1, <1>2, JoinKeptAfter
  <2> QED  BY <2>1, <2>2, <2>3 DEF OwnerOrderly, r
<1>5. Orderly(s, Revoke(j, TRUE, FALSE), NoConn)
  BY <1>1, ServerEndsOrderly, OrderlyAfter
<1>6. Live(j)
  BY <1>1 DEF Distinct
<1> QED  BY <1>1, <1>3, <1>4, <1>5, <1>6 DEF HandleOwner, OwnerOrderly, Orderly, j, n

(* The receiver's offers and candidates. *)
LEMMA OffersOrderly ==
  ASSUME NEW s, Distinct(s), NEW t \in Nat
  PROVE  /\ Orderly(s, ReceiverOffer(s, t), NoConn)
         /\ Orderly(s, ReceiverRestartOffer(s, t), NoConn)
         /\ Orderly(s, ReceiverCandidate(s, t), NoConn)
<1>1. s \in SessionType /\ Inv(s) /\ Live(s)
  BY DEF Distinct, Inv
<1>2. Orderly(s, DetachReceiver(s, t, TRUE, FALSE), NoConn)
  BY ServerEndsOrderly
<1>3. ASSUME NEW n, NEW type \in ServerMessages, Inv(n),
             \/ n = s
             \/ n = [s EXCEPT !.offerSeen = TRUE]
             \/ n = [s EXCEPT !.restartOfferPending = TRUE]
      PROVE  Orderly(s, ForwardToOwner(n, type), NoConn)
  <2>1. Kept(s, n, 0) /\ JoinKept(s, n) /\ n.owner = s.owner
    BY <1>1, <1>3 DEF Kept, JoinKept, SessionType, PeerType
  <2> QED  BY <1>3, <2>1, ForwardToOwnerOrderly
<1>4. Orderly(s, ReceiverOffer(s, t), NoConn)
  BY <1>1, <1>2, <1>3, OfferedInv DEF ReceiverOffer, ServerMessages
<1>5. Orderly(s, ReceiverRestartOffer(s, t), NoConn)
  BY <1>1, <1>2, <1>3, RestartOfferedInv DEF ReceiverRestartOffer, ServerMessages
<1>6. Orderly(s, ReceiverCandidate(s, t), NoConn)
  BY <1>1, <1>2, <1>3 DEF ReceiverCandidate, ServerMessages
<1> QED  BY <1>4, <1>5, <1>6

(* Every message of the receiver. *)
LEMMA ReceiverMessageOrderly ==
  ASSUME NEW s, Distinct(s), NEW m, NEW t \in Nat
  PROVE  Orderly(s, ReceiverMessage(s, m, t), NoConn)
<1>1. /\ Orderly(s, DetachReceiver(s, t, TRUE, FALSE), NoConn)
      /\ Orderly(s, DetachReceiver(s, t, TRUE, TRUE), NoConn)
      /\ Orderly(s, OwnerStateFailure(s), NoConn)
  BY ServerEndsOrderly DEF OwnerStateFailure
<1>2. s \in SessionType
  BY DEF Distinct, Inv
<1>3. ASSUME NEW n, n = s \/ \E d : n = [s EXCEPT !.iceDisconnectedDeadline = d]
      PROVE  Orderly(s, Result(n, TRUE, << >>), NoConn)
  <2>1. Kept(s, n, 0) /\ JoinKept(s, n)
    BY <1>2, <1>3 DEF Kept, JoinKept, SessionType, PeerType
  <2> QED  BY <2>1, QuietOrderly
<1>4. Orderly(s, ReceiverHeartbeatAck(s, m, t), NoConn)
  BY <1>1, <1>3 DEF ReceiverHeartbeatAck
<1>5. Orderly(s, ReceiverIceState(s, m.iceState, t), NoConn)
  BY <1>1, <1>3 DEF ReceiverIceState
<1> QED  BY <1>1, <1>4, <1>5, OffersOrderly DEF ReceiverMessage

(* #handleReceiver on a live session. *)
LEMMA HandleReceiverOrderly ==
  ASSUME NEW s, Distinct(s), NEW c, NEW m, NEW t \in Nat
  PROVE  Orderly(s, HandleReceiver(s, c, m, t), NoConn)
<1> DEFINE j == JoinExpired(s, t)
           n == ReceiverActive(j, t)
<1>1. Inv(s) /\ Live(s) /\ Kept(s, j, 0) /\ JoinKept(s, j) /\ Distinct(j)
  BY JoinExpiredKept DEF Distinct
<1> HIDE DEF j
<1>2. Kept(j, n, 0) /\ JoinKept(j, n) /\ Distinct(n) /\ Inv(j) /\ Live(j)
  BY <1>1, ActiveKept DEF Distinct
<1> HIDE DEF n
<1>3. Orderly(s, DeadlineResult(s, t), NoConn)
  BY DeadlinesOrderly
<1>4. Orderly(s, ReceiverMessage(n, m, t), NoConn)
  <2>1. Orderly(n, ReceiverMessage(n, m, t), NoConn)
    BY <1>2, ReceiverMessageOrderly
  <2> QED  BY <1>1, <1>2, <2>1, OrderlyAfter
<1>5. Orderly(s, DetachReceiver(j, t, TRUE, FALSE), NoConn)
  BY <1>1, ServerEndsOrderly, OrderlyAfter
<1> QED  BY <1>1, <1>2, <1>3, <1>4, <1>5 DEF HandleReceiver, j, n

(* disconnect on a live session: it forgets the connection that ended. *)
LEMMA DisconnectOrderly ==
  ASSUME NEW s, Distinct(s), NEW role, NEW c, NEW t \in Nat
  PROVE  LET r == Disconnect(s, role, c, t) IN
         /\ Orderly(s, r, c)
         /\ role = "OWNER" /\ s.owner.connection = c => r.session = NoSession
         /\ role = "RECEIVER" /\ s.receiver.connection = c => r.session.receiver = NoPeer
<1>1. CASE role = "OWNER" /\ s.owner.connection = c
  <2>1. Disconnect(s, role, c, t) = Revoke(s, FALSE, TRUE)
    BY <1>1 DEF Disconnect, Distinct
  <2>2. Orderly(s, Revoke(s, FALSE, TRUE), IF FALSE THEN NoConn ELSE s.owner.connection)
    BY RevokeOrderly
  <2>3. Revoke(s, FALSE, TRUE).session = NoSession
    BY DEF Revoke, Result
  <2> QED  BY <1>1, <2>1, <2>2, <2>3
<1>2. CASE role = "RECEIVER" /\ s.receiver.connection = c
  <2>1. Disconnect(s, role, c, t) = DetachReceiver(s, t, FALSE, TRUE)
    BY <1>2 DEF Disconnect, Distinct
  <2>2. /\ Orderly(s, DetachReceiver(s, t, FALSE, TRUE), IF FALSE THEN NoConn ELSE s.receiver.connection)
        /\ DetachReceiver(s, t, FALSE, TRUE).session.receiver = NoPeer
    BY DetachOrderly
  <2> QED  BY <1>2, <2>1, <2>2
<1>3. CASE ~(role = "OWNER" /\ s.owner.connection = c) /\ ~(role = "RECEIVER" /\ s.receiver.connection = c)
  <2>1. Disconnect(s, role, c, t) = Result(s, TRUE, << >>)
    BY <1>3 DEF Disconnect
  <2>2. Kept(s, s, 0) /\ JoinKept(s, s)
    BY DEF Kept, JoinKept, Distinct, Inv, SessionType, PeerType
  <2>3. Orderly(s, Result(s, TRUE, << >>), NoConn)
    BY <2>2, QuietOrderly
  <2>4. Orderly(s, Result(s, TRUE, << >>), c)
    BY <2>3, ConnAssumption DEF Orderly, Tidy, Closes, Result
  <2> QED  BY <1>3, <2>1, <2>4
<1> QED  BY <1>1, <1>2, <1>3

(* Heartbeats leave the connections alone and number what they send. *)
LEMMA HeartbeatFields ==
  ASSUME NEW p \in PeerType, NEW t \in Nat
  PROVE  /\ HeartbeatPeer(p, t).connection = p.connection
         /\ HeartbeatPeer(p, t).nextServerSequence =
              p.nextServerSequence + (IF HeartbeatDue(p, t) THEN 1 ELSE 0)
<1> DEFINE q == [p EXCEPT !.heartbeatSequence = p.heartbeatSequence + 1,
                          !.nextHeartbeat = t + HEARTBEAT_INTERVAL]
<1>1. t + HEARTBEAT_INTERVAL \in Nat /\ p.heartbeatSequence + 1 \in Nat
  BY LifetimesAssumption DEF PeerType
<1>2. q \in PeerType /\ q.connection = p.connection /\ q.nextServerSequence = p.nextServerSequence
  BY <1>1 DEF PeerType
<1> HIDE DEF q
<1>3. /\ Advance(q).connection = p.connection
      /\ Advance(q).nextServerSequence = p.nextServerSequence + 1
  BY <1>2 DEF Advance, PeerType
<1>4. p.nextServerSequence \in Nat
  BY DEF PeerType
<1> QED  BY <1>3, <1>4 DEF HeartbeatPeer, q

(* What a tick sends when no deadline was hit: to the owner first. *)
LEMMA HeartbeatList ==
  ASSUME NEW s, Distinct(s), NEW t \in Nat
  PROVE  LET list == HeartbeatActions(s, t)
             due  == HeartbeatDue(s.owner, t)
         IN /\ list \in Seq(ActionType)
            /\ due => /\ list # << >> /\ list[1] = SEND(s.owner, "HEARTBEAT")
                      /\ \A i \in DOMAIN list : i # 1 => list[i] = SEND(s.receiver, "HEARTBEAT")
            /\ ~due => \A i \in DOMAIN list : list[i] = SEND(s.receiver, "HEARTBEAT")
<1> DEFINE a == SEND(s.owner, "HEARTBEAT")
           b == SEND(s.receiver, "HEARTBEAT")
           p == HeartbeatTo(s.owner, t)
           q == HeartbeatTo(s.receiver, t)
<1>1. a \in ActionType /\ (HasReceiver(s) => b \in ActionType)
  BY PeersKnown, SendType DEF Distinct, ServerMessages
<1>2. HeartbeatDue(s.receiver, t) => HasReceiver(s)
  BY DEF HeartbeatDue, HasReceiver
<1>3. p = (IF HeartbeatDue(s.owner, t) THEN <<a>> ELSE << >>)
      /\ q = (IF HeartbeatDue(s.receiver, t) THEN <<b>> ELSE << >>)
  BY DEF HeartbeatTo
<1> HIDE DEF a, b, p, q
<1>4. /\ p \in Seq(ActionType) /\ q \in Seq(ActionType)
      /\ Len(p) = (IF HeartbeatDue(s.owner, t) THEN 1 ELSE 0)
      /\ HeartbeatDue(s.owner, t) => p[1] = a
      /\ \A i \in 1 .. Len(q) : q[i] = b
  BY <1>1, <1>2, <1>3
<1>5. /\ p \o q \in Seq(ActionType) /\ Len(p \o q) = Len(p) + Len(q)
      /\ \A i \in 1 .. Len(p) + Len(q) :
            (p \o q)[i] = IF i <= Len(p) THEN p[i] ELSE q[i - Len(p)]
  BY <1>4, ConcatProperties
<1> DEFINE list == p \o q
<1> HIDE DEF list
<1>6. /\ list \in Seq(ActionType) /\ Len(list) = Len(p) + Len(q)
      /\ \A i \in 1 .. Len(list) : list[i] = IF i <= Len(p) THEN p[i] ELSE q[i - Len(p)]
  BY <1>5 DEF list
<1>7. Len(q) \in Nat
  BY <1>4
<1>8. HeartbeatDue(s.owner, t) =>
        /\ list # << >> /\ list[1] = a
        /\ \A i \in DOMAIN list : i # 1 => list[i] = b
  <2> SUFFICES ASSUME HeartbeatDue(s.owner, t)
               PROVE  /\ list # << >> /\ list[1] = a
                      /\ \A i \in DOMAIN list : i # 1 => list[i] = b
    OBVIOUS
  <2>1. Len(p) = 1 /\ p[1] = a
    BY <1>4
  <2>2. Len(list) = 1 + Len(q) /\ DOMAIN list = 1 .. 1 + Len(q)
    BY <1>6, <2>1
  <2>3. 1 \in DOMAIN list /\ list[1] = a
    BY <1>6, <1>7, <2>1, <2>2
  <2>4. ASSUME NEW i \in DOMAIN list, i # 1 PROVE list[i] = b
    <3>1. i - 1 \in 1 .. Len(q) /\ list[i] = q[i - 1]
      BY <1>6, <1>7, <2>1, <2>2, <2>4
    <3> QED  BY <1>4, <3>1
  <2> QED  BY <2>3, <2>4, EmptySeq
<1>9. ~HeartbeatDue(s.owner, t) => \A i \in DOMAIN list : list[i] = b
  BY <1>4, <1>6, <1>7
<1> QED  BY <1>6, <1>8, <1>9 DEF HeartbeatActions, list, a, b, p, q

(* tick on a live session. *)
LEMMA TickOrderly ==
  ASSUME NEW s, Distinct(s), NEW t \in Nat
  PROVE  Orderly(s, TickResult(s, t), NoConn)
<1> DEFINE j == JoinExpired(s, t)
           n == [j EXCEPT !.owner = HeartbeatPeer(j.owner, t), !.receiver = HeartbeatPeer(j.receiver, t)]
           r == Result(n, TRUE, HeartbeatActions(j, t))
<1>1. Inv(s) /\ Kept(s, j, 0) /\ JoinKept(s, j) /\ Distinct(j)
  BY JoinExpiredKept DEF Distinct
<1> HIDE DEF j
<1>2. j \in SessionType /\ j.owner \in PeerType /\ j.receiver \in PeerType
  BY <1>1 DEF Distinct, Inv, SessionType
<1>3. /\ n.id = j.id /\ n.absoluteDeadline = j.absoluteDeadline
      /\ n.owner = HeartbeatPeer(j.owner, t) /\ n.receiver = HeartbeatPeer(j.receiver, t)
      /\ n.joinCapability = j.joinCapability /\ n.joinExpiresAt = j.joinExpiresAt
  BY <1>2 DEF SessionType
<1> HIDE DEF n
<1>4. /\ Kept(j, n, IF HeartbeatDue(j.owner, t) THEN 1 ELSE 0)
      /\ JoinKept(j, n)
  BY <1>2, <1>3, HeartbeatFields DEF Kept, JoinKept
<1>5. r.session = n /\ r.actions = HeartbeatActions(j, t)
  BY DEF Result
<1> HIDE DEF r
<1>6. /\ SEND(j.owner, "HEARTBEAT").kind = "SEND"
      /\ SEND(j.owner, "HEARTBEAT").connection = j.owner.connection
      /\ SEND(j.owner, "HEARTBEAT").sequence = j.owner.nextServerSequence
      /\ SEND(j.receiver, "HEARTBEAT").kind = "SEND"
      /\ SEND(j.receiver, "HEARTBEAT").connection = j.receiver.connection
  BY DEF SEND
<1>7. HeartbeatDue(j.owner, t) => Tidy(j, r, NoConn)
  <2> SUFFICES ASSUME HeartbeatDue(j.owner, t) PROVE Tidy(j, r, NoConn)
    OBVIOUS
  <2>1. Kept(j, n, 1)
    BY <1>4
  <2> QED  BY <1>1, <1>5, <1>6, <2>1, HeartbeatList, TellingTidy DEF To
<1>8. ~HeartbeatDue(j.owner, t) => Tidy(j, r, NoConn)
  <2> SUFFICES ASSUME ~HeartbeatDue(j.owner, t) PROVE Tidy(j, r, NoConn)
    OBVIOUS
  <2>1. Kept(j, n, 0)
    BY <1>4
  <2> QED  BY <1>1, <1>5, <1>6, <2>1, HeartbeatList, QuietTidy
<1>9. Orderly(s, r, NoConn)
  <2>1. Orderly(j, r, NoConn)
    BY <1>4, <1>5, <1>7, <1>8 DEF Orderly
  <2> QED  BY <1>1, <2>1, OrderlyAfter
<1> QED  BY <1>9, DeadlinesOrderly DEF TickResult, r, n, j
----------------------------------------------------------------------------
(* The server: from the results of the store to the invariant.             *)

(* What a call on session `id' with result r does to the session held. *)
Effect(id, r) == [session |-> Stored(id, r), actions |-> r.actions]

(* The peers of the session held are two. *)
LEMMA PeersDiffer ==
  ASSUME StoreInv, PeerInv, Live(session)
  PROVE  Distinct(session)
<1>1. Inv(session) /\ session.owner.connection \in Conn
  BY PeersKnown DEF StoreInv
<1>2. SUFFICES ASSUME session.owner.connection = session.receiver.connection PROVE FALSE
  BY <1>1 DEF Distinct
<1>3. HasReceiver(session)
  BY <1>1, <1>2, ConnAssumption DEF HasReceiver
<1>4. /\ binding[session.owner.connection] = [role |-> "OWNER", session |-> session.id]
      /\ binding[session.owner.connection] = [role |-> "RECEIVER", session |-> session.id]
  BY <1>2, <1>3 DEF PeerInv, Attached
<1>5. [role |-> "OWNER", session |-> session.id].role = "OWNER"
  OBVIOUS
<1>6. [role |-> "RECEIVER", session |-> session.id].role = "RECEIVER"
  OBVIOUS
<1> QED  BY <1>4, <1>5, <1>6

(* A binding reaches the session held, or nothing. *)
LEMMA Reach ==
  ASSUME StoreInv, PeerInv, NEW id, NEW r
  PROVE  /\ Holds(id) => /\ SessionNamed(id) = session /\ Stored(id, r) = r.session
                         /\ Live(session) /\ Distinct(session)
         /\ ~Holds(id) => SessionNamed(id) = NoSession /\ Stored(id, r) = session
BY PeersDiffer DEF Holds, SessionNamed, Stored, Live

(* On no session nothing happens. *)
LEMMA NothingHeld ==
  ASSUME NEW c, NEW role, NEW m, NEW fresh, NEW t
  PROVE  /\ HandleOwner(NoSession, c, m, fresh, t) = Rejected(NoSession)
         /\ HandleReceiver(NoSession, c, m, t) = Rejected(NoSession)
         /\ Disconnect(NoSession, role, c, t) = Result(NoSession, TRUE, << >>)
<1>1. ~Live(NoSession)
  BY NoSessionInv
<1>2. JoinExpired(NoSession, t) = NoSession
  BY DEF JoinExpired, NoSession
<1> QED  BY <1>1, <1>2 DEF HandleOwner, HandleReceiver, Disconnect, OwnerAuthentic, ReceiverAuthentic

(* Nothing is done tidily. *)
LEMMA StillTidy ==
  ASSUME StoreInv, NEW x
  PROVE  /\ Tidy(session, [session |-> session, actions |-> << >>], x)
         /\ JoinKept(session, session)
<1> DEFINE r == [session |-> session, actions |-> << >>]
<1>1. r.session = session /\ DOMAIN r.actions = {}
  OBVIOUS
<1>2. session.owner.nextServerSequence \in Nat
  BY DEF StoreInv, TypeOK, SessionType, PeerType
<1> HIDE DEF r
<1>3. Numbers(session, r)
  BY <1>1, <1>2 DEF Numbers, OneSend, Tells
<1>4. Tidy(session, r, x)
  BY <1>1, <1>3 DEF Tidy, Follows, Closes
<1> QED  BY <1>4 DEF JoinKept, r

(* What the end of connection c does to the session held. *)
LEMMA DisconnectTidy ==
  ASSUME StoreInv, PeerInv, NEW c \in Conn
  PROVE  LET id == binding[c].session
             e  == Effect(id, DisconnectResult(c))
         IN /\ Tidy(session, e, c) /\ JoinKept(session, e.session)
            /\ ~IsPeer(e.session, c) /\ e.actions \in Seq(ActionType)
<1> DEFINE id == binding[c].session
           r  == DisconnectResult(c)
           e  == Effect(id, r)
<1>1. r = Disconnect(SessionNamed(id), binding[c].role, c, now)
  BY DEF DisconnectResult
<1>2. now \in Nat
  BY DEF StoreInv, TypeOK
<1>3. r.actions \in Seq(ActionType)
  BY DisconnectFine DEF Fine
<1>4. /\ Live(session) /\ c = session.owner.connection =>
           binding[c].role = "OWNER" /\ id = session.id
      /\ Live(session) /\ c = session.receiver.connection =>
           binding[c].role = "RECEIVER" /\ id = session.id
  BY ConnAssumption DEF PeerInv, Attached, HasReceiver
<1>5. e.session = Stored(id, r) /\ e.actions = r.actions
  BY DEF Effect
<1> HIDE DEF e, r, id
<1>6. CASE Holds(id)
  <2>1. /\ Distinct(session) /\ Live(session) /\ e.session = r.session
        /\ r = Disconnect(session, binding[c].role, c, now)
    BY <1>1, <1>5, <1>6, Reach
  <2>2. /\ Orderly(session, r, c)
        /\ c = session.owner.connection => r.session = NoSession
        /\ c = session.receiver.connection => r.session.receiver = NoPeer
    BY <1>2, <1>4, <2>1, DisconnectOrderly
  <2>3. Tidy(session, e, c) /\ JoinKept(session, e.session)
    BY <1>5, <2>1, <2>2 DEF Orderly, Tidy, Closes, Numbers
  <2>4. ~IsPeer(r.session, c)
    BY <2>1, <2>2, NoSessionInv, ConnAssumption
       DEF Orderly, Tidy, Follows, IsPeer, NoPeer, Distinct, Live
  <2> QED  BY <1>3, <1>5, <2>1, <2>3, <2>4 DEF e, r, id
<1>7. CASE ~Holds(id)
  <2>1. e.session = session /\ r = Result(NoSession, TRUE, << >>)
    BY <1>1, <1>5, <1>7, Reach, NothingHeld
  <2>2. e.actions = << >>
    BY <1>5, <2>1 DEF Result
  <2>3. Tidy(session, e, c) /\ JoinKept(session, e.session)
    BY <2>1, <2>2, StillTidy DEF Tidy, Closes, Numbers
  <2>4. ~IsPeer(session, c)
    BY <1>4, <1>7 DEF IsPeer, Holds, Live
  <2> QED  BY <1>3, <1>5, <2>1, <2>3, <2>4 DEF e, r, id
<1> QED  BY <1>6, <1>7

(* The peers follow the session: whoever it drops is closed. *)
LEMMA PeersFollow ==
  ASSUME StoreInv, PeerInv, NEW e, NEW x,
         Follows(session, e.session), Closes(session, e, x),
         session' = e.session, binding' = binding,
         \A a : In(a, e.actions) => In(a, pending'),
         \A c \in Conn : c # x /\ socket'[c] = "OPEN" /\ In(CLOSE(c), pending) => In(CLOSE(c), pending'),
         \A c \in Conn : socket'[c] # socket[c] =>
           /\ socket[c] \in {"OPEN", "CLOSING"} /\ socket'[c] \in {"CLOSING", "CLOSED"}
           /\ IsPeer(session', c) => socket'[c] = "CLOSING",
         x \in Conn => socket'[x] # "OPEN" \/ In(CLOSE(x), pending')
  PROVE  PeerInv'
<1>1. Inv(session) /\ NoConn \notin Conn
  BY ConnAssumption DEF StoreInv
<1>2. ASSUME Live(session')
      PROVE  /\ Live(session) /\ session'.id = session.id
             /\ session'.owner.connection = session.owner.connection
             /\ session'.owner.connection \in Conn
             /\ HasReceiver(session)' => /\ HasReceiver(session)
                                         /\ session'.receiver.connection = session.receiver.connection
                                         /\ session'.receiver.connection \in Conn
  <2>1. session' # NoSession
    BY <1>2, NoSessionInv
  <2>2. Follows(session, session') /\ Live(session)
    BY <1>2, <2>1 DEF Follows, Live
  <2>3. session.owner.connection \in Conn /\ (HasReceiver(session) => session.receiver.connection \in Conn)
    BY <1>1, <2>2, PeersKnown
  <2> QED  BY <2>1, <2>2, <2>3 DEF Follows, HasReceiver
<1>3. ASSUME NEW c \in Conn, Live(session'), IsPeer(session', c), socket[c] \in {"OPEN", "CLOSING"}
      PROVE  socket'[c] \in {"OPEN", "CLOSING"}
  BY <1>3
<1>4. Live(session') => Attached(session.owner.connection, "OWNER")'
  BY <1>2, <1>3 DEF PeerInv, Attached, IsPeer
<1>5. Live(session') /\ HasReceiver(session)' => Attached(session.receiver.connection, "RECEIVER")'
  BY <1>2, <1>3 DEF PeerInv, Attached, IsPeer
<1>6. ASSUME NEW c \in Conn, socket'[c] = "OPEN", binding'[c].role # "NONE"
      PROVE  IsPeer(session, c)' \/ In(CLOSE(c), pending)'
  <2>1. socket[c] = "OPEN" /\ binding[c].role # "NONE"
    BY <1>6
  <2>2. CASE c = x
    BY <1>6, <2>2
  <2>3. CASE c # x /\ IsPeer(session, c)
    BY <2>3 DEF Closes
  <2>4. CASE c # x /\ In(CLOSE(c), pending)
    BY <1>6, <2>4
  <2> QED  BY <2>1, <2>2, <2>3, <2>4 DEF PeerInv
<1>7. /\ \A c \in Conn : binding'[c].role = "NONE" => binding'[c] = Unbound
      /\ \A c \in Conn : socket'[c] = "UNUSED" => binding'[c].role = "NONE"
  BY DEF PeerInv
<1> QED  BY <1>4, <1>5, <1>6, <1>7 DEF PeerInv

(* List l is p and then q. *)
Joined(l, p, q) ==
  /\ p \in Seq(ActionType) /\ q \in Seq(ActionType) /\ l \in Seq(ActionType)
  /\ Len(l) = Len(p) + Len(q)
  /\ \A i \in 1 .. Len(p) + Len(q) : l[i] = IF i <= Len(p) THEN p[i] ELSE q[i - Len(p)]

(* Where the elements of such a list come from. *)
LEMMA JoinedParts ==
  ASSUME NEW l, NEW p, NEW q, Joined(l, p, q)
  PROVE  /\ Len(p) \in Nat /\ Len(q) \in Nat
         /\ DOMAIN p = 1 .. Len(p) /\ DOMAIN q = 1 .. Len(q) /\ DOMAIN l = 1 .. Len(p) + Len(q)
         /\ \A i \in DOMAIN p : i \in DOMAIN l /\ l[i] = p[i]
         /\ \A i \in DOMAIN q : Len(p) + i \in DOMAIN l /\ l[Len(p) + i] = q[i]
         /\ \A i \in DOMAIN l : \/ i \in DOMAIN p /\ l[i] = p[i]
                                \/ i - Len(p) \in DOMAIN q /\ l[i] = q[i - Len(p)]
<1>1. /\ Len(p) \in Nat /\ Len(q) \in Nat
      /\ DOMAIN p = 1 .. Len(p) /\ DOMAIN q = 1 .. Len(q) /\ DOMAIN l = 1 .. Len(p) + Len(q)
  BY DEF Joined
<1>2. \A i \in 1 .. Len(p) + Len(q) : l[i] = IF i <= Len(p) THEN p[i] ELSE q[i - Len(p)]
  BY DEF Joined
<1>3. \A i \in DOMAIN p : i \in DOMAIN l /\ l[i] = p[i]
  BY <1>1, <1>2
<1>4. \A i \in DOMAIN q : Len(p) + i \in DOMAIN l /\ l[Len(p) + i] = q[i]
  BY <1>1, <1>2
<1>5. \A i \in DOMAIN l : \/ i \in DOMAIN p /\ l[i] = p[i]
                          \/ i - Len(p) \in DOMAIN q /\ l[i] = q[i - Len(p)]
  <2> TAKE i \in DOMAIN l
  <2>1. CASE i <= Len(p)
    BY <1>1, <1>2, <2>1
  <2>2. CASE i > Len(p)
    <3>1. i - Len(p) \in DOMAIN q /\ ~(i <= Len(p))
      BY <1>1, <2>2
    <3> QED  BY <1>1, <1>2, <3>1
  <2> QED  BY <1>1, <2>1, <2>2
<1> QED  BY <1>1, <1>3, <1>4, <1>5

(* Who is told, and how often, in such a list. *)
LEMMA JoinedSends ==
  ASSUME NEW l, NEW p, NEW q, Joined(l, p, q), NEW c
  PROVE  /\ Tells(l, c) <=> Tells(p, c) \/ Tells(q, c)
         /\ \A a : In(a, l) <=> In(a, p) \/ In(a, q)
         /\ \A n : OneSend(p, c, n) /\ ~Tells(q, c) => OneSend(l, c, n)
         /\ \A n : OneSend(q, c, n) /\ ~Tells(p, c) => OneSend(l, c, n)
<1>1. Tells(l, c) <=> Tells(p, c) \/ Tells(q, c)
  BY JoinedParts DEF Tells
<1>2. \A a : In(a, l) <=> In(a, p) \/ In(a, q)
  BY JoinedParts DEF In
<1>3. ASSUME NEW n, OneSend(p, c, n), ~Tells(q, c) PROVE OneSend(l, c, n)
  <2>1. \A i \in DOMAIN l : To(l[i], c) => i \in DOMAIN p /\ l[i] = p[i]
    BY <1>3, JoinedParts DEF Tells
  <2> QED  BY <1>3, <2>1 DEF OneSend
<1>4. ASSUME NEW n, OneSend(q, c, n), ~Tells(p, c) PROVE OneSend(l, c, n)
  <2>1. \A i \in DOMAIN l : To(l[i], c) => i - Len(p) \in DOMAIN q /\ l[i] = q[i - Len(p)]
    BY <1>4, JoinedParts DEF Tells
  <2>2. \A i, j \in DOMAIN l : i - Len(p) = j - Len(p) => i = j
    BY JoinedParts
  <2> QED  BY <1>4, <2>1, <2>2 DEF OneSend
<1> QED  BY <1>1, <1>2, <1>3, <1>4

(* The streams go on with what a call says, and then with the rest of the  *)
(* list, in which nobody the call may speak to is told anything.           *)
LEMMA StreamFollows ==
  ASSUME StoreInv, PeerInv, StreamInv, NEW e, NEW rest,
         Follows(session, e.session), Numbers(session, e),
         session' = e.session, binding' = binding, delivered' = delivered,
         \A c \in Conn : socket'[c] = "OPEN" => socket[c] = "OPEN",
         Joined(pending', e.actions, rest),
         \A c \in Conn : binding[c].role = "NONE" => ~Tells(rest, c),
         \A c \in Conn : binding[c].role = "OWNER" /\ socket'[c] = "OPEN" =>
           \E n \in Nat : Upto(c, n) /\ OneSend(rest, c, n + 1),
         Live(session) /\ socket'[session.owner.connection] = "OPEN" =>
           /\ ~Tells(rest, session.owner.connection)
           /\ Upto(session.owner.connection, session.owner.nextServerSequence - 1)
  PROVE  StreamInv'
<1> DEFINE o == session.owner.connection
<1>1. /\ Inv(session) /\ NoConn \notin Conn
      /\ Live(session) => o \in Conn /\ binding[o].role = "OWNER"
      /\ \A c \in Conn : Live(session) /\ c = session.receiver.connection => binding[c].role = "RECEIVER"
  BY PeersKnown, ConnAssumption DEF StoreInv, PeerInv, Attached, HasReceiver
<1>2. ASSUME NEW c \in Conn, Tells(e.actions, c)
      PROVE  Live(session) /\ (c = o \/ c = session.receiver.connection)
  BY <1>2 DEF Numbers, Tells, To, IsPeer
<1>3. \A c \in Conn : binding'[c].role = "NONE" => delivered'[c] = {} /\ ~Tells(pending', c)
  <2> SUFFICES ASSUME NEW c \in Conn, binding[c].role = "NONE"
               PROVE  delivered[c] = {} /\ ~Tells(pending', c)
    OBVIOUS
  <2>1. ~Tells(e.actions, c)
    BY <1>1, <1>2
  <2> QED  BY <2>1, JoinedSends DEF StreamInv
<1>4. ASSUME NEW c \in Conn, binding[c].role = "OWNER", socket'[c] = "OPEN"
      PROVE  Plain(c)'
  <2>1. PICK n \in Nat : Upto(c, n) /\ OneSend(rest, c, n + 1)
    BY <1>4
  <2>2. OneSend(pending', c, n + 1)
    <3>1. CASE Live(session) /\ c = o
      <4>1. ~Tells(rest, c) /\ Upto(c, session.owner.nextServerSequence - 1)
        BY <1>4, <3>1
      <4>2. n = session.owner.nextServerSequence - 1
        BY <2>1, <4>1, UptoUnique
      <4>3. session.owner.nextServerSequence \in Nat
        BY DEF StoreInv, TypeOK, SessionType, PeerType
      <4>4. OneSend(e.actions, c, session.owner.nextServerSequence)
        BY <3>1 DEF Numbers
      <4>5. n + 1 = session.owner.nextServerSequence
        BY <2>1, <4>2, <4>3
      <4> QED  BY <4>1, <4>4, <4>5, JoinedSends
    <3>2. CASE ~(Live(session) /\ c = o)
      <4>1. ~Tells(e.actions, c)
        BY <1>1, <1>2, <1>4, <3>2
      <4> QED  BY <2>1, <4>1, JoinedSends
    <3> QED  BY <3>1, <3>2
  <2> QED  BY <2>1, <2>2 DEF Plain, Upto
<1>5. ASSUME Live(session'), socket'[session'.owner.connection] = "OPEN"
      PROVE  InTurn(session.owner.connection)' /\ session'.owner.connection = o
  <2>1. session'.owner.connection = o /\ Live(session)
    BY <1>5, NoSessionInv DEF Follows, Live
  <2>2. o \in Conn /\ ~Tells(rest, o) /\ Upto(o, session.owner.nextServerSequence - 1)
    BY <1>1, <1>5, <2>1
  <2>3. session.owner.nextServerSequence \in Nat
    BY DEF StoreInv, TypeOK, SessionType, PeerType
  <2>4. session'.owner.nextServerSequence - (IF Tells(pending', o) THEN 2 ELSE 1)
          = session.owner.nextServerSequence - 1
    <3>1. Tells(pending', o) <=> Tells(e.actions, o)
      BY <2>2, JoinedSends
    <3>2. session'.owner.nextServerSequence =
            session.owner.nextServerSequence + (IF Tells(e.actions, o) THEN 1 ELSE 0)
      BY <1>5 DEF Numbers
    <3> QED  BY <2>3, <3>1, <3>2
  <2>5. \A i \in DOMAIN pending' : To(pending'[i], o) =>
          \A j \in 1 .. (i - 1) : pending'[j].kind # "SEND"
    <3> SUFFICES ASSUME NEW i \in DOMAIN pending', To(pending'[i], o), NEW j \in 1 .. (i - 1)
                 PROVE  pending'[j].kind # "SEND"
      OBVIOUS
    <3>1. i \in DOMAIN e.actions /\ To(e.actions[i], o)
      BY <2>2, JoinedParts DEF Tells
    <3>2. j \in DOMAIN e.actions
      BY <3>1, JoinedParts
    <3>3. e.actions[j].kind # "SEND"
      BY <1>5, <3>1 DEF Numbers
    <3> QED  BY <3>2, <3>3, JoinedParts
  <2> QED  BY <2>1, <2>2, <2>4, <2>5 DEF InTurn, Upto
<1> QED  BY <1>3, <1>4, <1>5 DEF StreamInv

(* What a callback leaves to dispatch: the actions of the call, and after  *)
(* a rejection one more close.                                             *)
LEMMA CallbackList ==
  ASSUME NEW p \in Seq(ActionType), NEW l,
         l = p \/ \E c \in Conn : l = Append(p, CLOSE(c))
  PROVE  \E rest : Joined(l, p, rest) /\ \A i \in DOMAIN rest : rest[i].kind = "CLOSE"
<1>1. CASE l = p
  <2>1. Joined(l, p, << >>)
    BY <1>1 DEF Joined
  <2> QED  BY <2>1, EmptySeq
<1>2. ASSUME NEW c \in Conn, l = Append(p, CLOSE(c))
      PROVE  \E rest : Joined(l, p, rest) /\ \A i \in DOMAIN rest : rest[i].kind = "CLOSE"
  <2> DEFINE a == CLOSE(c)
  <2>1. a \in ActionType /\ a.kind = "CLOSE"
    BY CloseType DEF CLOSE
  <2>2. l = Append(p, a)
    BY <1>2
  <2> HIDE DEF a
  <2>3. /\ l \in Seq(ActionType) /\ Len(l) = Len(p) + 1 /\ Len(p) \in Nat
        /\ \A i \in 1 .. Len(p) : l[i] = p[i]
        /\ l[Len(p) + 1] = a
    BY <2>1, <2>2
  <2>4. <<a>> \in Seq(ActionType) /\ Len(<<a>>) = 1 /\ <<a>>[1] = a
    BY <2>1
  <2>5. ASSUME NEW i \in 1 .. Len(p) + 1
        PROVE  l[i] = IF i <= Len(p) THEN p[i] ELSE <<a>>[i - Len(p)]
    <3>1. CASE i <= Len(p)
      BY <2>3, <3>1
    <3>2. CASE i = Len(p) + 1
      <4>1. i - Len(p) = 1 /\ ~(i <= Len(p))
        BY <2>3, <3>2
      <4> QED  BY <2>3, <2>4, <3>2, <4>1
    <3> QED  BY <2>3, <3>1, <3>2
  <2>6. Joined(l, p, <<a>>)
    BY <2>3, <2>4, <2>5 DEF Joined
  <2> QED  BY <2>1, <2>4, <2>6
<1> QED  BY <1>1, <1>2

(* A callback keeps PeerInv and StreamInv when what it does to the session *)
(* held is tidy.                                                           *)
LEMMA CallbackKeeps ==
  ASSUME StoreInv, PeerInv, StreamInv, Idle, NEW e, NEW x,
         Tidy(session, e, x), e.actions \in Seq(ActionType),
         session' = e.session, binding' = binding, delivered' = delivered,
         pending' = e.actions \/ \E c \in Conn : pending' = Append(e.actions, CLOSE(c)),
         \A c \in Conn : socket'[c] # socket[c] =>
           /\ socket[c] \in {"OPEN", "CLOSING"} /\ socket'[c] \in {"CLOSING", "CLOSED"}
           /\ IsPeer(session', c) => socket'[c] = "CLOSING",
         x \in Conn => socket'[x] # "OPEN" \/ In(CLOSE(x), pending')
  PROVE  PeerInv' /\ StreamInv'
<1>1. PICK rest : /\ Joined(pending', e.actions, rest)
                  /\ \A i \in DOMAIN rest : rest[i].kind = "CLOSE"
  BY CallbackList
<1>2. Follows(session, e.session) /\ Closes(session, e, x) /\ Numbers(session, e)
  BY DEF Tidy
<1>3. \A c : ~Tells(rest, c)
  BY <1>1 DEF Tells, To
<1>4. \A c, n : OneSend(rest, c, n)
  BY <1>1 DEF OneSend, To
<1>5. \A a : In(a, e.actions) => In(a, pending')
  BY <1>1, JoinedSends
<1>6. \A a : ~In(a, pending) /\ ~Tells(pending, a)
  BY EmptySeq DEF Idle, In, Tells
<1>7. \A c \in Conn : socket'[c] = "OPEN" => socket[c] = "OPEN"
  OBVIOUS
<1>8. /\ \A c \in Conn : binding[c].role = "OWNER" /\ socket'[c] = "OPEN" => \E n \in Nat : Upto(c, n)
      /\ Live(session) /\ socket'[session.owner.connection] = "OPEN" =>
           Upto(session.owner.connection, session.owner.nextServerSequence - 1)
  <2>1. \A c : ~Overtaken(c)
    BY EmptySeq DEF Idle, Overtaken, Reserving
  <2>2. Live(session) => session.owner.connection \in Conn
    BY PeersKnown DEF StoreInv
  <2> QED  BY <1>6, <1>7, <2>1, <2>2 DEF StreamInv, Plain, InTurn
<1>9. PeerInv'
  <2>1. \A c \in Conn : c # x /\ socket'[c] = "OPEN" /\ In(CLOSE(c), pending) => In(CLOSE(c), pending')
    BY <1>6
  <2> HIDE DEF PeerInv
  <2> QED  BY <1>2, <1>5, <2>1, PeersFollow
<1>10. StreamInv'
  BY <1>1, <1>2, <1>3, <1>4, <1>7, <1>8, StreamFollows
<1> QED  BY <1>9, <1>10

(* What a message of an owner does to the session held. *)
LEMMA OwnerCallTidy ==
  ASSUME StoreInv, PeerInv, NEW c \in Conn, NEW m
  PROVE  LET id    == binding[c].session
             fresh == Len(issued) + 1
             e     == Effect(id, HandleOwner(SessionNamed(id), c, m, fresh, now))
         IN /\ OwnerOrderly(session, e, fresh, now) /\ e.actions \in Seq(ActionType)
<1> DEFINE id    == binding[c].session
           fresh == Len(issued) + 1
           r     == HandleOwner(SessionNamed(id), c, m, fresh, now)
           e     == Effect(id, r)
<1>1. now \in Nat /\ fresh \in Nat \ {0}
  BY DEF StoreInv, TypeOK
<1> HIDE DEF fresh, id
<1>2. r.actions \in Seq(ActionType)
  BY <1>1, NamedInv, FineHandleOwner DEF Fine
<1>3. e.session = Stored(id, r) /\ e.actions = r.actions
  BY DEF Effect
<1>4. r = HandleOwner(SessionNamed(id), c, m, fresh, now)
  OBVIOUS
<1> HIDE DEF e, r
<1>5. CASE Holds(id)
  <2>1. Distinct(session) /\ e.session = r.session /\ r = HandleOwner(session, c, m, fresh, now)
    BY <1>3, <1>4, <1>5, Reach
  <2>2. OwnerOrderly(session, r, fresh, now)
    BY <1>1, <2>1, HandleOwnerOrderly
  <2>3. OwnerOrderly(session, e, fresh, now)
    BY <1>3, <2>1, <2>2 DEF OwnerOrderly, Tidy, Closes, Numbers
  <2> QED  BY <1>2, <1>3, <2>3 DEF e, r, id, fresh
<1>6. CASE ~Holds(id)
  <2>1. e.session = session /\ r = Rejected(NoSession)
    BY <1>3, <1>4, <1>6, Reach, NothingHeld
  <2>2. e.actions = << >>
    BY <1>3, <2>1 DEF Rejected, Result
  <2>3. OwnerOrderly(session, e, fresh, now)
    BY <2>1, <2>2, StillTidy DEF OwnerOrderly, Tidy, Closes, Numbers
  <2> QED  BY <1>2, <1>3, <2>3 DEF e, r, id, fresh
<1> QED  BY <1>5, <1>6

(* What a message of a receiver does to the session held. *)
LEMMA ReceiverCallTidy ==
  ASSUME StoreInv, PeerInv, NEW c \in Conn, NEW m
  PROVE  LET id == binding[c].session
             e  == Effect(id, HandleReceiver(SessionNamed(id), c, m, now))
         IN Orderly(session, e, NoConn) /\ e.actions \in Seq(ActionType)
<1> DEFINE id == binding[c].session
           r  == HandleReceiver(SessionNamed(id), c, m, now)
           e  == Effect(id, r)
<1>1. now \in Nat
  BY DEF StoreInv, TypeOK
<1> HIDE DEF id
<1>2. r.actions \in Seq(ActionType)
  BY <1>1, NamedInv, FineHandleReceiver DEF Fine
<1>3. e.session = Stored(id, r) /\ e.actions = r.actions
  BY DEF Effect
<1>4. r = HandleReceiver(SessionNamed(id), c, m, now)
  OBVIOUS
<1> HIDE DEF e, r
<1>5. CASE Holds(id)
  <2>1. Distinct(session) /\ e.session = r.session /\ r = HandleReceiver(session, c, m, now)
    BY <1>3, <1>4, <1>5, Reach
  <2>2. Orderly(session, r, NoConn)
    BY <1>1, <2>1, HandleReceiverOrderly
  <2>3. Orderly(session, e, NoConn)
    BY <1>3, <2>1, <2>2 DEF Orderly, Tidy, Closes, Numbers
  <2> QED  BY <1>2, <1>3, <2>3 DEF e, r, id
<1>6. CASE ~Holds(id)
  <2>1. e.session = session /\ r = Rejected(NoSession)
    BY <1>3, <1>4, <1>6, Reach, NothingHeld
  <2>2. e.actions = << >>
    BY <1>3, <2>1 DEF Rejected, Result
  <2>3. Orderly(session, e, NoConn)
    BY <2>1, <2>2, StillTidy DEF Orderly, Tidy, Closes, Numbers
  <2> QED  BY <1>2, <1>3, <2>3 DEF e, r, id
<1> QED  BY <1>5, <1>6
----------------------------------------------------------------------------
(* The steps, one by one. *)

(* Nothing a callback does to a kept capability disturbs JoinInv. *)
LEMMA JoinKeptInv ==
  ASSUME StoreInv, JoinInv, JoinKept(session, session'), UNCHANGED <<issued, admitted>>
  PROVE  JoinInv'
BY DEF JoinInv, JoinKept, SingleUseJoin

(* A message of the owner may add one capability. *)
LEMMA JoinOpenedJoinInv ==
  ASSUME StoreInv, JoinInv, Opened(session', Len(issued) + 1, now), NEW i,
         issued' = Append(issued, i), i.at = now, i \in IssueType, admitted' = admitted
  PROVE  JoinInv'
<1>1. /\ issued \in Seq(IssueType) /\ Len(issued) \in Nat /\ now \in Nat
      /\ Len(issued') = Len(issued) + 1 /\ issued'[Len(issued) + 1] = i
      /\ \A k \in 1 .. Len(issued) : issued'[k] = issued[k]
      /\ admitted \in Seq(AdmissionType)
  BY DEF StoreInv, TypeOK
<1>2. \A k \in DOMAIN admitted : admitted[k].capability \in 1 .. Len(issued)
  <2>1. \A k \in DOMAIN admitted : admitted[k].capability \in Nat
    <3>1. \A k \in DOMAIN admitted : admitted[k] \in AdmissionType
      BY <1>1
    <3> QED  BY <3>1 DEF AdmissionType
  <2> QED  BY <1>1, <2>1 DEF JoinInv
<1>3. SingleUseJoin'
  BY <1>1, <1>2 DEF JoinInv, SingleUseJoin
<1>4. \A k \in DOMAIN admitted : /\ admitted[k].capability < Len(issued')
                                 /\ admitted[k].capability >= 1 /\ admitted[k].capability <= Len(issued')
  BY <1>1, <1>2
<1>5. /\ session'.joinCapability = Len(issued') /\ Len(issued') > 0
      /\ session'.joinExpiresAt <= issued'[Len(issued')].at + JOIN_CAPABILITY_LIFETIME
  BY <1>1 DEF Opened
<1> QED  BY <1>3, <1>4, <1>5 DEF JoinInv

(* Messages of bound connections. *)
LEMMA BoundAdmissionInv ==
  ASSUME AdmissionInv, NEW c \in Conn, NEW m, HandleOwnerMessage(c, m) \/ HandleReceiverMessage(c, m)
  PROVE  JoinInv' /\ PeerInv' /\ StreamInv'
<1>1. StoreInv /\ JoinInv /\ PeerInv /\ StreamInv /\ NoConn \notin Conn
  BY ConnAssumption DEF AdmissionInv
<1>2. CASE HandleOwnerMessage(c, m)
  <2> DEFINE id    == binding[c].session
             fresh == Len(issued) + 1
             r     == HandleOwner(SessionNamed(id), c, m, fresh, now)
             e     == Effect(id, r)
             i     == [session |-> id, at |-> now]
  <2>1. OwnerOrderly(session, e, fresh, now) /\ e.actions \in Seq(ActionType)
    BY <1>1, OwnerCallTidy
  <2>2. e.session = Stored(id, r) /\ e.actions = r.actions
    BY DEF Effect
  <2>3. /\ Idle /\ session' = e.session
        /\ pending' = e.actions \/ pending' = Append(e.actions, CLOSE(c))
        /\ issued' = (IF e.session.joinCapability = fresh THEN Append(issued, i) ELSE issued)
        /\ socket' = socket /\ binding' = binding /\ delivered' = delivered /\ admitted' = admitted
    BY <1>2, <2>2 DEF HandleOwnerMessage, Receiving, Finish
  <2>4. fresh = Len(issued) + 1 /\ Len(issued) \in Nat
    BY <1>1 DEF StoreInv, TypeOK
  <2>5. i \in IssueType /\ i.at = now
    BY <1>1 DEF StoreInv, TypeOK, IssueType
  <2> HIDE DEF e, r, id, i, fresh
  <2>6. PeerInv' /\ StreamInv'
    BY <1>1, <2>1, <2>3, CallbackKeeps DEF OwnerOrderly
  <2>7. JoinInv'
    <3>1. CASE JoinKept(session, session')
      <4>1. session'.joinCapability # fresh
        BY <1>1, <2>4, <3>1 DEF JoinKept, JoinInv, NoCapability
      <4> QED  BY <1>1, <2>3, <3>1, <4>1, JoinKeptInv
    <3>2. CASE Opened(session', fresh, now)
      <4>1. issued' = Append(issued, i)
        BY <2>3, <3>2 DEF Opened
      <4> QED  BY <1>1, <2>3, <2>4, <2>5, <3>2, <4>1, JoinOpenedJoinInv
    <3> QED  BY <2>1, <2>3, <3>1, <3>2 DEF OwnerOrderly
  <2> QED  BY <2>6, <2>7
<1>3. CASE HandleReceiverMessage(c, m)
  <2> DEFINE id == binding[c].session
             r  == HandleReceiver(SessionNamed(id), c, m, now)
             e  == Effect(id, r)
  <2>1. Orderly(session, e, NoConn) /\ e.actions \in Seq(ActionType)
    BY <1>1, ReceiverCallTidy
  <2>2. e.session = Stored(id, r) /\ e.actions = r.actions
    BY DEF Effect
  <2>3. /\ Idle /\ session' = e.session
        /\ pending' = e.actions \/ pending' = Append(e.actions, CLOSE(c))
        /\ socket' = socket /\ binding' = binding /\ delivered' = delivered
        /\ UNCHANGED <<issued, admitted>>
    BY <1>3, <2>2 DEF HandleReceiverMessage, Receiving, Finish
  <2> HIDE DEF e, r, id
  <2>4. PeerInv' /\ StreamInv'
    BY <1>1, <2>1, <2>3, CallbackKeeps DEF Orderly
  <2>5. JoinInv'
    BY <1>1, <2>1, <2>3, JoinKeptInv DEF Orderly
  <2> QED  BY <2>4, <2>5
<1> QED  BY <1>2, <1>3

(* Failures and closes. *)
LEMMA EndAdmissionInv ==
  ASSUME AdmissionInv, NEW c \in Conn, FailConnection(c) \/ SocketClosed(c)
  PROVE  JoinInv' /\ PeerInv' /\ StreamInv'
<1> DEFINE id == binding[c].session
           r  == DisconnectResult(c)
           e  == Effect(id, r)
<1>1. StoreInv /\ JoinInv /\ PeerInv /\ StreamInv /\ NoConn \notin Conn
  BY ConnAssumption DEF AdmissionInv
<1>2. /\ Tidy(session, e, c) /\ JoinKept(session, e.session)
      /\ ~IsPeer(e.session, c) /\ e.actions \in Seq(ActionType)
  BY <1>1, DisconnectTidy
<1>3. e.session = Stored(id, r) /\ e.actions = r.actions
  BY DEF Effect
<1>4. /\ Idle /\ session' = e.session /\ socket[c] \in {"OPEN", "CLOSING"}
      /\ binding' = binding /\ delivered' = delivered /\ UNCHANGED <<issued, admitted>>
  BY <1>3 DEF FailConnection, SocketClosed
<1>5. \/ pending' = e.actions /\ socket' = [socket EXCEPT ![c] = "CLOSED"]
      \/ pending' = Append(e.actions, CLOSE(c)) /\ socket' = socket
  BY <1>3 DEF FailConnection, SocketClosed
<1> HIDE DEF e, r, id
<1>6. /\ socket \in [Conn -> SocketStates]
      /\ pending' = e.actions \/ \E d \in Conn : pending' = Append(e.actions, CLOSE(d))
  BY <1>1, <1>5 DEF StoreInv, TypeOK
<1>7. \A d \in Conn : socket'[d] # socket[d] => d = c /\ socket'[d] = "CLOSED"
  BY <1>5, <1>6
<1>8. socket'[c] # "OPEN" \/ In(CLOSE(c), pending')
  <2>1. CASE socket' = [socket EXCEPT ![c] = "CLOSED"]
    BY <1>6, <2>1
  <2>2. CASE pending' = Append(e.actions, CLOSE(c))
    <3>1. CLOSE(c) \in ActionType
      BY CloseType
    <3>2. Len(e.actions) + 1 \in DOMAIN pending' /\ pending'[Len(e.actions) + 1] = CLOSE(c)
      BY <1>2, <2>2, <3>1
    <3> QED  BY <3>2 DEF In
  <2> QED  BY <1>5, <2>1, <2>2
<1>9. PeerInv' /\ StreamInv'
  <2>1. \A d \in Conn : socket'[d] # socket[d] =>
           /\ socket[d] \in {"OPEN", "CLOSING"} /\ socket'[d] \in {"CLOSING", "CLOSED"}
           /\ IsPeer(session', d) => socket'[d] = "CLOSING"
    BY <1>2, <1>4, <1>7
  <2> QED  BY <1>1, <1>2, <1>4, <1>6, <1>8, <2>1, CallbackKeeps
<1>10. JoinInv'
  BY <1>1, <1>2, <1>4, JoinKeptInv
<1> QED  BY <1>9, <1>10

(* Connects, first message timeouts and the clock touch no session. *)
LEMMA QuietAdmissionInv ==
  ASSUME AdmissionInv, NEW c,
         (c \in Conn /\ (Connect(c) \/ FirstMessageTimeout(c))) \/ AdvanceTime
  PROVE  JoinInv' /\ PeerInv' /\ StreamInv'
<1>1. /\ StoreInv /\ JoinInv /\ PeerInv /\ StreamInv /\ NoConn \notin Conn
      /\ socket \in [Conn -> SocketStates]
  BY ConnAssumption DEF AdmissionInv, StoreInv, TypeOK
<1>2. /\ Idle /\ session' = session /\ pending' = pending /\ binding' = binding
      /\ delivered' = delivered /\ UNCHANGED <<issued, admitted>>
  BY DEF Connect, FirstMessageTimeout, AdvanceTime
<1>3. JoinInv'
  BY <1>1, <1>2, JoinKeptInv DEF JoinKept
<1>4. CASE c \in Conn /\ Connect(c)
  <2>1. socket[c] = "UNUSED" /\ socket' = [socket EXCEPT ![c] = "OPEN"] /\ binding[c].role = "NONE"
    BY <1>1, <1>4 DEF Connect, PeerInv
  <2>2. \A d \in Conn : d # c => socket'[d] = socket[d]
    BY <1>1, <2>1
  <2>3. /\ Live(session) => session.owner.connection # c /\ session.owner.connection \in Conn
        /\ Live(session) /\ HasReceiver(session) =>
             session.receiver.connection # c /\ session.receiver.connection \in Conn
    BY <1>1, <2>1, PeersKnown DEF PeerInv, Attached, StoreInv
  <2>4. PeerInv'
    BY <1>1, <1>2, <2>1, <2>2, <2>3 DEF PeerInv, Attached, IsPeer, HasReceiver, Live, In
  <2>5. StreamInv'
    <3>1. \A d : /\ Plain(d)' <=> Plain(d)
                 /\ Overtaken(d)' <=> Overtaken(d)
                 /\ InTurn(d)' <=> InTurn(d)
      BY <1>2 DEF Plain, Overtaken, InTurn, Reserving, Upto
    <3> QED  BY <1>1, <1>2, <2>1, <2>2, <2>3, <3>1 DEF StreamInv, Live
  <2> QED  BY <1>3, <2>4, <2>5
<1>5. CASE (c \in Conn /\ FirstMessageTimeout(c)) \/ AdvanceTime
  <2> DEFINE e == [session |-> session, actions |-> << >>]
  <2>1. Tidy(session, e, NoConn) /\ e.session = session /\ e.actions = << >> /\ e.actions \in Seq(ActionType)
    BY <1>1, StillTidy
  <2> HIDE DEF e
  <2>2. \A d \in Conn : socket'[d] # socket[d] => socket[d] = "OPEN" /\ socket'[d] = "CLOSING"
    BY <1>1, <1>5 DEF FirstMessageTimeout, AdvanceTime
  <2>3. PeerInv' /\ StreamInv'
    BY <1>1, <1>2, <2>1, <2>2, CallbackKeeps DEF Idle
  <2> QED  BY <1>3, <2>3
<1> QED  BY <1>4, <1>5

(* The tick. *)
LEMMA TickAdmissionInv ==
  ASSUME AdmissionInv, Tick
  PROVE  JoinInv' /\ PeerInv' /\ StreamInv'
<1> DEFINE r == TickResult(session, now)
<1>1. StoreInv /\ JoinInv /\ PeerInv /\ StreamInv /\ NoConn \notin Conn /\ now \in Nat
  BY ConnAssumption DEF AdmissionInv, StoreInv, TypeOK
<1>2. Distinct(session) /\ Inv(session) /\ Live(session)
  BY <1>1, PeersDiffer DEF Tick, Distinct
<1>3. Orderly(session, r, NoConn) /\ r.actions \in Seq(ActionType)
  BY <1>1, <1>2, TickOrderly, FineTick DEF Fine
<1>4. /\ Idle /\ session' = r.session /\ pending' = r.actions
      /\ socket' = socket /\ binding' = binding /\ delivered' = delivered
      /\ UNCHANGED <<issued, admitted>>
  BY DEF Tick
<1> HIDE DEF r
<1>5. PeerInv' /\ StreamInv'
  BY <1>1, <1>3, <1>4, CallbackKeeps DEF Orderly
<1>6. JoinInv'
  BY <1>1, <1>3, <1>4, JoinKeptInv DEF Orderly
<1> QED  BY <1>5, <1>6

(* The stack without its top. *)
LEMMA TailParts ==
  ASSUME StoreInv, pending # << >>
  PROVE  LET q == Tail(pending) IN
         /\ q \in Seq(ActionType) /\ Head1 = pending[1] /\ Head1 \in ActionType /\ 1 \in DOMAIN pending
         /\ \A i \in DOMAIN q : i \in Nat \ {0} /\ i + 1 \in DOMAIN pending /\ q[i] = pending[i + 1]
         /\ \A i \in DOMAIN pending : i # 1 => i - 1 \in DOMAIN q /\ q[i - 1] = pending[i]
         /\ \A a : In(a, pending) => a = Head1 \/ In(a, q)
         /\ \A c : Tells(pending, c) <=> To(Head1, c) \/ Tells(q, c)
         /\ \A c, n : OneSend(pending, c, n) => OneSend(q, c, n)
         /\ \A c, n : OneSend(pending, c, n) /\ To(Head1, c) => Head1.sequence = n /\ ~Tells(q, c)
<1> DEFINE q == Tail(pending)
<1>1. pending \in Seq(ActionType) /\ Len(pending) \in Nat \ {0}
  BY EmptySeq DEF StoreInv, TypeOK
<1>2. /\ q \in Seq(ActionType) /\ Len(q) = Len(pending) - 1
      /\ Head1 = pending[1] /\ Head1 \in ActionType /\ 1 \in DOMAIN pending
      /\ \A i \in 1 .. Len(q) : q[i] = pending[i + 1]
  BY <1>1, HeadTailProperties DEF Head1
<1> HIDE DEF q
<1>3. \A i \in DOMAIN q : i \in Nat \ {0} /\ i + 1 \in DOMAIN pending /\ q[i] = pending[i + 1]
  BY <1>1, <1>2
<1>4. \A i \in DOMAIN pending : i # 1 => i - 1 \in DOMAIN q /\ q[i - 1] = pending[i]
  BY <1>1, <1>2
<1>5. \A a : In(a, pending) => a = Head1 \/ In(a, q)
  BY <1>2, <1>4 DEF In
<1>6. \A c : Tells(pending, c) <=> To(Head1, c) \/ Tells(q, c)
  <2>1. \A c : Tells(pending, c) => To(Head1, c) \/ Tells(q, c)
    BY <1>2, <1>4 DEF Tells
  <2>2. \A c : To(Head1, c) => Tells(pending, c)
    BY <1>2 DEF Tells
  <2>3. \A c : Tells(q, c) => Tells(pending, c)
    BY <1>3 DEF Tells
  <2> QED  BY <2>1, <2>2, <2>3
<1>7. ASSUME NEW c, NEW n, OneSend(pending, c, n)
      PROVE  OneSend(q, c, n) /\ (To(Head1, c) => Head1.sequence = n /\ ~Tells(q, c))
  <2>1. ASSUME NEW i \in DOMAIN q, NEW j \in DOMAIN q, To(q[i], c), To(q[j], c)
        PROVE  i = j /\ q[i].sequence = n
    <3>1. /\ i + 1 \in DOMAIN pending /\ q[i] = pending[i + 1] /\ i \in Nat
          /\ j + 1 \in DOMAIN pending /\ q[j] = pending[j + 1] /\ j \in Nat
      BY <1>3
    <3>2. i + 1 = j + 1 /\ pending[i + 1].sequence = n
      BY <1>7, <2>1, <3>1 DEF OneSend
    <3> QED  BY <3>1, <3>2
  <2>2. OneSend(q, c, n)
    BY <2>1 DEF OneSend
  <2>3. ASSUME To(Head1, c) PROVE Head1.sequence = n /\ ~Tells(q, c)
    <3>1. Head1.sequence = n /\ \A i \in DOMAIN pending : To(pending[i], c) => i = 1
      BY <1>2, <1>7, <2>3 DEF OneSend
    <3>2. ASSUME NEW i \in DOMAIN q, To(q[i], c) PROVE FALSE
      <4>1. i \in Nat \ {0} /\ i + 1 \in DOMAIN pending /\ To(pending[i + 1], c)
        BY <1>3, <3>2
      <4>2. i + 1 = 1
        BY <3>1, <4>1
      <4> QED  BY <4>1, <4>2
    <3> QED  BY <3>1, <3>2 DEF Tells
  <2> QED  BY <2>2, <2>3
<1> QED  BY <1>2, <1>3, <1>4, <1>5, <1>6, <1>7 DEF q

(* An action that is dispatched or skipped without further ado: the rest   *)
(* of the stack keeps what PeerInv and StreamInv say of it.                *)
LEMMA PlainDispatchInv ==
  ASSUME AdmissionInv, DispatchSkip \/ DispatchClose \/ DispatchSend
  PROVE  JoinInv' /\ PeerInv' /\ StreamInv'
<1> DEFINE q == Tail(pending)
           h == Head1.connection
<1>a. PICK o : o = session.owner.connection
  OBVIOUS
<1>1. /\ StoreInv /\ JoinInv /\ PeerInv /\ StreamInv /\ pending # << >>
      /\ socket \in [Conn -> SocketStates] /\ delivered \in [Conn -> SUBSET Nat]
  BY DEF AdmissionInv, StoreInv, TypeOK, DispatchSkip, DispatchClose, DispatchSend, Dispatchable
<1>2. Head1 \in ActionType /\ h \in Conn
  BY <1>1, TailParts DEF ActionType
<1>3. /\ session' = session /\ binding' = binding /\ pending' = q /\ UNCHANGED <<issued, admitted>>
  BY DEF DispatchSkip, DispatchClose, DispatchSend
<1>4. JoinInv'
  BY <1>1, <1>3, JoinKeptInv DEF JoinKept
<1>5. /\ Live(session) => o \in Conn /\ binding[o].role = "OWNER"
      /\ Live(session) /\ HasReceiver(session) => session.receiver.connection \in Conn
  BY <1>1, <1>a, PeersKnown DEF StoreInv, PeerInv, Attached
<1>6. \/ socket[h] # "OPEN" /\ socket' = socket
      \/ Head1.kind = "CLOSE" /\ socket[h] = "OPEN" /\ socket' = [socket EXCEPT ![h] = "CLOSING"]
      \/ Head1.kind = "SEND" /\ socket' = socket
  BY DEF DispatchSkip, DispatchClose, DispatchSend, Dispatchable
<1>7. \/ delivered' = delivered /\ (Head1.kind = "SEND" => socket[h] # "OPEN")
      \/ /\ Head1.kind = "SEND" /\ socket[h] = "OPEN" /\ socket' = socket
         /\ delivered' = [delivered EXCEPT ![h] = @ \cup {Head1.sequence}]
  BY DEF DispatchSkip, DispatchClose, DispatchSend, Dispatchable
<1>8. PeerInv'
  <2>1. \A c \in Conn : /\ socket'[c] = "OPEN" => socket[c] = "OPEN"
                        /\ socket[c] \in {"OPEN", "CLOSING"} => socket'[c] \in {"OPEN", "CLOSING"}
                        /\ socket'[c] = "UNUSED" => socket[c] = "UNUSED"
    BY <1>1, <1>2, <1>6
  <2>2. ASSUME NEW c \in Conn, socket'[c] = "OPEN", In(CLOSE(c), pending)
        PROVE  In(CLOSE(c), q)
    <3>1. CLOSE(c).kind = "CLOSE" /\ CLOSE(c).connection = c
      BY DEF CLOSE
    <3>2. Head1 # CLOSE(c)
      BY <1>1, <1>2, <1>6, <2>2, <3>1
    <3> QED  BY <1>1, <2>2, <3>2, TailParts
  <2>3. /\ Live(session') => Attached(session.owner.connection, "OWNER")'
        /\ Live(session') /\ HasReceiver(session)' => Attached(session.receiver.connection, "RECEIVER")'
    BY <1>1, <1>a, <1>3, <1>5, <2>1 DEF PeerInv, Attached, Live, HasReceiver
  <2>4. \A c \in Conn : socket'[c] = "OPEN" /\ binding'[c].role # "NONE" =>
          IsPeer(session, c)' \/ In(CLOSE(c), pending)'
    BY <1>1, <1>3, <2>1, <2>2 DEF PeerInv, IsPeer
  <2>5. /\ \A c \in Conn : binding'[c].role = "NONE" => binding'[c] = Unbound
        /\ \A c \in Conn : socket'[c] = "UNUSED" => binding'[c].role = "NONE"
    BY <1>1, <1>3, <2>1 DEF PeerInv
  <2> QED  BY <2>3, <2>4, <2>5 DEF PeerInv
<1>9. \A c \in Conn : socket'[c] = "OPEN" => socket[c] = "OPEN"
  BY <1>1, <1>2, <1>6
<1>10. \A c \in Conn : \/ delivered'[c] = delivered[c] /\ (socket[c] = "OPEN" => ~To(Head1, c))
                       \/ delivered'[c] = delivered[c] \cup {Head1.sequence} /\ To(Head1, c)
  BY <1>1, <1>2, <1>7 DEF To
<1>11. \A c \in Conn : binding'[c].role = "NONE" => delivered'[c] = {} /\ ~Tells(pending', c)
  BY <1>1, <1>3, <1>10, TailParts DEF StreamInv
<1>12. ASSUME NEW c \in Conn, socket'[c] = "OPEN", Plain(c)
       PROVE  Plain(c)'
  <2>1. PICK n \in Nat : Upto(c, n) /\ OneSend(pending, c, n + 1)
    BY <1>12 DEF Plain
  <2>2. CASE delivered'[c] = delivered[c]
    <3>1. OneSend(q, c, n + 1)
      BY <1>1, <2>1, TailParts
    <3> QED  BY <1>3, <2>1, <2>2, <3>1 DEF Plain, Upto
  <2>3. CASE delivered'[c] = delivered[c] \cup {Head1.sequence} /\ To(Head1, c)
    <3>1. Head1.sequence = n + 1 /\ ~Tells(q, c)
      BY <1>1, <2>1, <2>3, TailParts
    <3>2. delivered'[c] = 1 .. (n + 1) /\ n + 1 \in Nat
      BY <2>1, <2>3, <3>1, OneMore DEF Upto
    <3>3. OneSend(q, c, (n + 1) + 1)
      BY <3>1 DEF OneSend, Tells
    <3> QED  BY <1>3, <3>2, <3>3 DEF Plain, Upto
  <2> QED  BY <1>10, <2>2, <2>3
<1>13. ASSUME Live(session), socket'[o] = "OPEN", InTurn(o), Plain(o)
       PROVE  InTurn(o)'
  <2> DEFINE s == session.owner.nextServerSequence
  <2>1. /\ socket[o] = "OPEN" /\ o \in Conn /\ s \in Nat
        /\ Upto(o, s - (IF Tells(pending, o) THEN 2 ELSE 1))
    BY <1>1, <1>a, <1>5, <1>9, <1>13 DEF InTurn, StoreInv, TypeOK, SessionType, PeerType
  <2>2. PICK n \in Nat : Upto(o, n) /\ OneSend(pending, o, n + 1)
    BY <1>13 DEF Plain
  <2>3. n = s - (IF Tells(pending, o) THEN 2 ELSE 1)
    BY <2>1, <2>2, UptoUnique
  <2> HIDE DEF s
  <2>4. /\ delivered'[o] = 1 .. (s - (IF Tells(q, o) THEN 2 ELSE 1))
        /\ s - (IF Tells(q, o) THEN 2 ELSE 1) \in Nat
    <3>1. CASE To(Head1, o)
      <4>1. Head1.sequence = n + 1 /\ ~Tells(q, o) /\ Tells(pending, o)
        BY <1>1, <2>2, <3>1, TailParts
      <4>2. delivered'[o] = (1 .. n) \cup {n + 1}
        BY <1>10, <2>1, <2>2, <3>1, <4>1 DEF Upto
      <4>3. delivered'[o] = 1 .. (n + 1)
        BY <4>2, OneMore
      <4>4. s - 1 = n + 1 /\ n + 1 \in Nat
        BY <2>1, <2>2, <2>3, <4>1
      <4> QED  BY <4>1, <4>3, <4>4
    <3>2. CASE ~To(Head1, o)
      <4>1. Tells(q, o) <=> Tells(pending, o)
        BY <1>1, <3>2, TailParts
      <4>2. delivered'[o] = delivered[o]
        BY <1>10, <2>1, <3>2
      <4> QED  BY <2>1, <4>1, <4>2 DEF Upto
    <3> QED  BY <3>1, <3>2
  <2>5. ASSUME NEW i \in DOMAIN q, To(q[i], o), NEW j \in 1 .. (i - 1)
        PROVE  q[j].kind # "SEND"
    <3>1. /\ i \in Nat \ {0} /\ i + 1 \in DOMAIN pending /\ q[i] = pending[i + 1]
          /\ DOMAIN q = 1 .. Len(q) /\ Len(q) \in Nat
      BY <1>1, TailParts
    <3>2. j \in DOMAIN q /\ j + 1 \in 1 .. ((i + 1) - 1)
      BY <3>1
    <3>3. q[j] = pending[j + 1] /\ j + 1 \in DOMAIN pending /\ j \in Nat \ {0}
      BY <1>1, <3>2, TailParts
    <3>4. ~Reserving(o)
      BY <3>1, <3>3 DEF Reserving
    <3> QED  BY <1>13, <2>5, <3>1, <3>2, <3>3, <3>4 DEF InTurn
  <2> QED  BY <1>3, <1>a, <2>4, <2>5 DEF InTurn, Upto, s
<1>14. StreamInv'
  <2>1. CASE ~(Live(session) /\ socket[o] = "OPEN" /\ Overtaken(o))
    <3>1. \A c \in Conn : binding'[c].role = "OWNER" /\ socket'[c] = "OPEN" => Plain(c)'
      BY <1>1, <1>a, <1>3, <1>9, <1>12, <2>1 DEF StreamInv
    <3>2. Live(session) /\ socket'[o] = "OPEN" => InTurn(o)'
      BY <1>1, <1>a, <1>5, <1>9, <1>13, <2>1 DEF StreamInv
    <3> QED  BY <1>3, <1>a, <1>11, <3>1, <3>2 DEF StreamInv, Live
  <2>2. CASE Live(session) /\ socket[o] = "OPEN" /\ Overtaken(o)
    <3>1. PICK n \in Nat :
            /\ session.owner.nextServerSequence = n + 3
            /\ \/ /\ delivered[o] = 1 .. n /\ Reserving(o) /\ pending[2].sequence = n + 1
                  /\ To(pending[1], o) /\ pending[1].sequence = n + 2
               \/ /\ delivered[o] = (1 .. n) \cup {n + 2}
                  /\ DOMAIN pending = {1} /\ To(pending[1], o) /\ pending[1].sequence = n + 1
      BY <1>a, <2>2 DEF Overtaken
    <3>2. Head1 = pending[1] /\ To(Head1, o) /\ o \in Conn /\ h = o /\ Head1.kind = "SEND"
      BY <1>1, <1>5, <2>2, <3>1, TailParts DEF To
    <3>3. delivered'[o] = delivered[o] \cup {Head1.sequence} /\ socket' = socket
      BY <1>6, <1>10, <2>2, <3>2
    <3>4. \A c \in Conn : c # o => delivered'[c] = delivered[c]
      BY <1>10, <3>2 DEF To
    <3>5. \A c \in Conn : c # o /\ binding'[c].role = "OWNER" /\ socket'[c] = "OPEN" => Plain(c)'
      BY <1>1, <1>a, <1>3, <1>12, <3>3 DEF StreamInv
    <3>6. CASE DOMAIN pending = {1, 2}
      <4>1. /\ Reserving(o) /\ delivered[o] = 1 .. n /\ pending[2].sequence = n + 1
            /\ pending[1].sequence = n + 2 /\ To(pending[2], o)
        <5>1. DOMAIN pending # {1}
          BY <3>6
        <5> QED  BY <3>1, <5>1 DEF Reserving
      <4>2. DOMAIN q = {1} /\ q[1] = pending[2]
        <5>1. 1 \in DOMAIN q /\ q[1] = pending[2]
          BY <1>1, <3>6, TailParts
        <5>2. \A i \in DOMAIN q : i = 1
          BY <1>1, <3>6, TailParts
        <5> QED  BY <5>1, <5>2
      <4>3. delivered'[o] = (1 .. n) \cup {n + 2}
        BY <3>2, <3>3, <4>1
      <4>4. Overtaken(o)'
        BY <1>3, <3>1, <4>1, <4>2, <4>3 DEF Overtaken
      <4> QED  BY <1>3, <1>a, <1>11, <2>2, <3>3, <3>5, <4>4 DEF StreamInv, Live
    <3>7. CASE DOMAIN pending # {1, 2}
      <4>1. /\ delivered[o] = (1 .. n) \cup {n + 2} /\ DOMAIN pending = {1}
            /\ pending[1].sequence = n + 1
        BY <3>1, <3>7 DEF Reserving
      <4>2. DOMAIN q = {}
        <5>1. \A i \in DOMAIN q : i \in Nat \ {0} /\ i + 1 \in {1}
          BY <1>1, <4>1, TailParts
        <5> QED  BY <5>1
      <4>3. delivered'[o] = 1 .. (n + 2) /\ n + 2 \in Nat /\ (n + 3) - 1 = n + 2
        BY <3>2, <3>3, <4>1
      <4>4. ~Tells(pending, o)' /\ OneSend(pending, o, (n + 2) + 1)'
        BY <1>3, <4>2 DEF Tells, OneSend
      <4>5. Plain(o)'
        BY <4>3, <4>4 DEF Plain, Upto
      <4>6. InTurn(o)'
        BY <1>3, <3>1, <4>2, <4>3, <4>4 DEF InTurn, Upto
      <4> QED  BY <1>3, <1>a, <1>11, <3>5, <4>5, <4>6 DEF StreamInv, Live
    <3> QED  BY <3>6, <3>7
  <2> QED  BY <2>1, <2>2
<1> QED  BY <1>4, <1>8, <1>14

(* What the end of a connection that is not the owner's makes of the       *)
(* session: nothing, or it tells the owner.                                *)
LEMMA DisconnectOther ==
  ASSUME StoreInv, PeerInv, Live(session), NEW c \in Conn, c # session.owner.connection
  PROVE  LET o == session.owner.connection
             r == DisconnectResult(c)
             e == Effect(binding[c].session, r)
         IN \/ e.session = session /\ e.actions = << >>
            \/ /\ Live(e.session) /\ e.session.owner.connection = o
               /\ e.session.owner.nextServerSequence = session.owner.nextServerSequence + 1
               /\ DOMAIN e.actions = {1} /\ To(e.actions[1], o)
               /\ e.actions[1].sequence = session.owner.nextServerSequence
<1> DEFINE o == session.owner.connection
           id == binding[c].session
           r == DisconnectResult(c)
           e == Effect(id, r)
           n == SentToOwner(Detached(session, now))
           m == SEND(session.owner, "RECEIVER_DISCONNECTED")
<1>1. /\ r = Disconnect(SessionNamed(id), binding[c].role, c, now)
      /\ e.session = Stored(id, r) /\ e.actions = r.actions
  BY DEF DisconnectResult, Effect
<1>2. now \in Nat
  BY DEF StoreInv, TypeOK
<1> HIDE DEF e, r, id
<1>3. CASE ~Holds(id)
  <2>1. e.session = session /\ r = Result(NoSession, TRUE, << >>)
    BY <1>1, <1>3, Reach, NothingHeld
  <2> QED  BY <1>1, <2>1 DEF Result, e, r, id
<1>4. CASE Holds(id)
  <2>1. /\ e.session = r.session /\ r = Disconnect(session, binding[c].role, c, now)
        /\ Distinct(session)
    BY <1>1, <1>4, Reach
  <2>2. CASE r = Result(session, TRUE, << >>)
    BY <1>1, <2>1, <2>2 DEF Result, e, r, id
  <2>3. CASE r = DetachReceiver(session, now, FALSE, TRUE)
    <3>1. r.session = n /\ r.actions = Append(<< >>, m)
      BY <2>3 DEF DetachReceiver, Result
    <3>2. Inv(Detached(session, now)) /\ Live(Detached(session, now))
      BY <1>2, <2>1, DetachedInv DEF Distinct
    <3>3. Detached(session, now).owner = session.owner
      BY <2>1 DEF Detached, Distinct, Inv, SessionType
    <3>4. Kept(Detached(session, now), n, 1)
      BY <3>2, SentFields
    <3>5. m.kind = "SEND" /\ m.connection = o /\ m.sequence = session.owner.nextServerSequence
      BY DEF SEND
    <3> HIDE DEF n, m
    <3>6. /\ Live(n) /\ n.owner.connection = o
          /\ n.owner.nextServerSequence = session.owner.nextServerSequence + 1
      BY <3>2, <3>3, <3>4 DEF Kept, Live
    <3>7. DOMAIN r.actions = {1} /\ r.actions[1] = m
      BY <3>1
    <3> QED  BY <1>1, <2>1, <3>1, <3>5, <3>6, <3>7 DEF To, e, r, id
  <2> QED  BY <2>1, <2>2, <2>3 DEF Disconnect
<1> QED  BY <1>3, <1>4

(* A destination whose buffer is full is disconnected, and the cleanup is  *)
(* dispatched before the rest of the stack.  The rest then holds nothing   *)
(* for an owner who is told something now, unless a receiver is being      *)
(* admitted.                                                               *)
LEMMA BackpressureInv ==
  ASSUME AdmissionInv, DispatchBackpressure
  PROVE  JoinInv' /\ PeerInv' /\ StreamInv'
<1> DEFINE rest == Tail(pending)
           h == Head1.connection
           id == binding[h].session
           r == DisconnectResult(h)
           e == Effect(id, r)
<1>a. PICK o : o = session.owner.connection
  OBVIOUS
<1>1. /\ StoreInv /\ JoinInv /\ PeerInv /\ StreamInv /\ pending # << >> /\ NoConn \notin Conn
      /\ socket \in [Conn -> SocketStates] /\ delivered \in [Conn -> SUBSET Nat]
  BY ConnAssumption DEF AdmissionInv, StoreInv, TypeOK, DispatchBackpressure, Dispatchable
<1>2. Head1 \in ActionType /\ h \in Conn /\ rest \in Seq(ActionType)
  BY <1>1, TailParts DEF ActionType
<1>3. /\ Head1.kind = "SEND" /\ socket[h] = "OPEN"
      /\ session' = Stored(id, r) /\ pending' = r.actions \o rest
      /\ socket' = [socket EXCEPT ![h] = "CLOSING"]
      /\ binding' = binding /\ delivered' = delivered /\ UNCHANGED <<issued, admitted>>
  BY DEF DispatchBackpressure, Dispatchable
<1> HIDE DEF rest, h
<1>4. /\ Tidy(session, e, h) /\ JoinKept(session, e.session)
      /\ ~IsPeer(e.session, h) /\ e.actions \in Seq(ActionType)
  BY <1>1, <1>2, DisconnectTidy
<1>5. e.session = Stored(id, r) /\ e.actions = r.actions
  BY DEF Effect
<1> HIDE DEF e, r, id
<1>6. JoinInv'
  BY <1>1, <1>3, <1>4, <1>5, JoinKeptInv
<1>7. Joined(pending', e.actions, rest)
  <2>1. /\ e.actions \o rest \in Seq(ActionType)
        /\ Len(e.actions \o rest) = Len(e.actions) + Len(rest)
        /\ \A i \in 1 .. Len(e.actions) + Len(rest) :
             (e.actions \o rest)[i] = IF i <= Len(e.actions) THEN e.actions[i] ELSE rest[i - Len(e.actions)]
    BY <1>2, <1>4, ConcatProperties
  <2> QED  BY <1>2, <1>3, <1>4, <1>5, <2>1 DEF Joined
<1>8. \A d \in Conn : socket'[d] # socket[d] => d = h /\ socket'[d] = "CLOSING"
  BY <1>1, <1>3
<1>9. socket'[h] = "CLOSING" /\ (\A d \in Conn : socket'[d] = "OPEN" => socket[d] = "OPEN" /\ d # h)
  BY <1>1, <1>2, <1>3
<1>10. PeerInv'
  <2>1. \A a : In(a, e.actions) => In(a, pending')
    BY <1>7, JoinedSends
  <2>2. ASSUME NEW c \in Conn, In(CLOSE(c), pending) PROVE In(CLOSE(c), pending')
    <3>1. CLOSE(c).kind = "CLOSE"
      BY DEF CLOSE
    <3>2. In(CLOSE(c), rest)
      BY <1>1, <1>3, <2>2, <3>1, TailParts DEF rest
    <3> QED  BY <1>7, <3>2, JoinedSends
  <2>3. \A d \in Conn : socket'[d] # socket[d] =>
          /\ socket[d] \in {"OPEN", "CLOSING"} /\ socket'[d] \in {"CLOSING", "CLOSED"}
          /\ IsPeer(session', d) => socket'[d] = "CLOSING"
    BY <1>3, <1>8
  <2> QED  BY <1>1, <1>3, <1>4, <1>5, <1>9, <2>1, <2>2, <2>3, PeersFollow DEF Tidy
<1>11. \A c \in Conn : binding[c].role = "NONE" => ~Tells(rest, c)
  BY <1>1, TailParts DEF StreamInv, rest
<1>12. ASSUME NEW c \in Conn, binding[c].role = "OWNER", socket'[c] = "OPEN"
       PROVE  \E n \in Nat : Upto(c, n) /\ OneSend(pending, c, n + 1) /\ OneSend(rest, c, n + 1)
  <2>1. ~To(Head1, c) /\ Head1 = pending[1]
    BY <1>1, <1>9, <1>12, TailParts DEF To, h
  <2>2. ~Overtaken(c)
    BY <2>1 DEF Overtaken
  <2>3. Plain(c)
    BY <1>1, <1>9, <1>12, <2>2 DEF StreamInv
  <2> QED  BY <1>1, <2>3, TailParts DEF Plain, rest
<1>13. ASSUME Live(session), socket'[o] = "OPEN"
       PROVE  /\ o \in Conn /\ o # h /\ binding[o].role = "OWNER" /\ InTurn(o)
              /\ Tells(pending, o) <=> Tells(rest, o)
  <2>1. o \in Conn /\ binding[o].role = "OWNER"
    BY <1>1, <1>a, <1>13, PeersKnown DEF StoreInv, PeerInv, Attached
  <2>2. o # h /\ socket[o] = "OPEN"
    BY <1>9, <1>13, <2>1
  <2>3. ~To(Head1, o) /\ Head1 = pending[1]
    BY <1>1, <2>2, TailParts DEF To, h
  <2>4. InTurn(o)
    BY <1>1, <1>a, <1>13, <2>2, <2>3 DEF StreamInv, Overtaken
  <2> QED  BY <1>1, <2>1, <2>2, <2>3, <2>4, TailParts DEF rest
<1>14. CASE ~(Live(session) /\ socket'[o] = "OPEN" /\ Tells(rest, o))
  <2>1. Live(session) /\ socket'[o] = "OPEN" =>
          ~Tells(rest, o) /\ Upto(o, session.owner.nextServerSequence - 1)
    BY <1>a, <1>13, <1>14 DEF InTurn
  <2>2. \A c \in Conn : binding[c].role = "OWNER" /\ socket'[c] = "OPEN" =>
          \E n \in Nat : Upto(c, n) /\ OneSend(rest, c, n + 1)
    BY <1>12
  <2>3. StreamInv'
    BY <1>1, <1>a, <1>3, <1>4, <1>5, <1>7, <1>9, <1>11, <2>1, <2>2, StreamFollows DEF Tidy
  <2> QED  BY <1>6, <1>10, <2>3
<1>15. CASE Live(session) /\ socket'[o] = "OPEN" /\ Tells(rest, o)
  <2> DEFINE s == session.owner.nextServerSequence
  <2>1. /\ o \in Conn /\ o # h /\ binding[o].role = "OWNER" /\ Tells(pending, o)
        /\ Upto(o, s - 2) /\ s \in Nat /\ InTurn(o)
    BY <1>1, <1>a, <1>13, <1>15 DEF InTurn, StoreInv, TypeOK, SessionType, PeerType
  <2>2. Reserving(o)
    <3>1. PICK i \in DOMAIN pending : To(pending[i], o)
      BY <2>1 DEF Tells
    <3>2. i # 1 /\ Head1 = pending[1]
      BY <1>1, <2>1, <3>1, TailParts DEF To, h
    <3>3. DOMAIN pending = 1 .. Len(pending) /\ Len(pending) \in Nat
      BY <1>1 DEF StoreInv, TypeOK
    <3>4. 1 \in 1 .. (i - 1)
      BY <3>2, <3>3
    <3> QED  BY <1>3, <2>1, <3>1, <3>2, <3>4 DEF InTurn
  <2>3. DOMAIN rest = {1} /\ rest[1] = pending[2]
    <3>1. 1 \in DOMAIN rest /\ rest[1] = pending[2]
      BY <1>1, <2>2, TailParts DEF Reserving, rest
    <3>2. \A i \in DOMAIN rest : i \in Nat \ {0} /\ i + 1 \in {1, 2}
      BY <1>1, <2>2, TailParts DEF Reserving, rest
    <3>3. \A i \in DOMAIN rest : i = 1
      BY <3>2
    <3> QED  BY <3>1, <3>3
  <2>4. /\ s - 2 \in Nat /\ (s - 2) + 1 = s - 1 /\ (s - 2) + 2 = s /\ (s - 2) + 3 = s + 1
        /\ delivered[o] = 1 .. (s - 2)
    BY <2>1 DEF Upto
  <2>5. pending[2].sequence = s - 1 /\ To(pending[2], o)
    <3>1. PICK n \in Nat : Upto(o, n) /\ OneSend(pending, o, n + 1)
      BY <1>12, <1>15, <2>1
    <3>2. n = s - 2
      BY <2>1, <3>1, UptoUnique
    <3> QED  BY <2>2, <2>4, <3>1, <3>2 DEF Reserving, OneSend
  <2> HIDE DEF s
  <2>6. ASSUME NEW c \in Conn, c # o PROVE ~Tells(rest, c)
    BY <2>3, <2>5, <2>6 DEF Tells, To
  <2>7. \A c \in Conn : c # o /\ ~Tells(e.actions, c) => ~Tells(pending', c)
    BY <1>7, <2>6, JoinedSends
  <2>8. \/ e.session = session /\ e.actions = << >>
        \/ /\ Live(e.session) /\ e.session.owner.connection = o
           /\ e.session.owner.nextServerSequence = s + 1
           /\ DOMAIN e.actions = {1} /\ To(e.actions[1], o) /\ e.actions[1].sequence = s
    BY <1>1, <1>a, <1>2, <1>15, <2>1, DisconnectOther DEF e, r, id, s
  <2>9. ASSUME NEW c \in Conn, c # o PROVE ~Tells(pending', c)
    <3>1. ~Tells(e.actions, c)
      BY <2>8, <2>9, EmptySeq DEF Tells, To
    <3> QED  BY <2>7, <2>9, <3>1
  <2>10. \A c \in Conn : binding'[c].role = "NONE" => delivered'[c] = {} /\ ~Tells(pending', c)
    BY <1>1, <1>3, <2>1, <2>9 DEF StreamInv
  <2>11. ASSUME NEW c \in Conn, c # o, binding'[c].role = "OWNER", socket'[c] = "OPEN"
         PROVE  Plain(c)'
    <3>1. PICK n \in Nat : Upto(c, n)
      BY <1>3, <1>12, <2>11
    <3>2. OneSend(pending', c, n + 1)
      BY <2>9, <2>11 DEF OneSend, Tells
    <3> QED  BY <1>3, <3>1, <3>2 DEF Plain, Upto
  <2>12. CASE e.session = session /\ e.actions = << >>
    <3>1. DOMAIN pending' = {1} /\ pending'[1] = pending[2]
      BY <1>7, <2>3, <2>12, JoinedParts
    <3>2. Tells(pending', o) /\ OneSend(pending', o, s - 1)
      BY <2>5, <3>1 DEF Tells, OneSend
    <3>3. Plain(o)'
      BY <1>3, <2>4, <3>2 DEF Plain, Upto
    <3>4. InTurn(o)'
      <4>1. session' = session /\ delivered' = delivered
        BY <1>3, <1>5, <2>12
      <4>2. Upto(o, session.owner.nextServerSequence - (IF Tells(pending, o) THEN 2 ELSE 1))'
        BY <2>1, <3>2, <4>1 DEF Upto, s
      <4> QED  BY <3>1, <4>2 DEF InTurn
    <3> QED  BY <1>3, <1>a, <1>5, <1>6, <1>10, <2>10, <2>11, <2>12, <3>3, <3>4 DEF StreamInv, Live
  <2>13. CASE /\ Live(e.session) /\ e.session.owner.connection = o
              /\ e.session.owner.nextServerSequence = s + 1
              /\ DOMAIN e.actions = {1} /\ To(e.actions[1], o) /\ e.actions[1].sequence = s
    <3>1. /\ DOMAIN pending' = {1, 2} /\ pending'[1] = e.actions[1] /\ pending'[2] = pending[2]
      <4>1. /\ Len(e.actions) \in Nat /\ Len(rest) \in Nat
            /\ DOMAIN e.actions = 1 .. Len(e.actions) /\ DOMAIN rest = 1 .. Len(rest)
            /\ DOMAIN pending' = 1 .. Len(e.actions) + Len(rest)
            /\ \A i \in DOMAIN e.actions : pending'[i] = e.actions[i]
            /\ \A i \in DOMAIN rest : pending'[Len(e.actions) + i] = rest[i]
        <5> HIDE DEF rest
        <5> QED  BY <1>7, JoinedParts
      <4>2. \A k \in Nat : 1 .. k = {1} => k = 1
        OBVIOUS
      <4>3. Len(e.actions) = 1 /\ Len(rest) = 1
        <5> DEFINE x == Len(e.actions)
                   y == Len(rest)
        <5>1. x \in Nat /\ y \in Nat /\ 1 .. x = {1} /\ 1 .. y = {1}
          BY <2>3, <2>13, <4>1
        <5> HIDE DEF x, y
        <5>2. x = 1 /\ y = 1
          BY <4>2, <5>1
        <5> QED  BY <5>2 DEF x, y
      <4>4. DOMAIN pending' = {1, 2}
        <5>1. DOMAIN pending' = 1 .. 1 + 1
          BY <4>1, <4>3
        <5> QED  BY <5>1
      <4>5. pending'[1] = e.actions[1] /\ pending'[1 + 1] = rest[1]
        BY <2>3, <2>13, <4>1, <4>3
      <4> QED  BY <2>3, <4>4, <4>5
    <3>2. Reserving(o)'
      BY <2>2, <3>1 DEF Reserving
    <3>3. Overtaken(o)'
      BY <1>3, <1>5, <2>4, <2>5, <2>13, <3>1, <3>2 DEF Overtaken
    <3>4. session'.owner.connection = o /\ Live(session')
      BY <1>3, <1>5, <2>13
    <3>5. \A c \in Conn : binding'[c].role = "OWNER" /\ socket'[c] = "OPEN" =>
            Plain(c)' \/ (c = o /\ Overtaken(c)')
      BY <2>11, <3>3
    <3> QED  BY <1>6, <1>10, <2>10, <3>3, <3>4, <3>5 DEF StreamInv, Live
  <2> QED  BY <2>8, <2>12, <2>13
<1> QED  BY <1>14, <1>15

(* A rejection is tidy, whether it leaves the session or finds none. *)
LEMMA RejectionTidy ==
  ASSUME StoreInv, NEW n, n = session \/ (n = NoSession /\ ~Live(session))
  PROVE  Tidy(session, [session |-> n, actions |-> << >>], NoConn) /\ JoinKept(session, n)
<1>1. CASE n = session
  BY <1>1, StillTidy
<1>2. CASE n = NoSession /\ ~Live(session)
  <2> DEFINE e == [session |-> NoSession, actions |-> << >>]
  <2>1. e.session = NoSession /\ DOMAIN e.actions = {} /\ ~Live(e.session)
    BY NoSessionInv
  <2> HIDE DEF e
  <2>2. Tidy(session, e, NoConn)
    BY <1>2, <2>1 DEF Tidy, Follows, Closes, IsPeer, Numbers, OneSend
  <2>3. JoinKept(session, NoSession)
    BY DEF JoinKept, NoSession
  <2> QED  BY <1>2, <2>2, <2>3 DEF e
<1> QED  BY <1>1, <1>2

(* A rejected first message changes nothing but its own connection. *)
LEMMA RejectionInv ==
  ASSUME AdmissionInv, Idle, NEW c \in Conn,
         session' = session \/ (session' = NoSession /\ ~Live(session)),
         pending' = Append(<< >>, CLOSE(c)),
         UNCHANGED <<socket, binding, delivered, issued, admitted>>
  PROVE  JoinInv' /\ PeerInv' /\ StreamInv'
<1> DEFINE e == [session |-> session', actions |-> << >>]
<1>1. StoreInv /\ JoinInv /\ PeerInv /\ StreamInv /\ NoConn \notin Conn
  BY ConnAssumption DEF AdmissionInv
<1>2. Tidy(session, e, NoConn) /\ JoinKept(session, session')
  BY <1>1, RejectionTidy
<1>3. e.session = session' /\ e.actions = << >> /\ e.actions \in Seq(ActionType)
  OBVIOUS
<1> HIDE DEF e
<1>4. PeerInv' /\ StreamInv'
  BY <1>1, <1>2, <1>3, CallbackKeeps
<1>5. JoinInv'
  BY <1>1, <1>2, JoinKeptInv
<1> QED  BY <1>4, <1>5

(* #createSession, when it accepts. *)
LEMMA CreateResult ==
  ASSUME NEW id \in Nat \ {0}, NEW c \in Conn, NEW m, NEW t \in Nat
  PROVE  LET r == CreateSession(id, c, m, t) IN
         /\ m.sequence # 1 =>
              r.session = NoSession /\ r.actions = << >> /\ ~r.accepted /\ r.binding = "NONE"
         /\ m.sequence = 1 =>
              /\ r.accepted /\ r.binding = "OWNER"
              /\ r.session.id = id /\ r.session.joinCapability = NoCapability
              /\ r.session.owner.connection = c /\ r.session.owner.nextServerSequence = 2
              /\ r.session.receiver.connection = NoConn
              /\ DOMAIN r.actions = {1} /\ To(r.actions[1], c) /\ r.actions[1].sequence = 1
<1> DEFINE p == Peer(c, 2, t)
           a == t + ABSOLUTE_SESSION_LIFETIME
           o == t + OWNER_ONLY_LIFETIME
           d == [NoSession EXCEPT !.id = id, !.phase = "OWNER_ONLY", !.absoluteDeadline = a,
                                  !.phaseDeadline = o, !.owner = p]
           r == CreateSession(id, c, m, t)
<1>1. CASE m.sequence # 1
  BY <1>1 DEF CreateSession, Rejected, Result
<1>2. CASE m.sequence = 1
  <2>1. p.connection = c /\ p.nextServerSequence = 1 /\ p \in PeerType
    BY PeerTyped DEF Peer
  <2>2. /\ d.owner = p /\ d.receiver = NoPeer /\ d.joinCapability = NoCapability /\ d.id = id
    BY DEF NoSession
  <2>3. /\ r.session = SentToOwner(d) /\ r.actions = <<SEND(d.owner, "SESSION_CREATED")>>
        /\ r.accepted = TRUE /\ r.binding = "OWNER"
    BY <1>2 DEF CreateSession, Bound, ForwardToOwner, Result
  <2>4. /\ SEND(p, "SESSION_CREATED").kind = "SEND" /\ SEND(p, "SESSION_CREATED").connection = c
        /\ SEND(p, "SESSION_CREATED").sequence = 1
    BY <2>1 DEF SEND
  <2>5. Advance(p).connection = c /\ Advance(p).nextServerSequence = 2
    BY <2>1 DEF Advance, PeerType
  <2>6. /\ SentToOwner(d).id = d.id /\ SentToOwner(d).joinCapability = d.joinCapability
        /\ SentToOwner(d).owner = Advance(d.owner) /\ SentToOwner(d).receiver = d.receiver
    BY DEF SentToOwner, NoSession
  <2> HIDE DEF p, d, r
  <2>7. NoPeer.connection = NoConn
    BY DEF NoPeer
  <2>8. DOMAIN r.actions = {1} /\ r.actions[1] = SEND(p, "SESSION_CREATED")
    BY <2>2, <2>3
  <2> QED  BY <1>2, <2>2, <2>3, <2>4, <2>5, <2>6, <2>7, <2>8 DEF To, r
<1> QED  BY <1>1, <1>2

(* #reserveJoin, when it accepts. *)
LEMMA ReserveResult ==
  ASSUME NEW s, Inv(s), NEW c \in Conn, NEW m, NEW t \in Nat
  PROVE  LET r == ReserveJoin(s, c, m, t) IN
         /\ ~AdmitsReservation(s, m, t) =>
              r.session = s /\ r.actions = << >> /\ ~r.accepted /\ r.binding = "NONE"
         /\ AdmitsReservation(s, m, t) =>
              /\ r.accepted /\ r.binding = "RECEIVER"
              /\ r.session.id = s.id /\ r.session.joinCapability = NoCapability
              /\ r.session.owner.connection = s.owner.connection
              /\ r.session.owner.nextServerSequence = s.owner.nextServerSequence + 1
              /\ r.session.receiver.connection = c
              /\ DOMAIN r.actions = {1, 2}
              /\ To(r.actions[1], c)
              /\ To(r.actions[2], s.owner.connection)
              /\ r.actions[2].sequence = s.owner.nextServerSequence
              /\ r.actions[2].type = "RECEIVER_RESERVED"
<1> DEFINE r == ReserveJoin(s, c, m, t)
           d == Reserved(s, c, t)
           n == SentToOwner(SentToReceiver(d))
           a == SEND(d.receiver, "JOIN_RESERVED")
           b == SEND(d.owner, "RECEIVER_RESERVED")
<1>1. CASE ~AdmitsReservation(s, m, t)
  BY <1>1 DEF ReserveJoin, Rejected, Result
<1>2. CASE AdmitsReservation(s, m, t)
  <2>1. s \in SessionType /\ s.phase = "JOIN_OPEN" /\ Live(s)
    BY <1>2 DEF Inv, AdmitsReservation
  <2>2. Peer(c, 2, t).connection = c
    BY PeerTyped
  <2>3. /\ d.id = s.id /\ d.owner = s.owner /\ d.receiver = Peer(c, 2, t)
        /\ d.joinCapability = NoCapability
    BY <2>1 DEF Reserved, SessionType
  <2>4. Inv(d)
    BY <2>1, ReservedInv
  <2>5. /\ r.session = n /\ r.actions = <<a, b>> /\ r.accepted = TRUE /\ r.binding = "RECEIVER"
    BY <1>2 DEF ReserveJoin, Bound, Result
  <2>6. /\ a.kind = "SEND" /\ a.connection = d.receiver.connection
        /\ b.kind = "SEND" /\ b.connection = d.owner.connection
        /\ b.sequence = d.owner.nextServerSequence /\ b.type = "RECEIVER_RESERVED"
    BY DEF SEND
  <2> HIDE DEF d, a, b
  <2>7. Kept(d, SentToReceiver(d), 0) /\ JoinKept(d, SentToReceiver(d)) /\ Live(d)
    BY <2>1, <2>3, <2>4, SentFields DEF Live
  <2>8. Kept(SentToReceiver(d), n, 1) /\ JoinKept(SentToReceiver(d), n)
    BY <2>4, <2>7, SentToReceiverInv, SentFields
  <2> HIDE DEF n, r
  <2>9. s.owner.nextServerSequence \in Nat
    BY <2>1 DEF SessionType, PeerType
  <2>10. /\ n.id = s.id /\ n.joinCapability = NoCapability
         /\ n.owner.connection = s.owner.connection
         /\ n.owner.nextServerSequence = s.owner.nextServerSequence + 1
         /\ n.receiver.connection = c
    BY <2>2, <2>3, <2>7, <2>8, <2>9 DEF Kept, JoinKept
  <2>11. DOMAIN r.actions = {1, 2} /\ r.actions[1] = a /\ r.actions[2] = b
    BY <2>5
  <2> QED  BY <1>2, <2>2, <2>3, <2>5, <2>6, <2>10, <2>11 DEF To, r
<1> QED  BY <1>1, <1>2

(* A connection that creates a session becomes its owner.                  *)
LEMMA CreateAdmissionInv ==
  ASSUME AdmissionInv, NEW c \in Conn, NEW m, HandleCreateSession(c, m)
  PROVE  JoinInv' /\ PeerInv' /\ StreamInv'
<1> DEFINE id == created + 1
           r  == IF Live(session) THEN Rejected(session) ELSE CreateSession(id, c, m, now)
<1>1. /\ StoreInv /\ JoinInv /\ PeerInv /\ StreamInv /\ NoConn \notin Conn
      /\ now \in Nat /\ id \in Nat \ {0}
      /\ binding \in [Conn -> [role : Roles, session : Nat]]
  BY ConnAssumption DEF AdmissionInv, StoreInv, TypeOK
<1>2. /\ Idle /\ socket[c] \in {"OPEN", "CLOSING"} /\ binding[c].role = "NONE"
      /\ session' = r.session
      /\ binding' = (IF r.binding = "NONE" THEN binding
                     ELSE [binding EXCEPT ![c] = [role |-> r.binding, session |-> id]])
      /\ pending' = (IF r.accepted THEN r.actions ELSE Append(r.actions, CLOSE(c)))
      /\ UNCHANGED <<socket, delivered, issued, admitted>>
  BY DEF HandleCreateSession, Receiving, Bind, Finish
<1> HIDE DEF id
<1>3. CASE Live(session)
  <2>1. r.session = session /\ r.actions = << >> /\ ~r.accepted /\ r.binding = "NONE"
    BY <1>3 DEF Rejected, Result
  <2> HIDE DEF r
  <2>2. session' = session /\ binding' = binding /\ pending' = Append(<< >>, CLOSE(c))
    BY <1>2, <2>1
  <2>3. UNCHANGED <<socket, binding, delivered, issued, admitted>> /\ Idle
    BY <1>2, <2>2
  <2>4. session' = session \/ (session' = NoSession /\ ~Live(session))
    BY <2>2
  <2>5. pending' = Append(<< >>, CLOSE(c))
    BY <2>2
  <2> QED  BY <2>3, <2>4, <2>5, RejectionInv
<1>4. CASE ~Live(session) /\ m.sequence # 1
  <2>1. r.session = NoSession /\ r.actions = << >> /\ ~r.accepted /\ r.binding = "NONE"
    BY <1>1, <1>4, CreateResult
  <2> HIDE DEF r
  <2>2. session' = NoSession /\ binding' = binding /\ pending' = Append(<< >>, CLOSE(c))
    BY <1>2, <2>1
  <2> QED  BY <1>2, <1>4, <2>2, RejectionInv
<1>5. CASE ~Live(session) /\ m.sequence = 1
  <2>1. /\ r.accepted /\ r.binding = "OWNER"
        /\ r.session.id = id /\ r.session.joinCapability = NoCapability
        /\ r.session.owner.connection = c /\ r.session.owner.nextServerSequence = 2
        /\ r.session.receiver.connection = NoConn
        /\ DOMAIN r.actions = {1} /\ To(r.actions[1], c) /\ r.actions[1].sequence = 1
    BY <1>1, <1>5, CreateResult
  <2> HIDE DEF r
  <2>2. /\ session' = r.session /\ pending' = r.actions
        /\ binding' = [binding EXCEPT ![c] = [role |-> "OWNER", session |-> id]]
    BY <1>2, <2>1
  <2>3. /\ binding'[c] = [role |-> "OWNER", session |-> id] /\ binding'[c].role = "OWNER"
        /\ \A d \in Conn : d # c => binding'[d] = binding[d]
    BY <1>1, <2>2
  <2>4. \A d \in Conn : socket[d] = "OPEN" => binding[d].role = "NONE"
    BY <1>1, <1>2, <1>5, EmptySeq DEF PeerInv, IsPeer, In, Idle
  <2>5. Upto(c, 0)
    BY <1>1, <1>2 DEF StreamInv, Upto
  <2>6. JoinInv'
    BY <1>1, <1>2, <2>1, <2>2 DEF JoinInv, SingleUseJoin, NoCapability
  <2>7. PeerInv'
    BY <1>1, <1>2, <2>1, <2>2, <2>3, <2>4 DEF PeerInv, Attached, IsPeer, HasReceiver, Live
  <2>8. \A d \in Conn : d # c => ~Tells(pending', d)
    BY <2>1, <2>2 DEF Tells, To
  <2>9. Tells(pending', c) /\ OneSend(pending', c, 1) /\ \A i \in DOMAIN pending' : i = 1
    BY <2>1, <2>2 DEF Tells, To, OneSend
  <2>10. \A d \in Conn : binding'[d].role = "NONE" => delivered'[d] = {} /\ ~Tells(pending', d)
    BY <1>1, <1>2, <2>3, <2>8 DEF StreamInv
  <2>11. \A d \in Conn : binding'[d].role = "OWNER" /\ socket'[d] = "OPEN" => Plain(d)'
    <3>1. Plain(c)'
      BY <1>2, <2>5, <2>9 DEF Plain, Upto
    <3> QED  BY <1>2, <2>3, <2>4, <3>1
  <2>12. session'.owner.connection = c /\ InTurn(c)'
    BY <1>2, <2>1, <2>2, <2>5, <2>9 DEF InTurn, Upto
  <2>13. StreamInv'
    BY <2>10, <2>11, <2>12 DEF StreamInv
  <2> QED  BY <2>6, <2>7, <2>13
<1> QED  BY <1>3, <1>4, <1>5

(* A redeemed capability is the newest, and older than none admitted. *)
LEMMA RedeemedJoinInv ==
  ASSUME StoreInv, JoinInv, NEW a, a \in AdmissionType, session.joinCapability # NoCapability,
         a.capability = session.joinCapability, a.at < session.joinExpiresAt,
         session'.joinCapability = NoCapability, admitted' = Append(admitted, a), issued' = issued
  PROVE  JoinInv'
<1>1. /\ issued \in Seq(IssueType) /\ Len(issued) \in Nat /\ Len(issued) > 0
      /\ admitted \in Seq(AdmissionType) /\ Len(admitted) \in Nat
      /\ DOMAIN admitted' = 1 .. Len(admitted) + 1 /\ DOMAIN admitted = 1 .. Len(admitted)
      /\ admitted'[Len(admitted) + 1] = a
      /\ \A k \in 1 .. Len(admitted) : admitted'[k] = admitted[k]
  BY DEF StoreInv, TypeOK, JoinInv
<1>2. /\ a.capability = Len(issued) /\ a.at \in Nat
      /\ issued[Len(issued)].at \in Nat
      /\ session.joinExpiresAt \in Int
      /\ session.joinExpiresAt <= issued[Len(issued)].at + JOIN_CAPABILITY_LIFETIME
      /\ \A i \in DOMAIN admitted : admitted[i].capability < Len(issued)
  <2>1. issued[Len(issued)] \in IssueType
    BY <1>1
  <2>2. session.joinExpiresAt \in Int
    BY DEF StoreInv, TypeOK, SessionType, Deadlines, NoDeadline
  <2> QED  BY <2>1, <2>2 DEF JoinInv, AdmissionType, IssueType
<1>3. a.at < issued[a.capability].at + JOIN_CAPABILITY_LIFETIME
  BY <1>2, LifetimesAssumption
<1>4. \A i \in DOMAIN admitted' :
        /\ admitted'[i].capability >= 1 /\ admitted'[i].capability <= Len(issued)
        /\ admitted'[i].at < issued[admitted'[i].capability].at + JOIN_CAPABILITY_LIFETIME
  <2> TAKE i \in DOMAIN admitted'
  <2>1. CASE i = Len(admitted) + 1
    BY <1>1, <1>2, <1>3, <2>1
  <2>2. CASE i \in DOMAIN admitted
    BY <1>1, <2>2 DEF JoinInv, SingleUseJoin
  <2> QED  BY <1>1, <2>1, <2>2
<1>5. \A i \in DOMAIN admitted' : \A k \in 1 .. (i - 1) :
        admitted'[k].capability < admitted'[i].capability
  <2> TAKE i \in DOMAIN admitted'
  <2> TAKE k \in 1 .. (i - 1)
  <2>1. CASE i = Len(admitted) + 1
    BY <1>1, <1>2, <2>1
  <2>2. CASE i \in DOMAIN admitted
    BY <1>1, <2>2 DEF JoinInv, SingleUseJoin
  <2> QED  BY <1>1, <2>1, <2>2
<1> QED  BY <1>4, <1>5 DEF JoinInv, SingleUseJoin

(* A connection that redeems a capability becomes the receiver, and the    *)
(* owner is told after it.                                                 *)
LEMMA ReserveAdmissionInv ==
  ASSUME AdmissionInv, NEW c \in Conn, NEW m, m.sessionId \in Nat, m.credential \in Nat,
         HandleReserveJoin(c, m)
  PROVE  JoinInv' /\ PeerInv' /\ StreamInv'
<1> DEFINE id == m.sessionId
           r  == ReserveJoin(SessionNamed(id), c, m, now)
           a  == [capability |-> m.credential, connection |-> c, at |-> now]
<1>a. PICK o : o = session.owner.connection
  OBVIOUS
<1>1. /\ StoreInv /\ JoinInv /\ PeerInv /\ StreamInv /\ NoConn \notin Conn
      /\ now \in Nat
      /\ binding \in [Conn -> [role : Roles, session : Nat]]
  BY ConnAssumption DEF AdmissionInv, StoreInv, TypeOK
<1>2. /\ Idle /\ socket[c] \in {"OPEN", "CLOSING"} /\ binding[c].role = "NONE"
      /\ session' = Stored(id, r)
      /\ binding' = (IF r.binding = "NONE" THEN binding
                     ELSE [binding EXCEPT ![c] = [role |-> r.binding, session |-> id]])
      /\ pending' = (IF r.accepted THEN r.actions ELSE Append(r.actions, CLOSE(c)))
      /\ admitted' = (IF r.accepted THEN Append(admitted, a) ELSE admitted)
      /\ UNCHANGED <<socket, delivered, issued>>
  BY DEF HandleReserveJoin, Receiving, Bind, Finish
<1>3. Inv(SessionNamed(id)) /\ a \in AdmissionType
  BY <1>1, NamedInv DEF AdmissionType
<1>4. CASE ~AdmitsReservation(SessionNamed(id), m, now)
  <2>1. r.session = SessionNamed(id) /\ r.actions = << >> /\ ~r.accepted /\ r.binding = "NONE"
    BY <1>1, <1>3, <1>4, ReserveResult
  <2>2. Stored(id, r) = session
    BY <2>1 DEF Stored, SessionNamed
  <2> HIDE DEF r, a
  <2>3. session' = session /\ binding' = binding /\ pending' = Append(<< >>, CLOSE(c)) /\ admitted' = admitted
    BY <1>2, <2>1, <2>2
  <2>4. UNCHANGED <<socket, binding, delivered, issued, admitted>> /\ Idle
    BY <1>2, <2>3
  <2>5. session' = session \/ (session' = NoSession /\ ~Live(session))
    BY <2>3
  <2>6. pending' = Append(<< >>, CLOSE(c))
    BY <2>3
  <2> QED  BY <2>4, <2>5, <2>6, RejectionInv
<1>5. CASE AdmitsReservation(SessionNamed(id), m, now)
  <2>1. Holds(id)
    BY <1>5, NoSessionInv DEF AdmitsReservation, SessionNamed
  <2>2. /\ SessionNamed(id) = session /\ Stored(id, r) = r.session /\ id = session.id
        /\ Distinct(session) /\ Live(session)
    BY <1>1, <2>1, Reach DEF Holds
  <2>3. /\ r.accepted /\ r.binding = "RECEIVER"
        /\ r.session.id = session.id /\ r.session.joinCapability = NoCapability
        /\ r.session.owner.connection = o
        /\ r.session.owner.nextServerSequence = session.owner.nextServerSequence + 1
        /\ r.session.receiver.connection = c
        /\ DOMAIN r.actions = {1, 2}
        /\ To(r.actions[1], c)
        /\ To(r.actions[2], o) /\ r.actions[2].sequence = session.owner.nextServerSequence
        /\ r.actions[2].type = "RECEIVER_RESERVED"
    BY <1>1, <1>a, <1>3, <1>5, <2>2, ReserveResult
  <2>4. /\ session.joinCapability # NoCapability /\ m.credential = session.joinCapability
        /\ now < session.joinExpiresAt /\ ~HasReceiver(session)
    BY <1>5, <2>2 DEF AdmitsReservation
  <2> HIDE DEF r, id
  <2>5. /\ session' = r.session /\ pending' = r.actions /\ admitted' = Append(admitted, a)
        /\ binding' = [binding EXCEPT ![c] = [role |-> "RECEIVER", session |-> session.id]]
    BY <1>2, <2>2, <2>3
  <2>6. JoinInv'
    <3>1. a.capability = session.joinCapability /\ a.at = now
      BY <2>4
    <3> HIDE DEF a
    <3> QED  BY <1>1, <1>2, <1>3, <2>3, <2>4, <2>5, <3>1, RedeemedJoinInv
  <2> HIDE DEF a
  <2>7. /\ o \in Conn /\ o # c
        /\ binding[o] = [role |-> "OWNER", session |-> session.id] /\ binding[o].role = "OWNER"
        /\ socket[o] \in {"OPEN", "CLOSING"}
    <3>1. /\ o \in Conn /\ binding[o] = [role |-> "OWNER", session |-> session.id]
          /\ socket[o] \in {"OPEN", "CLOSING"}
      BY <1>1, <1>a, <2>2, PeersKnown DEF PeerInv, Attached, Distinct
    <3>2. binding[o].role = "OWNER"
      BY <3>1
    <3> QED  BY <1>2, <3>1, <3>2
  <2>8. /\ binding'[c] = [role |-> "RECEIVER", session |-> session.id] /\ binding'[c].role = "RECEIVER"
        /\ \A d \in Conn : d # c => binding'[d] = binding[d]
    BY <1>1, <2>5
  <2>9. \A d \in Conn : socket[d] = "OPEN" /\ binding[d].role # "NONE" => d = o
    BY <1>1, <1>a, <1>2, <2>4, EmptySeq DEF PeerInv, IsPeer, In, Idle, HasReceiver
  <2>10. PeerInv'
    <3>1. /\ session'.id = session.id /\ session'.owner.connection = o
          /\ session'.receiver.connection = c /\ socket' = socket
      BY <1>2, <2>3, <2>5
    <3>2. Attached(session.owner.connection, "OWNER")' /\ Attached(session.receiver.connection, "RECEIVER")'
      BY <1>2, <2>7, <2>8, <3>1 DEF Attached
    <3>3. \A d \in Conn : socket'[d] = "OPEN" /\ binding'[d].role # "NONE" => IsPeer(session, d)'
      BY <2>2, <2>8, <2>9, <3>1 DEF IsPeer, Live
    <3>4. \A d \in Conn : binding'[d].role = "NONE" => binding'[d] = Unbound
      BY <1>1, <2>8 DEF PeerInv
    <3>5. \A d \in Conn : socket'[d] = "UNUSED" => binding'[d].role = "NONE"
      BY <1>1, <1>2, <2>8, <3>1 DEF PeerInv
    <3> QED  BY <3>2, <3>3, <3>4, <3>5 DEF PeerInv
  <2>11. session.owner.nextServerSequence \in Nat
    BY <1>1 DEF StoreInv, TypeOK, SessionType, PeerType
  <2>12. socket[o] = "OPEN" => Upto(o, session.owner.nextServerSequence - 1)
    <3>1. ~Overtaken(o) /\ ~Tells(pending, o)
      BY <1>2, EmptySeq DEF Idle, Overtaken, Reserving, Tells
    <3> QED  BY <1>1, <1>a, <2>2, <3>1 DEF StreamInv, InTurn
  <2>13. /\ DOMAIN pending' = {1, 2} /\ To(pending'[1], c) /\ To(pending'[2], o)
         /\ pending'[2].sequence = session.owner.nextServerSequence
         /\ Reserving(o)'
    BY <2>3, <2>5 DEF Reserving
  <2>14. \A d \in Conn : binding'[d].role = "NONE" => delivered'[d] = {} /\ ~Tells(pending', d)
    <3> SUFFICES ASSUME NEW d \in Conn, binding'[d].role = "NONE"
                 PROVE  delivered'[d] = {} /\ ~Tells(pending', d)
      OBVIOUS
    <3>1. d # c /\ d # o /\ binding[d].role = "NONE"
      BY <2>7, <2>8
    <3>2. ~Tells(pending', d)
      BY <2>13, <3>1 DEF Tells, To
    <3> QED  BY <1>1, <1>2, <3>1, <3>2 DEF StreamInv
  <2>15. \A d \in Conn : binding'[d].role = "OWNER" /\ socket'[d] = "OPEN" => Plain(d)'
    <3> SUFFICES ASSUME NEW d \in Conn, binding'[d].role = "OWNER", socket'[d] = "OPEN"
                 PROVE  Plain(d)'
      OBVIOUS
    <3>1. d # c /\ d = o /\ socket[o] = "OPEN" /\ delivered' = delivered
      BY <1>2, <2>8, <2>9
    <3>2. OneSend(pending', d, session.owner.nextServerSequence)
      BY <2>7, <2>13, <3>1 DEF OneSend, To
    <3>3. /\ session.owner.nextServerSequence - 1 \in Nat
          /\ (session.owner.nextServerSequence - 1) + 1 = session.owner.nextServerSequence
      BY <2>11, <2>12, <3>1 DEF Upto
    <3> QED  BY <2>12, <3>1, <3>2, <3>3 DEF Plain, Upto
  <2>16. session'.owner.connection = o /\ Tells(pending', o) /\ delivered' = delivered /\ socket' = socket
         /\ session'.owner.nextServerSequence = session.owner.nextServerSequence + 1
    BY <1>2, <2>3, <2>5, <2>13 DEF Tells
  <2>17. socket'[o] = "OPEN" => InTurn(o)'
    <3>1. session'.owner.nextServerSequence - 2 = session.owner.nextServerSequence - 1
      BY <2>11, <2>16
    <3> QED  BY <2>12, <2>13, <2>16, <3>1 DEF InTurn, Upto
  <2>18. StreamInv'
    BY <2>14, <2>15, <2>16, <2>17 DEF StreamInv
  <2> QED  BY <2>6, <2>10, <2>18
<1> QED  BY <1>4, <1>5

(* AdmissionInv holds initially. *)
LEMMA InitAdmissionInv == Init => AdmissionInv
<1> SUFFICES ASSUME Init PROVE AdmissionInv
  OBVIOUS
<1>1. StoreInv
  BY InitStoreInv
<1>2. ~Live(session) /\ session.joinCapability = NoCapability
  BY NoSessionInv DEF Init, NoSession
<1>3. JoinInv
  BY <1>2, EmptySeq DEF Init, JoinInv, SingleUseJoin
<1>4. /\ \A c \in Conn : binding[c] = Unbound /\ socket[c] = "UNUSED" /\ delivered[c] = {}
      /\ Unbound.role = "NONE"
      /\ \A a : ~Tells(pending, a)
  BY EmptySeq DEF Init, Unbound, Tells
<1>5. PeerInv
  BY <1>2, <1>4 DEF PeerInv
<1>6. StreamInv
  BY <1>2, <1>4 DEF StreamInv
<1> QED  BY <1>1, <1>3, <1>5, <1>6 DEF AdmissionInv

(* Every step keeps AdmissionInv. *)
LEMMA NextAdmissionInv == AdmissionInv /\ [Next]_vars => AdmissionInv'
<1> SUFFICES ASSUME AdmissionInv, [Next]_vars PROVE AdmissionInv'
  OBVIOUS
<1>1. StoreInv'
  BY NextStoreInv DEF AdmissionInv
<1>2. SUFFICES JoinInv' /\ PeerInv' /\ StreamInv'
  BY <1>1 DEF AdmissionInv
<1>3. CASE UNCHANGED vars
  BY <1>3 DEF vars, AdmissionInv, JoinInv, SingleUseJoin, PeerInv, Attached, IsPeer, StreamInv,
                Plain, Overtaken, InTurn, Reserving, Upto
<1>4. ASSUME NEW c \in Conn, Handle(c) PROVE JoinInv' /\ PeerInv' /\ StreamInv'
  <2>1. ASSUME NEW m \in FirstMessages,
               HandleCreateSession(c, m) \/ HandleReserveJoin(c, m) \/ HandleUnbound(c, m)
        PROVE  JoinInv' /\ PeerInv' /\ StreamInv'
    <3>1. m.sessionId \in Nat /\ m.credential \in Nat
      BY FirstMessageTyped DEF AdmissionInv
    <3>2. CASE HandleUnbound(c, m)
      <4>1. ~Rejected(session).accepted /\ Rejected(session).actions = << >>
        BY DEF Rejected, Result
      <4>2. /\ Idle /\ session' = session /\ pending' = Append(<< >>, CLOSE(c))
            /\ UNCHANGED <<socket, binding, delivered, issued, admitted>>
        BY <3>2, <4>1 DEF HandleUnbound, Receiving, Finish
      <4> QED  BY <4>2, RejectionInv
    <3> QED  BY <2>1, <3>1, <3>2, CreateAdmissionInv, ReserveAdmissionInv
  <2>2. CASE \E m \in BoundMessages(c) : HandleOwnerMessage(c, m) \/ HandleReceiverMessage(c, m)
    BY <2>2, BoundAdmissionInv
  <2> QED  BY <1>4, <2>1, <2>2 DEF Handle
<1>5. ASSUME NEW c \in Conn,
             Connect(c) \/ FailConnection(c) \/ SocketClosed(c) \/ FirstMessageTimeout(c)
      PROVE  JoinInv' /\ PeerInv' /\ StreamInv'
  BY <1>5, EndAdmissionInv, QuietAdmissionInv
<1>6. CASE Tick
  BY <1>6, TickAdmissionInv
<1>7. CASE AdvanceTime
  BY <1>7, QuietAdmissionInv DEF AdmissionInv, StoreInv
<1>8. CASE Dispatch
  BY <1>8, PlainDispatchInv, BackpressureInv DEF Dispatch
<1> QED  BY <1>3, <1>4, <1>5, <1>6, <1>7, <1>8 DEF Next
----------------------------------------------------------------------------
(* A join capability admits one receiver, before it expires and while it   *)
(* is the newest, and between callbacks the open sockets that are bound    *)
(* are the peers the store knows: no revoked or replaced peer stays, and   *)
(* none is forgotten.                                                      *)
THEOREM AdmissionStaysSound == Spec => []AdmissionSound
<1>1. AdmissionInv => AdmissionSound
  <2> SUFFICES ASSUME AdmissionInv PROVE AdmissionSound
    OBVIOUS
  <2>1. SingleUseJoin /\ PeerInv /\ NoConn \notin Conn /\ Inv(session)
    BY ConnAssumption DEF AdmissionInv, JoinInv, StoreInv
  <2>2. PeersMatchSockets
    <3> SUFFICES ASSUME Idle PROVE PeersMatchSockets
      BY DEF PeersMatchSockets
    <3>1. ASSUME NEW c \in Conn, socket[c] = "OPEN", binding[c] # Unbound
          PROVE  Live(session) /\ session.id = binding[c].session /\ PeerOf(c) # NoPeer
      <4>1. IsPeer(session, c)
        BY <2>1, <3>1, EmptySeq DEF PeerInv, In, Idle
      <4>2. session.id = binding[c].session
        BY <2>1, <3>1, <4>1 DEF PeerInv, Attached, IsPeer, HasReceiver
      <4>3. NoPeer.connection = NoConn
        BY DEF NoPeer
      <4>4. PeerOf(c).connection = c
        BY <4>1 DEF PeerOf, IsPeer
      <4> QED  BY <2>1, <4>1, <4>2, <4>3, <4>4 DEF IsPeer
    <3>2. Live(session) =>
            /\ socket[session.owner.connection] # "CLOSED"
            /\ HasReceiver(session) => socket[session.receiver.connection] # "CLOSED"
      BY <2>1 DEF PeerInv, Attached
    <3> QED  BY <3>1, <3>2 DEF PeersMatchSockets
  <2> QED  BY <2>1, <2>2 DEF AdmissionSound
<1> QED  BY <1>1, InitAdmissionInv, NextAdmissionInv, PTL DEF Spec

(* Every owner is sent all the numbers the server takes for it, each once  *)
(* and in order, although a full buffer makes dispatch start another       *)
(* cleanup in its middle; the announcement of a receiver that cannot take  *)
(* its own first message is the one that may be overtaken.                 *)
THEOREM OwnersMissNothing == Spec => OwnerStreamComplete
<1>1. AdmissionInv /\ [Next]_vars =>
        [\A c \in Conn : binding[c].role = "OWNER" /\ DispatchSend /\ Head1.connection = c =>
           /\ Head1.sequence \notin delivered[c]
           /\ \A k \in 1 .. (Head1.sequence - 1) : k \in delivered[c] \/ Announces(c, k)]_vars
  <2> SUFFICES ASSUME AdmissionInv, NEW c \in Conn,
                      binding[c].role = "OWNER", DispatchSend, Head1.connection = c
               PROVE  /\ Head1.sequence \notin delivered[c]
                      /\ \A k \in 1 .. (Head1.sequence - 1) : k \in delivered[c] \/ Announces(c, k)
    OBVIOUS
  <2>1. /\ StoreInv /\ StreamInv /\ pending # << >> /\ socket[c] = "OPEN" /\ To(Head1, c)
    BY DEF AdmissionInv, DispatchSend, Dispatchable, To
  <2>2. Head1 = pending[1]
    BY <2>1, TailParts
  <2>3. CASE Plain(c)
    <3>1. PICK n \in Nat : Upto(c, n) /\ OneSend(pending, c, n + 1)
      BY <2>3 DEF Plain
    <3>2. Head1.sequence = n + 1
      BY <2>1, <3>1, TailParts
    <3> QED  BY <3>1, <3>2 DEF Upto
  <2>4. CASE Overtaken(c)
    <3>1. PICK n \in Nat :
            \/ /\ delivered[c] = 1 .. n /\ Reserving(c) /\ pending[2].sequence = n + 1
               /\ pending[1].sequence = n + 2
            \/ delivered[c] = (1 .. n) \cup {n + 2} /\ pending[1].sequence = n + 1
      BY <2>4 DEF Overtaken
    <3>2. CASE /\ delivered[c] = 1 .. n /\ Reserving(c) /\ pending[2].sequence = n + 1
               /\ pending[1].sequence = n + 2
      <4>1. DOMAIN pending = 1 .. Len(pending) /\ Len(pending) \in Nat
        BY <2>1 DEF StoreInv, TypeOK
      <4>2. 2 \in 2 .. Len(pending)
        BY <3>2, <4>1 DEF Reserving
      <4>3. Announces(c, n + 1)
        BY <3>2, <4>2 DEF Announces, Reserving, To
      <4> QED  BY <2>2, <3>2, <4>3
    <3>3. CASE delivered[c] = (1 .. n) \cup {n + 2} /\ pending[1].sequence = n + 1
      BY <2>2, <3>3
    <3> QED  BY <3>1, <3>2, <3>3
  <2> QED  BY <2>1, <2>3, <2>4 DEF StreamInv
<1> QED  BY <1>1, InitAdmissionInv, NextAdmissionInv, PTL DEF Spec, OwnerStreamComplete

(* Past its absolute deadline a session only ends or loses its receiver:   *)
(* no handler accepts a message before it has looked at that deadline, and *)
(* none moves it.                                                          *)
Inert(s, n, t) ==
  n.id = s.id =>
    /\ n.absoluteDeadline = s.absoluteDeadline
    /\ t >= s.absoluteDeadline =>
         /\ n.owner.expectedClientSequence = s.owner.expectedClientSequence
         /\ n.receiver \in {s.receiver, NoPeer}

(* A tidy result is inert when the deadline ends the session. *)
LEMMA TidyInert ==
  ASSUME NEW s, Live(s), NEW r, NEW x, Tidy(s, r, x), NEW t,
         t >= s.absoluteDeadline => r.session = NoSession
  PROVE  Inert(s, r.session, t)
BY NoSessionInv DEF Inert, Tidy, Follows, Live

(* The deadline comes before every message and every tick. *)
LEMMA ExpiryFirst ==
  ASSUME NEW s, Live(s), NEW c, NEW m, NEW fresh, NEW t, t >= s.absoluteDeadline
  PROVE  /\ HandleOwner(s, c, m, fresh, t).session = NoSession
         /\ HandleReceiver(s, c, m, t).session = NoSession
         /\ TickResult(s, t).session = NoSession
<1>1. DeadlineHit(s, t) /\ DeadlineResult(s, t) = Expire(s) /\ Expire(s).session = NoSession
  BY DEF DeadlineHit, DeadlineResult, AbsoluteOver, Expire, Result
<1> QED  BY <1>1 DEF HandleOwner, HandleReceiver, TickResult

(* What the end of a connection does to the session is inert. *)
LEMMA DisconnectInert ==
  ASSUME NEW s, Distinct(s), NEW role, NEW c, NEW t \in Nat
  PROVE  Inert(s, Disconnect(s, role, c, t).session, t)
<1>1. s \in SessionType /\ Live(s)
  BY DEF Distinct, Inv
<1>2. Inert(s, Revoke(s, FALSE, TRUE).session, t)
  BY <1>1, NoSessionInv DEF Inert, Revoke, Result, Live
<1>3. Inert(s, DetachReceiver(s, t, FALSE, TRUE).session, t)
  <2> DEFINE d == Detached(s, t)
             n == SentToOwner(d)
  <2>1. d \in SessionType
    BY <1>1, DetachedInv DEF Distinct, Inv
  <2>2. d.absoluteDeadline = s.absoluteDeadline /\ d.owner = s.owner /\ d.receiver = NoPeer
    BY <1>1 DEF Detached, SessionType
  <2> HIDE DEF d
  <2>3. /\ n.absoluteDeadline = d.absoluteDeadline /\ n.receiver = d.receiver
        /\ n.owner = Advance(d.owner)
    BY <2>1 DEF SentToOwner, SessionType
  <2>4. Advance(s.owner).expectedClientSequence = s.owner.expectedClientSequence
    BY <1>1 DEF Advance, SessionType, PeerType
  <2>5. DetachReceiver(s, t, FALSE, TRUE).session = n
    BY DEF DetachReceiver, Result, d
  <2> HIDE DEF n
  <2> QED  BY <2>2, <2>3, <2>4, <2>5 DEF Inert
<1>4. Inert(s, Result(s, TRUE, << >>).session, t)
  BY DEF Inert, Result
<1> QED  BY <1>2, <1>3, <1>4 DEF Disconnect

(* Every step is inert. *)
LEMMA NextInert ==
  ASSUME AdmissionInv, [Next]_vars, Live(session)
  PROVE  Inert(session, session', now)
<1>1. /\ StoreInv /\ PeerInv /\ now \in Nat /\ Distinct(session) /\ session.absoluteDeadline \in Nat
  BY PeersDiffer DEF AdmissionInv, StoreInv, TypeOK, Inv, SessionType
<1>2. ASSUME session' = session PROVE Inert(session, session', now)
  BY <1>2 DEF Inert
<1>3. ASSUME NEW c \in Conn, session' = Stored(binding[c].session, DisconnectResult(c))
      PROVE  Inert(session, session', now)
  <2>1. CASE Holds(binding[c].session)
    <3>1. session' = Disconnect(session, binding[c].role, c, now).session
      BY <1>1, <1>3, <2>1, Reach DEF DisconnectResult
    <3> QED  BY <1>1, <3>1, DisconnectInert
  <2>2. CASE ~Holds(binding[c].session)
    BY <1>1, <1>2, <1>3, <2>2, Reach
  <2> QED  BY <2>1, <2>2
<1>4. ASSUME Tick PROVE Inert(session, session', now)
  <2>1. session' = TickResult(session, now).session
    BY <1>4 DEF Tick
  <2>2. Tidy(session, TickResult(session, now), NoConn)
    BY <1>1, TickOrderly DEF Orderly
  <2>3. now >= session.absoluteDeadline => TickResult(session, now).session = NoSession
    BY ExpiryFirst
  <2> QED  BY <2>1, <2>2, <2>3, TidyInert
<1>5. ASSUME NEW c \in Conn, NEW m, HandleOwnerMessage(c, m) PROVE Inert(session, session', now)
  <2> DEFINE id == binding[c].session
             r  == HandleOwner(session, c, m, Len(issued) + 1, now)
  <2>1. CASE Holds(id)
    <3>1. session' = r.session
      BY <1>1, <1>5, <2>1, Reach DEF HandleOwnerMessage
    <3>2. Len(issued) + 1 \in Nat \ {0}
      BY <1>1 DEF StoreInv, TypeOK
    <3>3. Tidy(session, r, NoConn)
      BY <1>1, <3>2, HandleOwnerOrderly DEF OwnerOrderly
    <3>4. now >= session.absoluteDeadline => r.session = NoSession
      BY ExpiryFirst
    <3> HIDE DEF r
    <3> QED  BY <3>1, <3>3, <3>4, TidyInert
  <2>2. CASE ~Holds(id)
    <3>1. session' = session
      BY <1>1, <1>5, <2>2, Reach DEF HandleOwnerMessage
    <3> QED  BY <1>2, <3>1
  <2> QED  BY <2>1, <2>2
<1>6. ASSUME NEW c \in Conn, NEW m, HandleReceiverMessage(c, m) PROVE Inert(session, session', now)
  <2> DEFINE id == binding[c].session
             r  == HandleReceiver(session, c, m, now)
  <2>1. CASE Holds(id)
    <3>1. session' = r.session
      BY <1>1, <1>6, <2>1, Reach DEF HandleReceiverMessage
    <3>2. Tidy(session, r, NoConn)
      BY <1>1, HandleReceiverOrderly DEF Orderly
    <3>3. now >= session.absoluteDeadline => r.session = NoSession
      BY ExpiryFirst
    <3> HIDE DEF r
    <3> QED  BY <3>1, <3>2, <3>3, TidyInert
  <2>2. CASE ~Holds(id)
    <3>1. session' = session
      BY <1>1, <1>6, <2>2, Reach DEF HandleReceiverMessage
    <3> QED  BY <1>2, <3>1
  <2> QED  BY <2>1, <2>2
<1>7. ASSUME NEW c \in Conn, NEW m, HandleReserveJoin(c, m) PROVE Inert(session, session', now)
  <2> DEFINE s == SessionNamed(m.sessionId)
             r == ReserveJoin(s, c, m, now)
  <2>1. session' = Stored(m.sessionId, r)
    BY <1>7 DEF HandleReserveJoin
  <2>2. CASE Holds(m.sessionId) /\ AdmitsReservation(s, m, now)
    <3>1. s = session /\ session' = r.session /\ now < session.absoluteDeadline
      BY <1>1, <2>1, <2>2, Reach DEF AdmitsReservation
    <3>2. r.session = SentToOwner(SentToReceiver(Reserved(session, c, now)))
      BY <2>2, <3>1 DEF ReserveJoin, Bound, Result
    <3>3. Inv(Reserved(session, c, now))
          /\ Reserved(session, c, now).absoluteDeadline = session.absoluteDeadline
      <4>1. session.phase = "JOIN_OPEN"
        BY <2>2, <3>1 DEF AdmitsReservation
      <4>2. Inv(Reserved(session, c, now))
        BY <1>1, <4>1, ReservedInv DEF Distinct
      <4>3. Reserved(session, c, now).absoluteDeadline = session.absoluteDeadline
        BY <1>1 DEF Reserved, StoreInv, TypeOK, SessionType
      <4> QED  BY <4>2, <4>3
    <3>4. r.session.absoluteDeadline = session.absoluteDeadline
      BY <3>2, <3>3 DEF SentToOwner, SentToReceiver, Inv, SessionType
    <3> QED  BY <1>1, <3>1, <3>4 DEF Inert
  <2>3. CASE ~(Holds(m.sessionId) /\ AdmitsReservation(s, m, now))
    <3>1. Holds(m.sessionId) => r.session = session
      BY <1>1, <2>3, Reach DEF ReserveJoin, Rejected, Result
    <3>2. session' = session
      BY <1>1, <2>1, <3>1, Reach
    <3> QED  BY <1>2, <3>2
  <2> QED  BY <2>2, <2>3
<1>8. ASSUME NEW c \in Conn, NEW m, HandleCreateSession(c, m) PROVE Inert(session, session', now)
  BY <1>2, <1>8 DEF HandleCreateSession, Rejected, Result
<1>9. CASE UNCHANGED vars
  BY <1>2, <1>9 DEF vars
<1>10. ASSUME NEW c \in Conn, Handle(c) PROVE Inert(session, session', now)
  BY <1>2, <1>5, <1>6, <1>7, <1>8, <1>10 DEF Handle, HandleUnbound
<1>11. ASSUME NEW c \in Conn,
              Connect(c) \/ FailConnection(c) \/ SocketClosed(c) \/ FirstMessageTimeout(c)
       PROVE  Inert(session, session', now)
  BY <1>2, <1>3, <1>11 DEF Connect, FailConnection, SocketClosed, FirstMessageTimeout
<1>12. CASE Dispatch
  <2>1. CASE DispatchBackpressure
    <3>1. Head1.connection \in Conn
      BY <1>1, <2>1, TailParts DEF ActionType, DispatchBackpressure, Dispatchable
    <3> QED  BY <1>3, <2>1, <3>1 DEF DispatchBackpressure
  <2>2. CASE DispatchSkip \/ DispatchClose \/ DispatchSend
    BY <1>2, <2>2 DEF DispatchSkip, DispatchClose, DispatchSend
  <2> QED  BY <1>12, <2>1, <2>2 DEF Dispatch
<1>13. CASE AdvanceTime
  BY <1>2, <1>13 DEF AdvanceTime
<1> QED  BY <1>4, <1>9, <1>10, <1>11, <1>12, <1>13 DEF Next

(* Once past its absolute deadline a session accepts nothing and admits    *)
(* nobody, however late the tick that ends it, and the deadline is fixed.  *)
THEOREM ExpiryIsFinal == Spec => ExpiredSessionIsInert
<1>1. AdmissionInv /\ [Next]_vars =>
        [Live(session) /\ session'.id = session.id =>
           /\ session'.absoluteDeadline = session.absoluteDeadline
           /\ now >= session.absoluteDeadline =>
                /\ session'.owner.expectedClientSequence = session.owner.expectedClientSequence
                /\ session'.receiver \in {session.receiver, NoPeer}]_vars
  BY NextInert DEF Inert
<1> QED  BY <1>1, InitAdmissionInv, NextAdmissionInv, PTL DEF Spec, ExpiredSessionIsInert

(* What a connection bound to another session does touches only itself. *)
LEMMA StrangerTouchesNothing ==
  ASSUME NEW c \in Conn, Idle, Live(session), binding[c].session # session.id,
         \/ FailConnection(c) \/ SocketClosed(c)
         \/ \E m \in BoundMessages(c) : HandleOwnerMessage(c, m) \/ HandleReceiverMessage(c, m)
  PROVE  session' = session /\ \A i \in DOMAIN pending' : pending'[i].connection = c
<1> DEFINE id == binding[c].session
<1>1. ~Holds(id) /\ SessionNamed(id) = NoSession /\ \A r : Stored(id, r) = session
  BY DEF Holds, SessionNamed, Stored
<1>2. DisconnectResult(c).actions = << >>
  BY <1>1, NothingHeld DEF DisconnectResult, Result
<1>3. \A m, fresh : /\ ~HandleOwner(SessionNamed(id), c, m, fresh, now).accepted
                    /\ HandleOwner(SessionNamed(id), c, m, fresh, now).actions = << >>
                    /\ ~HandleReceiver(SessionNamed(id), c, m, now).accepted
                    /\ HandleReceiver(SessionNamed(id), c, m, now).actions = << >>
  BY <1>1, NothingHeld DEF Rejected, Result
<1> HIDE DEF id
<1>4. session' = session /\ pending' \in {<< >>, Append(<< >>, CLOSE(c))}
  BY <1>1, <1>2, <1>3
     DEF FailConnection, SocketClosed, HandleOwnerMessage, HandleReceiverMessage, Finish, id
<1>5. CLOSE(c).connection = c
  BY DEF CLOSE
<1>6. \A i \in DOMAIN Append(<< >>, CLOSE(c)) : Append(<< >>, CLOSE(c))[i] = CLOSE(c)
  OBVIOUS
<1> QED  BY <1>4, <1>5, <1>6, EmptySeq

(* A connection left over from an ended session cannot touch the session   *)
(* that replaced it, whatever it sends and however it ends.                *)
THEOREM OldConnectionsAreHarmless == Spec => SessionsAreIsolated
<1>1. [Next]_vars =>
        [\A c \in Conn :
           /\ Idle /\ Live(session) /\ binding[c] # Unbound /\ binding[c].session # session.id
           /\ session' # session \/ \E i \in DOMAIN pending' : pending'[i].connection # c
           => ~ \/ FailConnection(c) \/ SocketClosed(c)
                \/ \E m \in BoundMessages(c) : HandleOwnerMessage(c, m) \/ HandleReceiverMessage(c, m)]_vars
  BY StrangerTouchesNothing
<1> QED  BY <1>1, PTL DEF Spec, SessionsAreIsolated
====================================================================================
