------------------------------ MODULE SignalingServer ------------------------------
(***************************************************************************)
(* signaling/v1-server.ts around the session store: WebSocket connections, *)
(* their bindings, and the dispatch of the store's actions.                *)
(*                                                                         *)
(* Node runs one callback at a time, so a callback is one action here up   *)
(* to the actions it dispatches.  dispatch is recursive: a destination     *)
(* whose buffer is full is disconnected and the cleanup is dispatched      *)
(* before the rest of the list.  `pending' is that recursion's stack of    *)
(* actions still to perform, and no callback starts until it is empty.     *)
(*                                                                         *)
(* A socket that the server closed is CLOSING until the closing handshake  *)
(* ends, and ws still delivers the messages the peer had sent by then.     *)
(* The store holds one session at a time (maximumSessions = 1): sessions   *)
(* share nothing but that limit.                                           *)
(***************************************************************************)
EXTENDS SignalingStore, FiniteSets

CONSTANTS Conn,         \* the connections ever accepted
          MaxTime,      \* bound: clock
          MaxSequence,  \* bound: client messages per connection
          MaxSends,     \* bound: messages to the owner after which none is handled
          MaxSessions   \* bound: sessions ever created

ASSUME ConnAssumption == NoConn \notin Conn

VARIABLES
  now,        \* performance.now(), in units of the lifetimes
  session,    \* the store's session, or NoSession
  created,    \* session identifiers handed out so far
  socket,     \* readyState of each connection
  binding,    \* ConnectionState.binding
  pending,    \* actions the running callback has still to dispatch
  delivered,  \* history: sequence numbers of the messages handed to each socket
  issued,     \* history: join capabilities so far, each with its issue time and session
  admitted    \* history: receivers each capability admitted

vars == <<now, session, created, socket, binding, pending, delivered, issued, admitted>>

Unbound == [role |-> "NONE", session |-> 0]

Init ==
  /\ now = 0 /\ session = NoSession /\ created = 0
  /\ socket = [c \in Conn |-> "UNUSED"]
  /\ binding = [c \in Conn |-> Unbound]
  /\ pending = <<>>
  /\ delivered = [c \in Conn |-> {}]
  /\ issued = <<>> /\ admitted = <<>>
----------------------------------------------------------------------------
Idle == pending = <<>>

(* sessions.get(id)                                                        *)

(* Mutant: a binding reaches whatever session the store holds.             *)
HoldsAny(id) == Live(session)

Holds(id) == id # 0 /\ session.id = id
SessionNamed(id) == IF Holds(id) THEN session ELSE NoSession

(* What a store call on session `id' leaves in the store.                  *)
Stored(id, r) == IF Holds(id) THEN r.session ELSE session

DisconnectResult(c) == Disconnect(SessionNamed(binding[c].session), binding[c].role, c, now)
----------------------------------------------------------------------------
(* dispatch, one action of the list at a time.                             *)
Head1 == Head(pending)
Dispatchable == pending # <<>> /\ socket[Head1.connection] = "OPEN"

DispatchSkip ==
  /\ pending # <<>> /\ socket[Head1.connection] # "OPEN"
  /\ pending' = Tail(pending)
  /\ UNCHANGED <<now, session, created, socket, binding, delivered, issued, admitted>>

DispatchClose ==
  /\ Dispatchable /\ Head1.kind = "CLOSE"
  /\ socket' = [socket EXCEPT ![Head1.connection] = "CLOSING"]
  /\ pending' = Tail(pending)
  /\ UNCHANGED <<now, session, created, binding, delivered, issued, admitted>>

DispatchSend ==
  /\ Dispatchable /\ Head1.kind = "SEND"
  /\ delivered' = [delivered EXCEPT ![Head1.connection] = @ \cup {Head1.sequence}]
  /\ pending' = Tail(pending)
  /\ UNCHANGED <<now, session, created, socket, binding, issued, admitted>>

(* bufferedAmount is over the limit.  It counts what ws queues by itself,  *)
(* pongs included, so that may be so before the first message to a peer.   *)
DispatchBackpressure ==
  /\ Dispatchable /\ Head1.kind = "SEND"
  /\ LET c == Head1.connection
         r == DisconnectResult(c)
     IN /\ session' = Stored(binding[c].session, r)
        /\ socket' = [socket EXCEPT ![c] = "CLOSING"]
        /\ pending' = r.actions \o Tail(pending)
  /\ UNCHANGED <<now, created, binding, delivered, issued, admitted>>

Dispatch == DispatchSkip \/ DispatchClose \/ DispatchSend \/ DispatchBackpressure
----------------------------------------------------------------------------
(* upgrade and connection                                                  *)
Connect(c) ==
  /\ Idle /\ socket[c] = "UNUSED"
  /\ socket' = [socket EXCEPT ![c] = "OPEN"]
  /\ UNCHANGED <<now, session, created, binding, pending, delivered, issued, admitted>>

(* failConnection: a binary, oversized, too frequent or malformed message, *)
(* or a socket error.                                                      *)
FailConnection(c) ==
  /\ Idle /\ socket[c] \in {"OPEN", "CLOSING"}
  /\ LET r == DisconnectResult(c) IN
       /\ session' = Stored(binding[c].session, r)
       /\ pending' = Append(r.actions, CLOSE(c))
  /\ UNCHANGED <<now, created, socket, binding, delivered, issued, admitted>>

(* The close event, from either end.                                       *)
SocketClosed(c) ==
  /\ Idle /\ socket[c] \in {"OPEN", "CLOSING"}
  /\ socket' = [socket EXCEPT ![c] = "CLOSED"]
  /\ LET r == DisconnectResult(c) IN
       /\ session' = Stored(binding[c].session, r)
       /\ pending' = r.actions
  /\ UNCHANGED <<now, created, binding, delivered, issued, admitted>>

(* The timer is cleared by the first message, and a first message either   *)
(* binds the connection or closes it.                                      *)
FirstMessageTimeout(c) ==
  /\ Idle /\ socket[c] = "OPEN" /\ binding[c] = Unbound
  /\ socket' = [socket EXCEPT ![c] = "CLOSING"]
  /\ UNCHANGED <<now, session, created, binding, pending, delivered, issued, admitted>>

Tick ==
  /\ Idle /\ Live(session)
  /\ LET r == TickResult(session, now) IN
       /\ session' = r.session /\ pending' = r.actions
  /\ UNCHANGED <<now, created, socket, binding, delivered, issued, admitted>>

AdvanceTime ==
  /\ Idle /\ now < MaxTime
  /\ now' = now + 1
  /\ UNCHANGED <<session, created, socket, binding, pending, delivered, issued, admitted>>
----------------------------------------------------------------------------
(* The message event: `actions' is dispatched and a rejected message       *)
(* closes the connection it came on.                                       *)
Finish(c, r) ==
  pending' = IF r.accepted THEN r.actions ELSE Append(r.actions, CLOSE(c))

Bind(c, r, id) ==
  binding' = IF r.binding = "NONE" THEN binding
             ELSE [binding EXCEPT ![c] = [role |-> r.binding, session |-> id]]

Receiving(c, role) ==
  Idle /\ socket[c] \in {"OPEN", "CLOSING"} /\ binding[c].role = role

(* A message of a connection that is not bound.  Only CREATE_SESSION and   *)
(* RESERVE_JOIN are not rejected out of hand.                              *)
HandleCreateSession(c, m) ==
  /\ Receiving(c, "NONE") /\ m.type = "CREATE_SESSION"
  /\ created < MaxSessions /\ now + ABSOLUTE_SESSION_LIFETIME <= MaxTime
  /\ LET id == created + 1
         r  == IF Live(session) THEN Rejected(session) ELSE CreateSession(id, c, m, now)
     IN /\ session' = r.session
        /\ created' = IF r.accepted THEN id ELSE created
        /\ Bind(c, r, id) /\ Finish(c, r)
  /\ UNCHANGED <<now, socket, delivered, issued, admitted>>

HandleReserveJoin(c, m) ==
  /\ Receiving(c, "NONE") /\ m.type = "RESERVE_JOIN"
  /\ LET r == ReserveJoin(SessionNamed(m.sessionId), c, m, now)
     IN /\ session' = Stored(m.sessionId, r)
        /\ Bind(c, r, m.sessionId) /\ Finish(c, r)
        /\ admitted' = IF r.accepted
             THEN Append(admitted, [capability |-> m.credential, connection |-> c, at |-> now])
             ELSE admitted
  /\ UNCHANGED <<now, created, socket, delivered, issued>>

HandleUnbound(c, m) ==
  /\ Receiving(c, "NONE") /\ m.type \notin {"CREATE_SESSION", "RESERVE_JOIN"}
  /\ Finish(c, Rejected(session))
  /\ UNCHANGED <<now, session, created, socket, binding, delivered, issued, admitted>>

HandleOwnerMessage(c, m) ==
  /\ Receiving(c, "OWNER")
  /\ LET id    == binding[c].session
         fresh == Len(issued) + 1
         r     == HandleOwner(SessionNamed(id), c, m, fresh, now)
     IN /\ session' = Stored(id, r)
        /\ Finish(c, r)
        /\ issued' = IF Stored(id, r).joinCapability = fresh
                       THEN Append(issued, [session |-> id, at |-> now]) ELSE issued
  /\ UNCHANGED <<now, created, socket, binding, delivered, admitted>>

HandleReceiverMessage(c, m) ==
  /\ Receiving(c, "RECEIVER")
  /\ LET id == binding[c].session
         r  == HandleReceiver(SessionNamed(id), c, m, now)
     IN /\ session' = Stored(id, r)
        /\ Finish(c, r)
  /\ UNCHANGED <<now, created, socket, binding, delivered, issued, admitted>>
----------------------------------------------------------------------------
(* The messages a connection may send: the right ones for its place in the *)
(* protocol, and the same with one thing wrong.                            *)
Types == OwnerMessages \cup ReceiverMessages \cup {"CREATE_SESSION", "RESERVE_JOIN"}

PeerOf(c) ==
  CASE Live(session) /\ session.owner.connection = c    -> session.owner
    [] Live(session) /\ session.receiver.connection = c -> session.receiver
    [] OTHER -> NoPeer

Message(type, sequence, id, credential, heartbeat, ice) ==
  [type |-> type, sequence |-> sequence, sessionId |-> id, credential |-> credential,
   heartbeatSequence |-> heartbeat, iceState |-> ice]

Good(c, t, i) ==
  Message(t, PeerOf(c).expectedClientSequence, binding[c].session, binding[c].session,
          PeerOf(c).heartbeatSequence, i)

Flawed(m) ==
  {[m EXCEPT !.sequence = @ + 1], [m EXCEPT !.sessionId = 0], [m EXCEPT !.credential = 0],
   [m EXCEPT !.heartbeatSequence = @ - 1]}

(* The checks that reject a flawed message precede the switch on its type, *)
(* so the acknowledgements stand for all types there.                      *)
BoundMessages(c) ==
  {Good(c, t, "connected") : t \in Types}
    \cup {Good(c, "RECEIVER_ICE_STATE", i) : i \in IceStates}
    \cup UNION {Flawed(Good(c, t, "connected")) :
                  t \in {"OWNER_HEARTBEAT_ACK", "RECEIVER_HEARTBEAT_ACK"}}

FirstMessages ==
  {Message("CREATE_SESSION", n, 0, 0, 0, "connected") : n \in 1..2}
    \cup {Message("RESERVE_JOIN", n, id, j, 0, "connected") :
            n \in 1..2, id \in 1..created, j \in 1..Len(issued)}
    \cup {Message("CREATE_JOIN", 1, 0, 0, 0, "connected")}

Handle(c) ==
  \/ /\ Receiving(c, "NONE")
     /\ \E m \in FirstMessages :
          HandleCreateSession(c, m) \/ HandleReserveJoin(c, m) \/ HandleUnbound(c, m)
  \/ /\ Receiving(c, binding[c].role)
     /\ PeerOf(c).expectedClientSequence <= MaxSequence
     /\ session.owner.nextServerSequence <= MaxSends
     /\ \E m \in BoundMessages(c) :
          HandleOwnerMessage(c, m) \/ HandleReceiverMessage(c, m)

Next ==
  \/ \E c \in Conn : \/ Connect(c) \/ Handle(c) \/ FailConnection(c)
                     \/ SocketClosed(c) \/ FirstMessageTimeout(c)
  \/ Tick \/ AdvanceTime \/ Dispatch

Spec == Init /\ [][Next]_vars

(* dispatch runs to its end.  Callbacks of the sockets come in between,    *)
(* but the clock does not wait for them and the timers phase of the event  *)
(* loop comes round again, so the interval timer is not starved.           *)
FairSpec == Spec /\ WF_vars(Dispatch) /\ SF_vars(Tick) /\ SF_vars(AdvanceTime)
----------------------------------------------------------------------------
Roles == {"NONE", "OWNER", "RECEIVER"}
SocketStates == {"UNUSED", "OPEN", "CLOSING", "CLOSED"}
Deadlines == Nat \cup {NoDeadline}

PeerType == [connection : Conn \cup {NoConn}, expectedClientSequence : Nat,
             nextServerSequence : Nat, lastActivity : Nat, nextHeartbeat : Nat,
             heartbeatSequence : Nat]

SessionType ==
  [id : Nat, phase : Phases \cup {"NONE"}, absoluteDeadline : Nat, phaseDeadline : Deadlines,
   joinCapability : Nat, joinExpiresAt : Deadlines, owner : PeerType, receiver : PeerType,
   offerSeen : BOOLEAN, answerSeen : BOOLEAN, restartOfferPending : BOOLEAN,
   iceDisconnectedDeadline : Deadlines]

ActionType == [kind : {"SEND", "CLOSE"}, connection : Conn,
               type : ServerMessages \cup {"CLOSE"}, sequence : Nat]

IssueType == [session : Nat, at : Nat]
AdmissionType == [capability : Nat, connection : Conn, at : Nat]

(* Type invariant of the store, the connections and the dispatch stack.    *)
TypeOK ==
  /\ now \in Nat /\ created \in Nat
  /\ session \in SessionType
  /\ socket \in [Conn -> SocketStates]
  /\ binding \in [Conn -> [role : Roles, session : Nat]]
  /\ delivered \in [Conn -> SUBSET Nat]
  /\ pending \in Seq(ActionType)
  /\ issued \in Seq(IssueType) /\ admitted \in Seq(AdmissionType)

(* The fields of SessionRecord that handlers update one by one never       *)
(* disagree with the phase: a receiver is bound exactly while reserved or  *)
(* connected, a capability is redeemable exactly while the join is open,   *)
(* the phase deadline is dropped only by the answer, and no negotiation    *)
(* flag or ICE deadline outlives the receiver it belonged to.              *)
PhaseFits(s) ==
  /\ s.phase \in Phases
  /\ HasReceiver(s) <=> s.phase \in {"JOIN_RESERVED", "CONNECTED"}
  /\ s.joinCapability # NoCapability <=> s.phase = "JOIN_OPEN"
  /\ s.joinExpiresAt # NoDeadline <=> s.phase = "JOIN_OPEN"
  /\ s.phase = "JOIN_OPEN" => s.phaseDeadline = s.joinExpiresAt
  /\ s.phaseDeadline = NoDeadline <=> s.phase = "CONNECTED"
  /\ s.answerSeen <=> s.phase = "CONNECTED"
  /\ s.offerSeen => HasReceiver(s)
  /\ s.answerSeen => s.offerSeen
  /\ s.restartOfferPending => s.phase = "CONNECTED"
  /\ s.iceDisconnectedDeadline # NoDeadline => s.phase = "CONNECTED"

PhaseConsistent == Live(session) => PhaseFits(session)

(* No join rotation, receiver replacement or ICE restart carries any       *)
(* deadline of the session past its absolute one.                          *)
Capped(s) ==
  /\ s.phaseDeadline <= s.absoluteDeadline
  /\ s.joinExpiresAt <= s.absoluteDeadline
  /\ s.iceDisconnectedDeadline <= s.absoluteDeadline

DeadlinesCapped == Live(session) => Capped(session)

(* Whatever arrives, in whatever order messages, failures and deadlines    *)
(* come, the store's record keeps its types, its fields fit its phase and  *)
(* none of its deadlines outlives the session's absolute one.              *)
StoreConsistent == TypeOK /\ PhaseConsistent /\ DeadlinesCapped

(* Once a session is past its absolute deadline a late tick changes        *)
(* nothing: no message of either peer is accepted and no receiver admitted *)
(* in the meantime, and the deadline itself never moves.                   *)
ExpiredSessionIsInert ==
  [][Live(session) /\ session'.id = session.id =>
       /\ session'.absoluteDeadline = session.absoluteDeadline
       /\ now >= session.absoluteDeadline =>
            /\ session'.owner.expectedClientSequence = session.owner.expectedClientSequence
            /\ session'.receiver \in {session.receiver, NoPeer}]_vars

(* A join capability admits at most one receiver, only before it expires,  *)
(* and only while it is the newest of its session: detaching a receiver or *)
(* issuing another link leaves none of the older ones redeemable.          *)
SingleUseJoin ==
  \A i \in DOMAIN admitted :
    LET j == issued[admitted[i].capability] IN
    /\ admitted[i].at < j.at + JOIN_CAPABILITY_LIFETIME
    /\ \A k \in 1..(i - 1) : admitted[k].capability < admitted[i].capability

(* Between callbacks every connection that is bound and open is the peer   *)
(* its session knows, and no session keeps a peer whose connection ended:  *)
(* no revoked or replaced peer stays connected, and none is forgotten.     *)
(* (A known peer may be CLOSING: a first message that crosses the first    *)
(* message timeout is still handled.)                                      *)
PeersMatchSockets ==
  Idle =>
    /\ \A c \in Conn : socket[c] = "OPEN" /\ binding[c] # Unbound =>
         Live(session) /\ session.id = binding[c].session /\ PeerOf(c) # NoPeer
    /\ Live(session) =>
         /\ socket[session.owner.connection] # "CLOSED"
         /\ HasReceiver(session) => socket[session.receiver.connection] # "CLOSED"

(* Admissions and sockets agree: a join token admits one receiver, and the *)
(* peers the store holds are the sockets that are bound to it.             *)
AdmissionSound == SingleUseJoin /\ PeersMatchSockets

(* The announcement of the receiver, number k to owner c, is still to come *)
(* in the list being dispatched.                                           *)
Announces(c, k) ==
  \E i \in 2 .. Len(pending) : /\ pending[i].connection = c /\ pending[i].sequence = k
                               /\ pending[i].type = "RECEIVER_RESERVED"

(* An owner is sent every number the server takes for it, each once and in *)
(* order, although dispatch nests in the middle of a list: the owner's     *)
(* client fails the session on the first one that is not the next.  One    *)
(* message may be overtaken: when the receiver being admitted cannot take  *)
(* its own JOIN_RESERVED, its RECEIVER_DISCONNECTED goes out before the    *)
(* RECEIVER_RESERVED it follows in number.                                 *)
OwnerStreamComplete ==
  [][\A c \in Conn : binding[c].role = "OWNER" /\ DispatchSend /\ Head1.connection = c =>
       /\ Head1.sequence \notin delivered[c]
       /\ \A k \in 1 .. (Head1.sequence - 1) : k \in delivered[c] \/ Announces(c, k)]_vars

(* A connection left over from an ended session cannot touch the session   *)
(* that replaced it: its messages, failures and close event change nothing *)
(* but its own connection.                                                 *)
SessionsAreIsolated ==
  [][\A c \in Conn :
       /\ Idle /\ Live(session) /\ binding[c] # Unbound /\ binding[c].session # session.id
       /\ session' # session \/ \E i \in DOMAIN pending' : pending'[i].connection # c
       => ~ \/ FailConnection(c) \/ SocketClosed(c)
            \/ \E m \in BoundMessages(c) : HandleOwnerMessage(c, m) \/ HandleReceiverMessage(c, m)]_vars

(* Every session ends, whatever its peers send: the store, which holds one *)
(* session at a time, is empty again and again.                            *)
SessionsEnd == []<>~Live(session)
====================================================================================
