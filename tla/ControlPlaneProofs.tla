------------------------ MODULE ControlPlaneProofs ------------------------
(***************************************************************************)
(* What holds of the control plane for every value of its bounds, one      *)
(* component after the other: the owner's signaling client loses nothing   *)
(* between its threads, the ends of the control channel agree, the end of  *)
(* a peer is the last of it, the controller's levels stay with its history *)
(* and the clock's correlation stays sound.                                *)
(***************************************************************************)
EXTENDS OwnerSignaling, PeerControl, RegionController, ClockCorrelation,
        FiniteSetTheorems, SequenceTheorems, WellFoundedInduction, TLAPS

-----------------------------------------------------------------------------
(* The owner's signaling client: OwnerSignaling.                           *)

Failures == {"failed", "revoked", "expired"}

ProtoType ==
  [phase : {"idle"} \cup ActivePhases \cup Ended, cap : BOOLEAN, client : 0 .. OwnMaxClient]

OutputType ==
  [messages : Seq(1 .. OwnMaxClient), events : Seq(OwnEventKinds), close : BOOLEAN,
   overflow : BOOLEAN]

OwnTypes ==
  /\ proto \in ProtoType
  /\ output \in [OwnThreads -> OutputType]
  /\ events \in Seq(OwnEventKinds) /\ Len(events) <= OwnMaxEvents
  /\ socket \in {"new", "connecting", "open", "closed"}
  /\ transportOpen \in BOOLEAN /\ shutdown \in BOOLEAN /\ overflowed \in BOOLEAN
  /\ silence \in 0 .. OwnTimeout
  /\ wire \in Seq(1 .. OwnMaxClient)
  /\ ends \in Nat /\ stops \in Nat

HasEnd(o) == \E i \in DOMAIN o.events : o.events[i] = "terminal"

Ending == {t \in OwnThreads : HasEnd(output[t])}

(* What a thread holds: one number or event at most.  A report that is not *)
(* stop's has no number before it, which a failed send would lose it with. *)
OwnOutputs ==
  \A t \in OwnThreads :
    /\ Len(output[t].messages) <= 1 /\ Len(output[t].events) <= 1
    /\ output[t].overflow => overflowed
    /\ (HasEnd(output[t]) \/ output[t].close) /\ stops = 0 => output[t].messages = << >>

(* The numbers given out are on the wire or on their way to it.            *)
Held(k) ==
  \/ \E i \in DOMAIN wire : wire[i] = k
  \/ \E t \in OwnThreads : output[t].messages # << >> /\ output[t].messages[1] = k

OwnNumbers ==
  /\ proto.phase = "idle" => proto.client = 0
  /\ proto.phase \notin Ended => \A k \in Nat : Held(k) <=> k \in 1 .. proto.client

(* Only a protocol that has ended has reported, once but for a stop.       *)
OwnEnds ==
  /\ stops # 0 => proto.phase = "stopped"
  /\ shutdown => stops # 0
  /\ ends + Cardinality(Ending) <= (IF proto.phase \in Ended THEN 1 + stops ELSE 0)
  /\ proto.phase \in Failures /\ ~overflowed =>
       /\ ends + Cardinality(Ending) >= 1
       /\ socket = "closed" \/ \E t \in OwnThreads : output[t].close

OwnInv == OwnTypes /\ OwnOutputs /\ OwnNumbers /\ OwnEnds

LEMMA OwnBounds ==
  OwnMaxEvents \in Nat \ {0} /\ OwnTimeout \in Nat \ {0} /\ OwnMaxClient \in Nat \ {0}
BY OwnAssumption

(* What an operation makes of the protocol: nothing, a failure or an end,  *)
(* or progress with at most the next number and one event; stop apart.     *)
Still(p, r) == r.p = p /\ r.out = Nothing

EndsIt(p, r) ==
  /\ p.phase \notin Ended /\ r.p.phase \in Failures /\ r.p.client = p.client
  /\ r.out = Output(<< >>, <<"terminal">>, TRUE)

Advances(p, r) ==
  /\ p.phase \notin Ended /\ Active(r.p)
  /\ ~r.out.close /\ ~r.out.overflow
  /\ r.out.events = << >> \/ \E e \in OwnEventKinds \ {"terminal"} : r.out.events = <<e>>
  /\ \/ r.out.messages = << >> /\ r.p.client = p.client
     \/ r.out.messages = <<p.client + 1>> /\ r.p.client = p.client + 1

Shape(p, r) ==
  /\ r.p \in ProtoType /\ r.out \in OutputType
  /\ Still(p, r) \/ EndsIt(p, r) \/ Advances(p, r)

LEMMA PhaseFacts ==
  /\ \A phase \in ActivePhases : phase \notin Ended /\ phase # "idle" /\ phase \notin Failures
  /\ Failures \subseteq Ended /\ "stopped" \in Ended /\ "stopped" \notin Failures
  /\ "idle" \notin Ended
BY DEF ActivePhases, Ended, Failures

LEMMA OutputFacts ==
  /\ Nothing \in OutputType /\ Nothing.messages = << >> /\ Nothing.events = << >>
  /\ Nothing.close = FALSE /\ Nothing.overflow = FALSE
  /\ Output(<< >>, <<"terminal">>, TRUE) \in OutputType
  /\ Output(<< >>, <<"terminal">>, TRUE).messages = << >>
  /\ Output(<< >>, <<"terminal">>, TRUE).events = <<"terminal">>
  /\ Output(<< >>, <<"terminal">>, TRUE).close = TRUE
  /\ Output(<< >>, <<"terminal">>, TRUE).overflow = FALSE
<1>1. << >> \in Seq(1 .. OwnMaxClient) /\ << >> \in Seq(OwnEventKinds)
  BY EmptySeq
<1>2. <<"terminal">> \in Seq(OwnEventKinds)
  <2>1. "terminal" \in OwnEventKinds
    BY DEF OwnEventKinds
  <2> QED
    BY <2>1
<1> QED
  BY <1>1, <1>2 DEF Nothing, Output, OutputType

LEMMA FailShape == \A p \in ProtoType : Shape(p, Fail(p))
<1> TAKE p \in ProtoType
<1>1. CASE p.phase \in Ended
  BY <1>1, OutputFacts DEF Fail, Shape, Still
<1>2. CASE p.phase \notin Ended
  <2> DEFINE q == [p EXCEPT !.phase = "failed", !.cap = FALSE]
  <2>1. Fail(p).p = q /\ Fail(p).out = Output(<< >>, <<"terminal">>, TRUE)
    BY <1>2 DEF Fail
  <2>2. q \in ProtoType /\ q.phase = "failed" /\ q.client = p.client
    BY DEF ProtoType, Ended
  <2> HIDE DEF q
  <2> QED
    BY <1>2, <2>1, <2>2, OutputFacts DEF Shape, EndsIt, Failures
<1> QED
  BY <1>1, <1>2

LEMMA TransportFailedShape == \A p \in ProtoType : Shape(p, TransportFailed(p))
<1> TAKE p \in ProtoType
<1>1. CASE Active(p)
  BY <1>1, FailShape DEF TransportFailed
<1>2. CASE ~Active(p)
  BY <1>2, OutputFacts DEF TransportFailed, Shape, Still
<1> QED
  BY <1>1, <1>2

(* The next number, under the owner's capability. *)
LEMMA NumberOutput ==
  ASSUME NEW n \in 1 .. OwnMaxClient
  PROVE  /\ Output(<<n>>, << >>, FALSE) \in OutputType
         /\ Output(<<n>>, << >>, FALSE).messages = <<n>>
         /\ Output(<<n>>, << >>, FALSE).events = << >>
         /\ Output(<<n>>, << >>, FALSE).close = FALSE
         /\ Output(<<n>>, << >>, FALSE).overflow = FALSE
<1>1. <<n>> \in Seq(1 .. OwnMaxClient) /\ << >> \in Seq(OwnEventKinds)
  BY EmptySeq
<1> QED
  BY <1>1 DEF Output, OutputType

LEMMA AuthenticatedShape ==
  ASSUME NEW p \in ProtoType, Active(p), p.client < OwnMaxClient, NEW next \in ActivePhases
  PROVE  Shape(p, AuthenticatedMessage(p, next))
<1>1. CASE ~p.cap
  BY <1>1, FailShape DEF AuthenticatedMessage
<1>2. CASE p.cap
  <2> DEFINE q == [p EXCEPT !.client = p.client + 1, !.phase = next]
             n == p.client + 1
  <2>1. n \in 1 .. OwnMaxClient /\ n \in 0 .. OwnMaxClient
    BY OwnBounds DEF ProtoType
  <2>2. q \in ProtoType /\ q.phase = next /\ q.client = n
    BY <2>1 DEF ProtoType
  <2>3. /\ AuthenticatedMessage(p, next).p = q
        /\ AuthenticatedMessage(p, next).out = Output(<<n>>, << >>, FALSE)
    BY <1>2 DEF AuthenticatedMessage
  <2> HIDE DEF q, n
  <2>4. p.phase \notin Ended /\ Active(q)
    BY <2>2, PhaseFacts DEF Active
  <2> QED
    BY <2>1, <2>2, <2>3, <2>4, NumberOutput DEF Shape, Advances, n
<1> QED
  BY <1>1, <1>2

LEMMA BeginShape ==
  ASSUME NEW p \in ProtoType, p.phase = "idle" => p.client = 0
  PROVE  Shape(p, Begin(p))
<1>1. CASE p.phase # "idle"
  BY <1>1, FailShape DEF Begin
<1>2. CASE p.phase = "idle"
  <2> DEFINE q == [p EXCEPT !.phase = "creating", !.client = 1]
  <2>1. 1 \in 1 .. OwnMaxClient /\ 1 \in 0 .. OwnMaxClient
    BY OwnBounds
  <2>2. "creating" \in ActivePhases
    BY DEF ActivePhases
  <2>3. q \in ProtoType /\ q.phase = "creating" /\ q.client = 1
    BY <2>1, <2>2 DEF ProtoType
  <2>4. Begin(p).p = q /\ Begin(p).out = Output(<<1>>, << >>, FALSE)
    BY <1>2 DEF Begin
  <2> HIDE DEF q
  <2>5. p.phase \notin Ended /\ Active(q) /\ p.client + 1 = 1
    BY <1>2, <2>2, <2>3, PhaseFacts DEF Active
  <2> QED
    BY <2>1, <2>3, <2>4, <2>5, NumberOutput DEF Shape, Advances
<1> QED
  BY <1>1, <1>2

(* The calls of the share and of the peer connection. *)
LEMMA CallShapes ==
  ASSUME NEW p \in ProtoType, p.client < OwnMaxClient
  PROVE  /\ Shape(p, CreateJoin(p)) /\ Shape(p, SendCandidate(p))
         /\ \A restart \in BOOLEAN : Shape(p, SendAnswer(p, restart))
<1>1. /\ "join_pending" \in ActivePhases /\ "owner_only" \in ActivePhases
      /\ "negotiating" \in ActivePhases /\ "restart_negotiating" \in ActivePhases
      /\ "connected" \in ActivePhases
      /\ \A phase \in Negotiated : phase \in ActivePhases
  BY DEF ActivePhases, Negotiated
<1>2. Shape(p, CreateJoin(p))
  <2>1. CASE p.phase # "owner_only"
    BY <2>1, FailShape DEF CreateJoin
  <2>2. CASE p.phase = "owner_only"
    BY <1>1, <2>2, AuthenticatedShape DEF CreateJoin, Active
  <2> QED
    BY <2>1, <2>2
<1>3. Shape(p, SendCandidate(p))
  <2>1. CASE p.phase \notin Negotiated
    BY <2>1, FailShape DEF SendCandidate
  <2>2. CASE p.phase \in Negotiated
    BY <1>1, <2>2, AuthenticatedShape DEF SendCandidate, Active
  <2> QED
    BY <2>1, <2>2
<1>4. ASSUME NEW restart \in BOOLEAN PROVE Shape(p, SendAnswer(p, restart))
  <2> DEFINE phase == IF restart THEN "restart_negotiating" ELSE "negotiating"
  <2>1. phase \in ActivePhases
    BY <1>1
  <2>2. CASE p.phase # phase
    BY <2>2, FailShape DEF SendAnswer
  <2>3. CASE p.phase = phase
    <3>1. SendAnswer(p, restart) = AuthenticatedMessage(p, "connected")
      BY <2>3 DEF SendAnswer
    <3> HIDE DEF phase
    <3> QED
      BY <1>1, <2>1, <2>3, <3>1, AuthenticatedShape DEF Active
  <2> QED
    BY <2>2, <2>3
<1> QED
  BY <1>2, <1>3, <1>4

LEMMA ReceptionFacts ==
  /\ DOMAIN Reception = {"SESSION_CREATED", "JOIN_CREATED", "RECEIVER_RESERVED", "RECEIVER_OFFER",
                         "RECEIVER_ICE_RESTART_OFFER", "RECEIVER_DISCONNECTED"}
  /\ \A type \in DOMAIN Reception :
       Reception[type].to \in ActivePhases /\ Reception[type].event \in OwnEventKinds \ {"terminal"}
  /\ Reception["SESSION_CREATED"].to = "owner_only"
BY DEF Reception, ActivePhases, OwnEventKinds

(* An event alone, and the event of a session whose join is asked for. *)
LEMMA EventOutput ==
  ASSUME NEW e \in OwnEventKinds, NEW messages \in Seq(1 .. OwnMaxClient)
  PROVE  /\ Output(messages, <<e>>, FALSE) \in OutputType
         /\ Output(messages, <<e>>, FALSE).messages = messages
         /\ Output(messages, <<e>>, FALSE).events = <<e>>
         /\ Output(messages, <<e>>, FALSE).close = FALSE
         /\ Output(messages, <<e>>, FALSE).overflow = FALSE
<1>1. <<e>> \in Seq(OwnEventKinds)
  OBVIOUS
<1> QED
  BY <1>1 DEF Output, OutputType

LEMMA ProgressShape ==
  ASSUME NEW p \in ProtoType, Active(p), p.client < OwnMaxClient, NEW type \in DOMAIN Reception
  PROVE  Shape(p, ReceiveProgress(p, type))
<1> DEFINE rule == Reception[type]
           e == rule.event
           q == [p EXCEPT !.phase = rule.to, !.cap = p.cap \/ type = "SESSION_CREATED"]
           join == CreateJoin(q)
           r == ReceiveProgress(p, type)
<1>1. rule.to \in ActivePhases /\ e \in OwnEventKinds /\ e # "terminal"
  BY ReceptionFacts
<1>2. p.phase \notin Ended
  BY PhaseFacts DEF Active
<1>3. r = IF p.phase \notin rule.in THEN Fail(p)
          ELSE IF type = "SESSION_CREATED" /\ OwnAutoJoin
          THEN [join EXCEPT !.out.events = <<e>> \o join.out.events]
          ELSE [p |-> q, out |-> Output(<< >>, <<e>>, FALSE)]
  BY DEF ReceiveProgress
<1> HIDE DEF r, e, join
<1>4. /\ q \in ProtoType /\ q.client = p.client /\ q.phase = rule.to
      /\ q.cap = (p.cap \/ type = "SESSION_CREATED")
  <2>1. p.cap \in BOOLEAN
    BY DEF ProtoType
  <2>2. (p.cap \/ type = "SESSION_CREATED") \in BOOLEAN
    BY <2>1
  <2> HIDE DEF rule
  <2> QED
    BY <1>1, <2>2 DEF ProtoType
<1>5. Active(q)
  BY <1>1, <1>4 DEF Active
<1>6. CASE p.phase \notin rule.in
  BY <1>3, <1>6, FailShape DEF r
<1>7. CASE p.phase \in rule.in /\ type = "SESSION_CREATED" /\ OwnAutoJoin
  <2> DEFINE n == p.client + 1
             d == [q EXCEPT !.client = q.client + 1, !.phase = "join_pending"]
             o == Output(<<n>>, << >>, FALSE)
  <2>1. q.cap = TRUE /\ q.phase = "owner_only"
    BY <1>4, <1>7, ReceptionFacts
  <2> HIDE DEF q
  <2>2. join = [p |-> d, out |-> o]
    BY <1>4, <2>1 DEF CreateJoin, AuthenticatedMessage, join
  <2>3. n \in 1 .. OwnMaxClient /\ n \in 0 .. OwnMaxClient
    BY OwnBounds DEF ProtoType
  <2>4. "join_pending" \in ActivePhases
    BY DEF ActivePhases
  <2>5. d \in ProtoType /\ d.client = n /\ d.phase = "join_pending"
    BY <1>4, <2>3, <2>4 DEF ProtoType
  <2>6. /\ o \in OutputType /\ o.messages = <<n>> /\ o.events = << >> /\ o.close = FALSE
        /\ o.overflow = FALSE
    BY <2>3, NumberOutput
  <2> HIDE DEF d, o, n
  <2>7. r = [join EXCEPT !.out.events = <<e>> \o join.out.events]
    BY <1>3, <1>7
  <2>8. r.p = d /\ r.out = [o EXCEPT !.events = <<e>> \o o.events]
    BY <2>2, <2>7
  <2>9. <<e>> \o o.events = <<e>> /\ <<e>> \in Seq(OwnEventKinds)
    <3>1. <<e>> \in Seq(OwnEventKinds)
      BY <1>1
    <3> QED
      BY <2>6, <3>1, ConcatEmptySeq
  <2>10. /\ r.out \in OutputType /\ r.out.messages = <<n>> /\ r.out.events = <<e>>
         /\ r.out.close = FALSE /\ r.out.overflow = FALSE
    BY <2>6, <2>8, <2>9 DEF OutputType
  <2> QED
    BY <1>1, <1>2, <2>4, <2>5, <2>8, <2>10 DEF Shape, Advances, Active, n, r
<1>8. CASE p.phase \in rule.in /\ ~(type = "SESSION_CREATED" /\ OwnAutoJoin)
  <2>1. r.p = q /\ r.out = Output(<< >>, <<e>>, FALSE)
    BY <1>3, <1>8
  <2>2. << >> \in Seq(1 .. OwnMaxClient)
    BY EmptySeq
  <2> HIDE DEF q
  <2>3. /\ r.out \in OutputType /\ r.out.messages = << >> /\ r.out.events = <<e>>
        /\ r.out.close = FALSE /\ r.out.overflow = FALSE
    <3> DEFINE o == Output(<< >>, <<e>>, FALSE)
    <3>1. e \in OwnEventKinds
      BY <1>1
    <3>2. /\ o \in OutputType /\ o.messages = << >> /\ o.events = <<e>> /\ o.close = FALSE
          /\ o.overflow = FALSE
      BY <2>2, <3>1, EventOutput, Zenon
    <3>3. r.out = o
      BY <2>1
    <3> HIDE DEF o
    <3> QED
      BY <3>2, <3>3
  <2>4. r.p \in ProtoType /\ r.p.client = p.client /\ Active(r.p)
    BY <1>4, <1>5, <2>1
  <2>5. Advances(p, r)
    BY <1>1, <1>2, <2>3, <2>4 DEF Advances
  <2> QED
    BY <2>3, <2>4, <2>5 DEF Shape, r
<1> QED
  BY <1>6, <1>7, <1>8

LEMMA CandidateShape ==
  ASSUME NEW p \in ProtoType, Active(p) PROVE Shape(p, ReceiveCandidate(p))
<1>1. CASE p.phase \notin Negotiated
  BY <1>1, FailShape DEF ReceiveCandidate
<1>2. CASE p.phase \in Negotiated
  <2> DEFINE o == Output(<< >>, <<"receiver_candidate">>, FALSE)
  <2>1. ReceiveCandidate(p).p = p /\ ReceiveCandidate(p).out = o
    BY <1>2 DEF ReceiveCandidate
  <2>2. << >> \in Seq(1 .. OwnMaxClient)
    BY EmptySeq
  <2>3. "receiver_candidate" \in OwnEventKinds \ {"terminal"}
    BY DEF OwnEventKinds
  <2>4. /\ o \in OutputType /\ o.messages = << >> /\ o.events = <<"receiver_candidate">>
        /\ o.close = FALSE /\ o.overflow = FALSE
    BY <2>2, <2>3, EventOutput
  <2>5. p.phase \notin Ended
    BY PhaseFacts DEF Active
  <2> HIDE DEF o
  <2> QED
    BY <2>1, <2>3, <2>4, <2>5 DEF Shape, Advances
<1> QED
  BY <1>1, <1>2

LEMMA HeartbeatShape ==
  ASSUME NEW p \in ProtoType, Active(p), p.client < OwnMaxClient
  PROVE  Shape(p, ReceiveHeartbeat(p))
<1>1. CASE p.phase = "creating"
  BY <1>1, FailShape DEF ReceiveHeartbeat
<1>2. CASE p.phase # "creating"
  <2> DEFINE n == p.client + 1
             q == [p EXCEPT !.client = p.client + 1]
  <2>1. n \in 1 .. OwnMaxClient /\ n \in 0 .. OwnMaxClient
    BY OwnBounds DEF ProtoType
  <2>2. q \in ProtoType /\ q.client = n /\ q.phase = p.phase
    BY <2>1 DEF ProtoType
  <2>3. ReceiveHeartbeat(p).p = q /\ ReceiveHeartbeat(p).out = Output(<<n>>, << >>, FALSE)
    BY <1>2 DEF ReceiveHeartbeat
  <2> HIDE DEF q, n
  <2>4. p.phase \notin Ended /\ Active(q)
    BY <2>2, PhaseFacts DEF Active
  <2> QED
    BY <2>1, <2>2, <2>3, <2>4, NumberOutput DEF Shape, Advances, n
<1> QED
  BY <1>1, <1>2

LEMMA TerminalShape ==
  ASSUME NEW p \in ProtoType, Active(p), NEW phase \in {"revoked", "expired"}
  PROVE  Shape(p, ReceiveTerminal(p, phase))
<1>1. CASE p.phase = "creating"
  BY <1>1, FailShape DEF ReceiveTerminal
<1>2. CASE p.phase # "creating"
  <2> DEFINE q == [p EXCEPT !.phase = phase, !.cap = FALSE]
  <2>1. /\ ReceiveTerminal(p, phase).p = q
        /\ ReceiveTerminal(p, phase).out = Output(<< >>, <<"terminal">>, TRUE)
    BY <1>2 DEF ReceiveTerminal
  <2>2. q \in ProtoType /\ q.phase = phase /\ q.client = p.client
    BY DEF ProtoType, Ended
  <2> HIDE DEF q
  <2>3. p.phase \notin Ended /\ q.phase \in Failures
    BY <2>2, PhaseFacts DEF Active, Failures
  <2> QED
    BY <2>1, <2>2, <2>3, OutputFacts DEF Shape, EndsIt
<1> QED
  BY <1>1, <1>2

LEMMA ReceiveShape ==
  ASSUME NEW p \in ProtoType, p.client < OwnMaxClient, NEW type \in ServerMessages
  PROVE  Shape(p, Receive(p, type))
<1>1. CASE ~Active(p) \/ type = "MALFORMED"
  BY <1>1, FailShape DEF Receive
<1>2. CASE Active(p) /\ type \in DOMAIN Reception
  <2>1. /\ type # "MALFORMED" /\ type # "RECEIVER_ICE_CANDIDATE" /\ type # "HEARTBEAT"
        /\ type # "SESSION_REVOKED" /\ type # "SESSION_EXPIRED"
    BY <1>2, ReceptionFacts
  <2>2. Receive(p, type) = ReceiveProgress(p, type)
    BY <1>2, <2>1, Zenon DEF Receive
  <2> QED
    BY <1>2, <2>2, ProgressShape
<1>3. /\ "MALFORMED" \notin DOMAIN Reception /\ "RECEIVER_ICE_CANDIDATE" \notin DOMAIN Reception
      /\ "HEARTBEAT" \notin DOMAIN Reception /\ "SESSION_REVOKED" \notin DOMAIN Reception
      /\ "SESSION_EXPIRED" \notin DOMAIN Reception
  BY ReceptionFacts
<1>4. CASE Active(p) /\ type = "RECEIVER_ICE_CANDIDATE"
  <2>1. Receive(p, type) = ReceiveCandidate(p)
    BY <1>3, <1>4, Zenon DEF Receive
  <2> QED
    BY <1>4, <2>1, CandidateShape
<1>5. CASE Active(p) /\ type = "HEARTBEAT"
  <2>1. Receive(p, type) = ReceiveHeartbeat(p)
    BY <1>3, <1>5, Zenon DEF Receive
  <2> QED
    BY <1>5, <2>1, HeartbeatShape
<1>6. CASE Active(p) /\ type = "SESSION_REVOKED"
  <2>1. Receive(p, type) = ReceiveTerminal(p, "revoked")
    BY <1>3, <1>6, Zenon DEF Receive
  <2> QED
    BY <1>6, <2>1, TerminalShape
<1>7. CASE Active(p) /\ type = "SESSION_EXPIRED"
  <2>1. Receive(p, type) = ReceiveTerminal(p, "expired")
    BY <1>3, <1>7, Zenon DEF Receive
  <2> QED
    BY <1>7, <2>1, TerminalShape
<1> QED
  BY <1>1, <1>2, <1>4, <1>5, <1>6, <1>7 DEF ServerMessages

(* Stop ends the protocol in every phase, with a notice where it can. *)
LEMMA StopResult ==
  ASSUME NEW p \in ProtoType, p.client < OwnMaxClient
  PROVE  /\ Stop(p).p \in ProtoType /\ Stop(p).p.phase = "stopped"
         /\ Stop(p).out \in OutputType /\ Stop(p).out.events = <<"terminal">>
         /\ ~Stop(p).out.overflow /\ Len(Stop(p).out.messages) <= 1
<1> DEFINE notice == IF Active(p) /\ p.cap THEN AuthenticatedMessage(p, "stopped")
                     ELSE [p |-> p, out |-> Nothing]
<1>1. /\ notice.p \in ProtoType /\ notice.out.messages \in Seq(1 .. OwnMaxClient)
      /\ Len(notice.out.messages) <= 1
  <2>1. CASE Active(p) /\ p.cap
    <3> DEFINE n == p.client + 1
               q == [p EXCEPT !.client = p.client + 1, !.phase = "stopped"]
    <3>1. n \in 1 .. OwnMaxClient /\ n \in 0 .. OwnMaxClient
      BY OwnBounds DEF ProtoType
    <3>2. q \in ProtoType
      BY <3>1 DEF ProtoType, Ended
    <3>3. notice = [p |-> q, out |-> Output(<<n>>, << >>, FALSE)]
      BY <2>1 DEF AuthenticatedMessage
    <3>4. Output(<<n>>, << >>, FALSE).messages = <<n>>
      BY <3>1, NumberOutput
    <3> HIDE DEF notice, n, q
    <3>5. notice.p = q /\ notice.out.messages = <<n>>
      BY <3>3, <3>4
    <3>6. <<n>> \in Seq(1 .. OwnMaxClient) /\ Len(<<n>>) = 1
      BY <3>1
    <3> QED
      BY <3>2, <3>5, <3>6
  <2>2. CASE ~(Active(p) /\ p.cap)
    <3>1. notice.p = p /\ notice.out = Nothing
      BY <2>2
    <3>2. << >> \in Seq(1 .. OwnMaxClient) /\ Len(<< >>) = 0
      BY EmptySeq
    <3> HIDE DEF notice
    <3> QED
      BY <3>1, <3>2, OutputFacts
  <2> QED
    BY <2>1, <2>2
<1>2. /\ Stop(p).p = [notice.p EXCEPT !.cap = FALSE, !.phase = "stopped"]
      /\ Stop(p).out = Output(notice.out.messages, <<"terminal">>, TRUE)
  BY DEF Stop
<1> HIDE DEF notice
<1>3. Stop(p).p \in ProtoType /\ Stop(p).p.phase = "stopped"
  BY <1>1, <1>2 DEF ProtoType, Ended
<1>4. <<"terminal">> \in Seq(OwnEventKinds)
  <2>1. "terminal" \in OwnEventKinds
    BY DEF OwnEventKinds
  <2> QED
    BY <2>1
<1>5. /\ Stop(p).out \in OutputType /\ Stop(p).out.events = <<"terminal">>
      /\ ~Stop(p).out.overflow /\ Stop(p).out.messages = notice.out.messages
  BY <1>1, <1>2, <1>4 DEF Output, OutputType
<1> QED
  BY <1>1, <1>3, <1>5

LEMMA ThreadSets ==
  \A S \in SUBSET OwnThreads : IsFiniteSet(S) /\ Cardinality(S) \in Nat
<1>1. IsFiniteSet(OwnThreads)
  <2>1. IsFiniteSet({})
    BY FS_EmptySet
  <2>2. IsFiniteSet({"net"})
    BY FS_Singleton
  <2>3. IsFiniteSet({"net"} \cup {"peer"})
    BY <2>2, FS_AddElement
  <2>4. IsFiniteSet(({"net"} \cup {"peer"}) \cup {"app"})
    BY <2>3, FS_AddElement
  <2>5. IsFiniteSet((({"net"} \cup {"peer"}) \cup {"app"}) \cup {"watch"})
    BY <2>4, FS_AddElement
  <2>6. OwnThreads = (({"net"} \cup {"peer"}) \cup {"app"}) \cup {"watch"}
    BY DEF OwnThreads
  <2> QED
    BY <2>5, <2>6
<1> QED
  BY <1>1, FS_Subset, FS_CardinalityType

(* An operation's output replaces what its thread held, which was nothing, *)
(* or lost nothing that still mattered. *)
LEMMA RunStep ==
  ASSUME OwnInv, NEW t \in OwnThreads, NEW r,
         Shape(proto, r), Run(t, r), OwnTypes',
         output[t].messages = << >> \/ r.p.phase \in Ended,
         HasEnd(output[t]) \/ output[t].close => stops # 0 \/ overflowed,
         output[t].overflow => overflowed,
         socket = "closed" => socket' = "closed",
         wire' = wire, ends' = ends, stops' = stops, shutdown' = shutdown,
         overflowed' = overflowed
  PROVE  OwnInv'
<1>1. proto' = r.p /\ output' = [output EXCEPT ![t] = r.out]
  BY DEF Run
<1>2. output \in [OwnThreads -> OutputType] /\ proto \in ProtoType
  BY DEF OwnInv, OwnTypes
<1>3. output'[t] = r.out /\ \A x \in OwnThreads \ {t} : output'[x] = output[x]
  BY <1>1, <1>2
<1>4. CASE Still(proto, r)
  <2>1. proto' = proto /\ output'[t] = Nothing
    BY <1>1, <1>3, <1>4 DEF Still
  <2>2. OwnOutputs'
    <3> SUFFICES ASSUME NEW x \in OwnThreads
                 PROVE  /\ Len(output'[x].messages) <= 1 /\ Len(output'[x].events) <= 1
                        /\ output'[x].overflow => overflowed
                        /\ (HasEnd(output'[x]) \/ output'[x].close) /\ stops = 0
                             => output'[x].messages = << >>
      BY DEF OwnOutputs, HasEnd
    <3>1. CASE x = t
      <4>1. Len(<< >>) = 0
        BY EmptySeq
      <4> QED
        BY <2>1, <3>1, <4>1, OutputFacts
    <3>2. CASE x # t
      BY <1>3, <3>2 DEF OwnInv, OwnOutputs
    <3> QED
      BY <3>1, <3>2
  <2>3. ~HasEnd(output'[t])
    BY <2>1, OutputFacts DEF HasEnd
  <2>4. Ending' \subseteq Ending
    BY <1>3, <2>3 DEF Ending, HasEnd
  <2>5. OwnNumbers'
    <3>1. proto.phase \notin Ended => output[t].messages = << >>
      BY <1>4 DEF Still
    <3>2. ASSUME proto.phase \notin Ended, NEW k \in Nat PROVE Held(k)' <=> Held(k)
      BY <1>3, <2>1, <3>1, <3>2, OutputFacts DEF Held
    <3> QED
      BY <2>1, <3>2 DEF OwnInv, OwnNumbers
  <2>6. OwnEnds'
    <3>1. Cardinality(Ending') <= Cardinality(Ending) /\ Cardinality(Ending') \in Nat
          /\ Cardinality(Ending) \in Nat
      <4>1. Ending \in SUBSET OwnThreads /\ Ending' \in SUBSET OwnThreads
        BY DEF Ending
      <4> QED
        BY <2>4, <4>1, ThreadSets, FS_Subset
    <3>2. ends + Cardinality(Ending') <= (IF proto.phase \in Ended THEN 1 + stops ELSE 0)
      <4>1. ends + Cardinality(Ending) <= (IF proto.phase \in Ended THEN 1 + stops ELSE 0)
        BY DEF OwnInv, OwnEnds
      <4>2. ends \in Nat /\ stops \in Nat
        BY DEF OwnInv, OwnTypes
      <4> QED
        BY <3>1, <4>1, <4>2
    <3>3. ASSUME proto.phase \in Failures, ~overflowed
          PROVE  /\ ends + Cardinality(Ending') >= 1
                 /\ socket' = "closed" \/ \E x \in OwnThreads : output'[x].close
      <4>1. stops = 0 /\ ~HasEnd(output[t]) /\ ~output[t].close
        BY <3>3, PhaseFacts DEF OwnInv, OwnEnds
      <4>2. Ending' = Ending
        BY <1>3, <2>4, <4>1 DEF Ending, HasEnd
      <4>3. /\ ends + Cardinality(Ending) >= 1
            /\ socket = "closed" \/ \E x \in OwnThreads : output[x].close
        BY <3>3 DEF OwnInv, OwnEnds
      <4> QED
        BY <1>3, <4>1, <4>2, <4>3
    <3> QED
      BY <2>1, <3>2, <3>3 DEF OwnInv, OwnEnds
  <2> QED
    BY <2>2, <2>5, <2>6 DEF OwnInv
<1>5. CASE EndsIt(proto, r)
  <2>1. /\ proto'.phase \in Failures /\ proto.phase \notin Ended /\ proto'.client = proto.client
        /\ proto'.phase \in Ended /\ stops = 0 /\ proto'.phase # "idle"
    BY <1>1, <1>5, PhaseFacts DEF EndsIt, OwnInv, OwnEnds
  <2>2. /\ output'[t] = Output(<< >>, <<"terminal">>, TRUE)
        /\ output'[t].messages = << >> /\ output'[t].events = <<"terminal">>
        /\ output'[t].close = TRUE /\ output'[t].overflow = FALSE
    BY <1>3, <1>5, OutputFacts DEF EndsIt
  <2>3. ends + Cardinality(Ending) <= 0 /\ ends \in Nat /\ stops \in Nat
    BY <2>1 DEF OwnInv, OwnEnds, OwnTypes
  <2>4. Ending \in SUBSET OwnThreads /\ Ending' \in SUBSET OwnThreads
    BY DEF Ending
  <2>5. ends = 0 /\ Cardinality(Ending) = 0
    <3>1. Cardinality(Ending) \in Nat
      BY <2>4, ThreadSets
    <3> QED
      BY <2>3, <3>1
  <2>6. Ending = {}
    BY <2>4, <2>5, ThreadSets, FS_EmptySet
  <2>7. Ending' = {t}
    <3>1. HasEnd(output'[t])
      <4>1. 1 \in DOMAIN <<"terminal">> /\ <<"terminal">>[1] = "terminal"
        OBVIOUS
      <4> QED
        BY <2>2, <4>1 DEF HasEnd
    <3> QED
      BY <1>3, <2>6, <3>1 DEF Ending, HasEnd
  <2>8. Cardinality(Ending') = 1
    BY <2>7, FS_Singleton
  <2>9. OwnOutputs'
    <3> SUFFICES ASSUME NEW x \in OwnThreads
                 PROVE  /\ Len(output'[x].messages) <= 1 /\ Len(output'[x].events) <= 1
                        /\ output'[x].overflow => overflowed
                        /\ (HasEnd(output'[x]) \/ output'[x].close) /\ stops = 0
                             => output'[x].messages = << >>
      BY DEF OwnOutputs, HasEnd
    <3>1. CASE x = t
      <4>1. Len(output'[t].messages) <= 1
        <5>1. output'[t].messages = << >>
          BY <2>2
        <5>2. Len(<< >>) = 0
          BY EmptySeq
        <5> QED
          BY <5>1, <5>2
      <4>2. Len(output'[t].events) <= 1
        <5>1. output'[t].events = <<"terminal">>
          BY <2>2
        <5> QED
          BY <5>1
      <4> QED
        BY <2>2, <3>1, <4>1, <4>2
    <3>2. CASE x # t
      BY <1>3, <3>2 DEF OwnInv, OwnOutputs
    <3> QED
      BY <3>1, <3>2
  <2>10. OwnNumbers'
    BY <2>1 DEF OwnNumbers
  <2>11. OwnEnds'
    <3>1. stops' = 0 /\ ~shutdown'
      BY <2>1 DEF OwnInv, OwnEnds
    <3>2. ends' + Cardinality(Ending') = 1
      BY <2>5, <2>8
    <3>3. output'[t].close
      BY <2>2
    <3> QED
      BY <2>1, <3>1, <3>2, <3>3 DEF OwnEnds
  <2> QED
    BY <2>9, <2>10, <2>11 DEF OwnInv
<1>6. CASE Advances(proto, r)
  <2>1. /\ Active(proto') /\ proto.phase \notin Ended /\ proto'.phase \notin Ended
        /\ proto'.phase # "idle" /\ stops = 0 /\ proto'.phase \notin Failures
    BY <1>1, <1>6, PhaseFacts DEF Advances, Active, OwnInv, OwnEnds
  <2>2. /\ ~output'[t].close /\ ~output'[t].overflow /\ Len(output'[t].messages) <= 1
        /\ Len(output'[t].events) <= 1 /\ ~HasEnd(output'[t])
    <3>1. ~r.out.close /\ ~r.out.overflow
      BY <1>6 DEF Advances
    <3>2. Len(r.out.messages) <= 1
      <4>1. r.out.messages = << >> \/ r.out.messages = <<proto.client + 1>>
        BY <1>6 DEF Advances
      <4>2. CASE r.out.messages = << >>
        <5>1. Len(<< >>) = 0
          BY EmptySeq
        <5> QED
          BY <4>2, <5>1
      <4>3. CASE r.out.messages = <<proto.client + 1>>
        BY <4>3
      <4> QED
        BY <4>1, <4>2, <4>3
    <3>3. Len(r.out.events) <= 1 /\ ~HasEnd(r.out)
      <4>1. CASE r.out.events = << >>
        <5>1. Len(<< >>) = 0
          BY EmptySeq
        <5> QED
          BY <4>1, <5>1 DEF HasEnd
      <4>2. ASSUME NEW e \in OwnEventKinds \ {"terminal"}, r.out.events = <<e>>
            PROVE  Len(r.out.events) <= 1 /\ ~HasEnd(r.out)
        <5>1. Len(<<e>>) = 1 /\ \A i \in DOMAIN <<e>> : <<e>>[i] = e
          OBVIOUS
        <5> QED
          BY <4>2, <5>1 DEF HasEnd
      <4> QED
        BY <1>6, <4>1, <4>2 DEF Advances
    <3> QED
      BY <1>3, <3>1, <3>2, <3>3
  <2>3. OwnOutputs'
    BY <1>3, <2>2 DEF OwnInv, OwnOutputs, HasEnd
  <2>4. output[t].messages = << >>
    BY <1>1, <2>1
  <2>5. OwnNumbers'
    <3>1. ASSUME NEW k \in Nat PROVE Held(k) <=> k \in 1 .. proto.client
      BY <2>1 DEF OwnInv, OwnNumbers
    <3>2. proto.client \in Nat
      BY <1>2, OwnBounds DEF ProtoType
    <3>3. CASE r.out.messages = << >> /\ r.p.client = proto.client
      <4>1. ASSUME NEW k \in Nat PROVE Held(k)' <=> Held(k)
        BY <1>3, <2>4, <3>3 DEF Held
      <4> QED
        BY <1>1, <2>1, <3>1, <3>3, <4>1 DEF OwnNumbers
    <3>4. CASE r.out.messages = <<proto.client + 1>> /\ r.p.client = proto.client + 1
      <4>1. output'[t].messages # << >> /\ output'[t].messages[1] = proto.client + 1
        BY <1>3, <3>4
      <4>2. ASSUME NEW k \in Nat PROVE Held(k)' <=> Held(k) \/ k = proto.client + 1
        BY <1>3, <2>4, <4>1 DEF Held
      <4>3. ASSUME NEW k \in Nat
            PROVE  k \in 1 .. proto.client + 1 <=> k \in 1 .. proto.client \/ k = proto.client + 1
        BY <3>2
      <4>4. proto'.client = proto.client + 1
        BY <1>1, <3>4
      <4> QED
        BY <2>1, <3>1, <4>2, <4>3, <4>4 DEF OwnNumbers
    <3> QED
      BY <1>6, <3>3, <3>4 DEF Advances
  <2>6. OwnEnds'
    <3>1. Ending' \subseteq Ending
      BY <1>3, <2>2 DEF Ending, HasEnd
    <3>2. Ending \in SUBSET OwnThreads /\ Ending' \in SUBSET OwnThreads
      BY DEF Ending
    <3>3. /\ Cardinality(Ending') <= Cardinality(Ending) /\ Cardinality(Ending') \in Nat
          /\ Cardinality(Ending) \in Nat
      BY <3>1, <3>2, ThreadSets, FS_Subset
    <3>4. ends + Cardinality(Ending) <= 0 /\ ends \in Nat
      BY <2>1 DEF OwnInv, OwnEnds, OwnTypes
    <3>5. ends + Cardinality(Ending') <= 0
      BY <3>3, <3>4
    <3>6. ~shutdown
      BY <2>1 DEF OwnInv, OwnEnds
    <3> QED
      BY <2>1, <3>5, <3>6 DEF OwnEnds
  <2> QED
    BY <2>3, <2>5, <2>6 DEF OwnInv
<1> QED
  BY <1>4, <1>5, <1>6 DEF Shape

LEMMA RunTypes ==
  ASSUME OwnTypes, NEW t \in OwnThreads, NEW r, r.p \in ProtoType, r.out \in OutputType, Run(t, r)
  PROVE  proto' \in ProtoType /\ output' \in [OwnThreads -> OutputType]
BY DEF OwnTypes, Run

LEMMA IdleFacts ==
  ASSUME NEW t \in OwnThreads, Idle(t)
  PROVE  /\ output[t].messages = << >> /\ ~output[t].close /\ ~output[t].overflow
         /\ ~HasEnd(output[t])
BY OutputFacts DEF Idle, HasEnd

(* An operation of a thread that held nothing. *)
LEMMA FreeStep ==
  ASSUME OwnInv, NEW t \in OwnThreads, NEW r,
         Shape(proto, r), Run(t, r), Free(t),
         socket' \in {"new", "connecting", "open", "closed"}, socket = "closed" => socket' = "closed",
         transportOpen' \in BOOLEAN, silence' \in 0 .. OwnTimeout, events' = events,
         wire' = wire, ends' = ends, stops' = stops, shutdown' = shutdown,
         overflowed' = overflowed
  PROVE  OwnInv'
<1>1. Idle(t)
  BY DEF Free
<1>2. r.p \in ProtoType /\ r.out \in OutputType
  BY DEF Shape
<1>3. proto' \in ProtoType /\ output' \in [OwnThreads -> OutputType]
  BY <1>2, RunTypes DEF OwnInv
<1>4. OwnTypes'
  BY <1>3 DEF OwnInv, OwnTypes
<1> QED
  BY <1>1, <1>4, IdleFacts, RunStep

LEMMA OwnCalls ==
  ASSUME OwnInv
  PROVE  /\ Opened => OwnInv'
         /\ \A type \in ServerMessages : Received(type) => OwnInv'
         /\ ClosedOrFailed => OwnInv'
         /\ AppCreatesJoin \/ PeerAnswers \/ PeerCandidate => OwnInv'
         /\ Watch => OwnInv'
<1>1. /\ proto \in ProtoType
      /\ proto.phase = "idle" => proto.client = 0
      /\ silence \in 0 .. OwnTimeout /\ 0 \in 0 .. OwnTimeout
      /\ transportOpen \in BOOLEAN /\ socket \in {"new", "connecting", "open", "closed"}
  BY OwnBounds DEF OwnInv, OwnTypes, OwnNumbers
<1>2. "net" \in OwnThreads /\ "peer" \in OwnThreads /\ "app" \in OwnThreads
      /\ "watch" \in OwnThreads
  BY DEF OwnThreads
<1>3. Room => proto.client < OwnMaxClient
  BY DEF Room
<1>4. ASSUME Opened PROVE OwnInv'
  <2>1. Shape(proto, Begin(proto))
    BY <1>1, BeginShape
  <2> QED
    BY <1>1, <1>2, <1>4, <2>1, FreeStep DEF Opened
<1>5. ASSUME NEW type \in ServerMessages, Received(type) PROVE OwnInv'
  <2>1. Shape(proto, Receive(proto, type))
    BY <1>1, <1>3, <1>5, ReceiveShape DEF Received
  <2>2. silence' \in 0 .. OwnTimeout
    BY <1>1, <1>5 DEF Received
  <2> QED
    BY <1>1, <1>2, <1>5, <2>1, <2>2, FreeStep DEF Received
<1>6. ASSUME ClosedOrFailed PROVE OwnInv'
  <2>1. Shape(proto, TransportFailed(proto))
    BY <1>1, TransportFailedShape
  <2>2. socket' \in {"new", "connecting", "open", "closed"} /\ (socket = "closed" => socket' = "closed")
    BY <1>6 DEF ClosedOrFailed
  <2> QED
    BY <1>1, <1>2, <1>6, <2>1, <2>2, FreeStep DEF ClosedOrFailed
<1>7. ASSUME AppCreatesJoin PROVE OwnInv'
  <2>1. Shape(proto, CreateJoin(proto))
    BY <1>1, <1>3, <1>7, CallShapes DEF AppCreatesJoin, Call
  <2> QED
    BY <1>1, <1>2, <1>7, <2>1, FreeStep DEF AppCreatesJoin, Call
<1>8. ASSUME PeerAnswers PROVE OwnInv'
  <2>1. PICK restart \in BOOLEAN : Call("peer", SendAnswer(proto, restart)) /\ UNCHANGED stops
    BY <1>8 DEF PeerAnswers
  <2>2. Shape(proto, SendAnswer(proto, restart))
    BY <1>1, <1>3, <2>1, CallShapes DEF Call
  <2> QED
    BY <1>1, <1>2, <2>1, <2>2, FreeStep DEF Call
<1>9. ASSUME PeerCandidate PROVE OwnInv'
  <2>1. Shape(proto, SendCandidate(proto))
    BY <1>1, <1>3, <1>9, CallShapes DEF PeerCandidate, Call
  <2> QED
    BY <1>1, <1>2, <1>9, <2>1, FreeStep DEF PeerCandidate, Call
<1>10. ASSUME Watch PROVE OwnInv'
  <2>1. Shape(proto, TransportFailed(proto))
    BY <1>1, TransportFailedShape
  <2> QED
    BY <1>1, <1>2, <1>10, <2>1, FreeStep DEF Watch
<1> QED
  BY <1>4, <1>5, <1>6, <1>7, <1>8, <1>9, <1>10

(* The output of a failed send or of an overflow is replaced by failed()'s. *)
LEMMA FailedStep ==
  ASSUME OwnInv, NEW t \in OwnThreads, RunFailed(t),
         output[t].messages # << >> \/ output[t].overflow,
         events' \in Seq(OwnEventKinds), Len(events') <= OwnMaxEvents,
         UNCHANGED <<socket, silence, shutdown, wire, ends, stops, overflowed>>
  PROVE  OwnInv'
<1> DEFINE r == IF shutdown THEN [p |-> proto, out |-> Nothing] ELSE TransportFailed(proto)
<1>1. Run(t, r) /\ transportOpen' = FALSE
  BY DEF RunFailed
<1>2. proto \in ProtoType
  BY DEF OwnInv, OwnTypes
<1>3. Shape(proto, r) /\ (proto.phase \in Ended => r.p.phase \in Ended)
      /\ (Active(proto) => r.p.phase \in Ended)
  <2>1. CASE shutdown
    <3>1. r.p = proto /\ r.out = Nothing
      BY <2>1
    <3>2. proto.phase \in Ended
      BY <2>1, PhaseFacts DEF OwnInv, OwnEnds
    <3> QED
      BY <1>2, <3>1, <3>2, OutputFacts DEF Shape, Still
  <2>2. CASE ~shutdown
    <3>1. r = TransportFailed(proto)
      BY <2>2
    <3>2. Active(proto) => TransportFailed(proto).p.phase \in Ended
      <4>1. ASSUME Active(proto) PROVE TransportFailed(proto).p.phase = "failed"
        BY <1>2, <4>1, PhaseFacts DEF TransportFailed, Fail, Active, ProtoType
      <4> QED
        BY <4>1 DEF Ended
    <3>3. proto.phase \in Ended => TransportFailed(proto).p = proto
      BY PhaseFacts DEF TransportFailed, Active
    <3> QED
      BY <1>2, <3>1, <3>2, <3>3, TransportFailedShape
  <2> QED
    BY <2>1, <2>2
<1> HIDE DEF r
<1>4. output[t].messages = << >> \/ r.p.phase \in Ended
  <2> SUFFICES ASSUME output[t].messages # << >>, proto.phase \notin Ended, ~Active(proto)
               PROVE  FALSE
    BY <1>3
  <2>1. proto.phase = "idle"
    BY <1>2 DEF ProtoType, Active
  <2>2. output[t].messages \in Seq(1 .. OwnMaxClient)
    BY DEF OwnInv, OwnTypes, OutputType
  <2>3. output[t].messages[1] \in 1 .. OwnMaxClient
    <3> DEFINE list == output[t].messages
    <3>1. list \in Seq(1 .. OwnMaxClient) /\ list # << >>
      BY <2>2
    <3> HIDE DEF list
    <3>2. Len(list) \in Nat /\ Len(list) # 0
      BY <3>1, EmptySeq, LenProperties
    <3>3. 1 \in 1 .. Len(list)
      BY <3>2
    <3>4. list[1] \in 1 .. OwnMaxClient
      BY <3>1, <3>3, ElementOfSeq
    <3> QED
      BY <3>4 DEF list
  <2>4. Held(output[t].messages[1]) /\ output[t].messages[1] \in Nat
    BY <2>3, OwnBounds DEF Held
  <2>5. output[t].messages[1] \in 1 .. 0
    BY <2>1, <2>4 DEF OwnInv, OwnNumbers
  <2> QED
    BY <2>5
<1>5. HasEnd(output[t]) \/ output[t].close => stops # 0 \/ overflowed
  <2>1. output[t].overflow => overflowed
    BY DEF OwnInv, OwnOutputs
  <2>2. (HasEnd(output[t]) \/ output[t].close) /\ stops = 0 => output[t].messages = << >>
    BY DEF OwnInv, OwnOutputs
  <2> QED
    BY <2>1, <2>2
<1>6. output[t].overflow => overflowed
  BY DEF OwnInv, OwnOutputs
<1>7. OwnTypes'
  <2>1. r.p \in ProtoType /\ r.out \in OutputType
    BY <1>3 DEF Shape
  <2>2. proto' \in ProtoType /\ output' \in [OwnThreads -> OutputType]
    BY <1>1, <2>1, RunTypes DEF OwnInv
  <2> QED
    BY <1>1, <2>2 DEF OwnInv, OwnTypes
<1> QED
  BY <1>1, <1>3, <1>4, <1>5, <1>6, <1>7, RunStep

LEMMA StopStep == ASSUME OwnInv, AppStops PROVE OwnInv'
<1> DEFINE t == "app"
           r == Stop(proto)
<1>1. /\ proto \in ProtoType /\ t \in OwnThreads /\ Idle(t) /\ proto.client < OwnMaxClient
      /\ stops = 0 /\ stops' = 1 /\ proto' = r.p /\ output' = [output EXCEPT ![t] = r.out]
      /\ output \in [OwnThreads -> OutputType]
      /\ UNCHANGED <<events, socket, transportOpen, silence, shutdown, wire, ends, overflowed>>
  BY DEF OwnInv, OwnTypes, OwnThreads, AppStops, Call, Free, Room, Run
<1>2. /\ r.p \in ProtoType /\ r.p.phase = "stopped" /\ r.out \in OutputType
      /\ r.out.events = <<"terminal">> /\ ~r.out.overflow /\ Len(r.out.messages) <= 1
  BY <1>1, StopResult
<1> HIDE DEF r, t
<1>3. output'[t] = r.out /\ \A x \in OwnThreads \ {t} : output'[x] = output[x]
  BY <1>1
<1>4. OwnTypes'
  <2>1. stops' \in Nat
    BY <1>1
  <2>2. output' \in [OwnThreads -> OutputType]
    BY <1>1, <1>2
  <2> QED
    BY <1>1, <1>2, <2>1, <2>2 DEF OwnInv, OwnTypes
<1>5. OwnOutputs'
  <2> SUFFICES ASSUME NEW x \in OwnThreads
               PROVE  /\ Len(output'[x].messages) <= 1 /\ Len(output'[x].events) <= 1
                      /\ output'[x].overflow => overflowed
    BY <1>1 DEF OwnOutputs
  <2>1. CASE x = t
    <3>1. Len(r.out.events) <= 1
      BY <1>2
    <3> QED
      BY <1>2, <1>3, <2>1, <3>1
  <2>2. CASE x # t
    BY <1>3, <2>2 DEF OwnInv, OwnOutputs
  <2> QED
    BY <2>1, <2>2
<1>6. OwnNumbers'
  BY <1>1, <1>2, PhaseFacts DEF OwnNumbers
<1>7. OwnEnds'
  <2>1. Ending' \subseteq Ending \cup {t}
    BY <1>3 DEF Ending, HasEnd
  <2>2. Ending \in SUBSET OwnThreads /\ Ending' \in SUBSET OwnThreads
    BY DEF Ending
  <2>3. Ending \cup {t} \in SUBSET OwnThreads
    BY <1>1, <2>2
  <2>4. Cardinality(Ending') <= Cardinality(Ending) + 1 /\ Cardinality(Ending) \in Nat
        /\ Cardinality(Ending') \in Nat
    <3>1. IsFiniteSet(Ending \cup {t}) /\ IsFiniteSet(Ending)
      BY <2>2, <2>3, ThreadSets
    <3>2. Cardinality(Ending') <= Cardinality(Ending \cup {t})
      BY <2>1, <3>1, FS_Subset
    <3>3. Cardinality(Ending \cup {t}) <= Cardinality(Ending) + 1
      <4>1. Cardinality(Ending) \in Nat
        BY <2>2, ThreadSets
      <4>2. CASE t \in Ending
        <5>1. Ending \cup {t} = Ending
          BY <4>2
        <5>2. Cardinality(Ending) <= Cardinality(Ending) + 1
          BY <4>1
        <5> QED
          BY <5>1, <5>2, Zenon
      <4>3. CASE t \notin Ending
        <5>1. Cardinality(Ending \cup {t}) = Cardinality(Ending) + 1
          BY <3>1, <4>3, FS_AddElement
        <5> QED
          BY <4>1, <5>1
      <4> QED
        BY <4>2, <4>3
    <3>4. /\ Cardinality(Ending) \in Nat /\ Cardinality(Ending') \in Nat
          /\ Cardinality(Ending \cup {t}) \in Nat
      BY <2>2, <2>3, ThreadSets
    <3> QED
      BY <3>2, <3>3, <3>4
  <2>5. ends + Cardinality(Ending) <= 1 /\ ends \in Nat
    <3>1. ends + Cardinality(Ending) <= (IF proto.phase \in Ended THEN 1 + stops ELSE 0)
      BY DEF OwnInv, OwnEnds
    <3>2. ends \in Nat
      BY DEF OwnInv, OwnTypes
    <3> QED
      BY <1>1, <2>4, <3>1, <3>2
  <2>6. ends' + Cardinality(Ending') <= 1 + stops'
    <3>1. ends' = ends /\ stops' = 1
      BY <1>1
    <3> QED
      BY <2>4, <2>5, <3>1
  <2>7. proto'.phase = "stopped" /\ proto'.phase \in Ended /\ proto'.phase \notin Failures
    BY <1>1, <1>2, PhaseFacts
  <2>8. stops' # 0
    BY <1>1
  <2> QED
    BY <2>6, <2>7, <2>8 DEF OwnEnds
<1> QED
  BY <1>4, <1>5, <1>6, <1>7 DEF OwnInv

(* A number leaves its thread for the wire. *)
LEMMA SendStep == ASSUME OwnInv, NEW t \in OwnThreads, ApplySend(t) PROVE OwnInv'
<1> DEFINE list == output[t].messages
           h == Head(list)
<1>1. /\ output[t] \in OutputType /\ list \in Seq(1 .. OwnMaxClient) /\ Len(list) <= 1
      /\ list # << >> /\ wire \in Seq(1 .. OwnMaxClient)
      /\ output \in [OwnThreads -> OutputType]
      /\ wire' = Append(wire, h)
      /\ output' = [output EXCEPT ![t].messages = Tail(list)]
      /\ UNCHANGED <<proto, events, socket, transportOpen, silence, shutdown, ends, stops,
                     overflowed>>
  BY DEF OwnInv, OwnTypes, OwnOutputs, OutputType, ApplySend
<1>2. /\ h \in 1 .. OwnMaxClient /\ h = list[1] /\ Tail(list) = << >>
      /\ << >> \in Seq(1 .. OwnMaxClient)
  <2> HIDE DEF list
  <2>1. Len(list) \in Nat /\ Len(list) # 0
    BY <1>1, EmptySeq, LenProperties
  <2>2. Len(list) = 1
    <3>1. \A n \in Nat : n # 0 /\ n <= 1 => n = 1
      OBVIOUS
    <3> QED
      BY <1>1, <2>1, <3>1, Zenon
  <2>3. Head(list) \in 1 .. OwnMaxClient /\ Tail(list) \in Seq(1 .. OwnMaxClient)
        /\ Len(Tail(list)) = Len(list) - 1
    BY <1>1, HeadTailProperties
  <2>4. Len(Tail(list)) = 0
    BY <2>2, <2>3
  <2>5. Tail(list) = << >>
    BY <2>3, <2>4, EmptySeq
  <2>6. Head(list) = list[1]
    BY <1>1
  <2> QED
    BY <2>3, <2>5, <2>6, EmptySeq
<1>3. /\ output'[t].messages = << >> /\ output'[t].events = output[t].events
      /\ output'[t].close = output[t].close /\ output'[t].overflow = output[t].overflow
      /\ output'[t] \in OutputType
      /\ \A x \in OwnThreads \ {t} : output'[x] = output[x]
  <2> HIDE DEF list, h
  <2>1. output' = [output EXCEPT ![t] = [output[t] EXCEPT !.messages = << >>]]
    BY <1>1, <1>2
  <2> QED
    BY <1>1, <1>2, <2>1 DEF OutputType
<1>4. wire' \in Seq(1 .. OwnMaxClient)
      /\ \A k : (\E i \in DOMAIN wire' : wire'[i] = k) <=> (k = h \/ \E i \in DOMAIN wire : wire[i] = k)
  <2> HIDE DEF h, list
  <2>1. /\ wire' \in Seq(1 .. OwnMaxClient) /\ Len(wire') = Len(wire) + 1
        /\ \A i \in 1 .. Len(wire) : wire'[i] = wire[i]
        /\ wire'[Len(wire) + 1] = h
    BY <1>1, <1>2, AppendProperties
  <2>2. /\ DOMAIN wire = 1 .. Len(wire) /\ DOMAIN wire' = 1 .. Len(wire')
        /\ Len(wire) \in Nat
    BY <1>1, <2>1, LenProperties
  <2>3. DOMAIN wire' = DOMAIN wire \cup {Len(wire) + 1}
    BY <2>1, <2>2
  <2> QED
    BY <2>1, <2>2, <2>3
<1> HIDE DEF list
<1>5. OwnTypes'
  <2>1. output' \in [OwnThreads -> OutputType]
    BY <1>1, <1>3
  <2> QED
    BY <1>1, <1>4, <2>1 DEF OwnInv, OwnTypes
<1>6. OwnOutputs'
  <2> SUFFICES ASSUME NEW x \in OwnThreads
               PROVE  /\ Len(output'[x].messages) <= 1 /\ Len(output'[x].events) <= 1
                      /\ output'[x].overflow => overflowed
                      /\ (HasEnd(output'[x]) \/ output'[x].close) /\ stops = 0
                           => output'[x].messages = << >>
    BY <1>1 DEF OwnOutputs, HasEnd
  <2>1. CASE x = t
    <3>1. Len(<< >>) = 0
      BY EmptySeq
    <3>2. Len(output[t].events) <= 1 /\ (output[t].overflow => overflowed)
      BY DEF OwnInv, OwnOutputs
    <3> QED
      BY <1>3, <2>1, <3>1, <3>2
  <2>2. CASE x # t
    BY <1>3, <2>2 DEF OwnInv, OwnOutputs
  <2> QED
    BY <2>1, <2>2
<1>7. OwnNumbers'
  <2>1. ASSUME NEW k \in Nat PROVE Held(k)' <=> Held(k)
    <3> DEFINE Sent == \E i \in DOMAIN wire : wire[i] = k
               Kept(x) == output[x].messages # << >> /\ output[x].messages[1] = k
    <3>1. Kept(t) <=> k = h
      BY <1>1, <1>2 DEF list
    <3>2. Held(k) <=> Sent \/ \E x \in OwnThreads : Kept(x)
      BY DEF Held
    <3>3. Held(k)' <=> (\E i \in DOMAIN wire' : wire'[i] = k) \/ \E x \in OwnThreads : Kept(x)'
      BY DEF Held
    <3>4. ~Kept(t)' /\ \A x \in OwnThreads \ {t} : Kept(x)' <=> Kept(x)
      BY <1>3
    <3>5. (\E i \in DOMAIN wire' : wire'[i] = k) <=> (k = h \/ Sent)
      BY <1>4, Zenon
    <3> HIDE DEF Sent, Kept
    <3> QED
      BY <3>1, <3>2, <3>3, <3>4, <3>5
  <2> QED
    BY <1>1, <2>1 DEF OwnInv, OwnNumbers
<1>8. OwnEnds'
  <2>1. Ending' = Ending
    BY <1>3 DEF Ending, HasEnd
  <2>2. (\E x \in OwnThreads : output[x].close) => \E x \in OwnThreads : output'[x].close
    BY <1>3
  <2> QED
    BY <1>1, <2>1, <2>2 DEF OwnInv, OwnEnds
<1> QED
  BY <1>5, <1>6, <1>7, <1>8 DEF OwnInv

(* The events that fit are queued, a report among them is counted. *)
LEMMA EventsStep == ASSUME OwnInv, NEW t \in OwnThreads, ApplyEvents(t) PROVE OwnInv'
<1> DEFINE o == output[t]
           room == OwnMaxEvents - Len(events)
           pushed == IF Len(o.events) <= room THEN o.events ELSE SubSeq(o.events, 1, room)
           n == Cardinality({i \in DOMAIN pushed : pushed[i] = "terminal"})
<1>1. /\ o \in OutputType /\ o.messages = << >> /\ o.events # << >> /\ o.overflow = FALSE
      /\ events' = events \o pushed /\ ends' = ends + n
      /\ output' = [output EXCEPT ![t] = [o EXCEPT !.events = << >>,
                                                   !.overflow = Len(o.events) > room]]
      /\ overflowed' = (overflowed \/ Len(o.events) > room)
      /\ UNCHANGED <<proto, socket, transportOpen, silence, shutdown, wire, stops>>
      /\ events \in Seq(OwnEventKinds) /\ Len(events) <= OwnMaxEvents
      /\ o.events \in Seq(OwnEventKinds) /\ Len(o.events) <= 1
      /\ output \in [OwnThreads -> OutputType]
  BY DEF OwnInv, OwnTypes, OwnOutputs, OutputType, ApplyEvents
<1>2. Len(events) \in Nat /\ Len(o.events) \in Nat /\ Len(o.events) # 0
  BY <1>1, EmptySeq, LenProperties
<1>3. Len(o.events) = 1 /\ room \in Nat
  <2>1. \A m \in Nat : m # 0 /\ m <= 1 => m = 1
    OBVIOUS
  <2>2. Len(o.events) = 1
    BY <1>1, <1>2, <2>1, Zenon
  <2>3. room \in Nat
    BY <1>1, <1>2, OwnBounds
  <2> QED
    BY <2>2, <2>3
<1>4. (Len(o.events) > room) \in BOOLEAN /\ (Len(o.events) > room <=> room = 0)
  BY <1>3
<1>5. /\ output'[t].messages = << >> /\ output'[t].events = << >>
      /\ output'[t].close = o.close /\ output'[t].overflow = (Len(o.events) > room)
      /\ output'[t] \in OutputType
      /\ \A x \in OwnThreads \ {t} : output'[x] = output[x]
  <2>1. << >> \in Seq(OwnEventKinds)
    BY EmptySeq
  <2> HIDE DEF room
  <2> QED
    BY <1>1, <1>4, <2>1 DEF OutputType
<1>6. /\ events' \in Seq(OwnEventKinds) /\ Len(events') <= OwnMaxEvents
      /\ n = IF HasEnd(o) /\ room # 0 THEN 1 ELSE 0
  <2>1. CASE room = 0
    <3>1. pushed = << >>
      <4>1. ~(Len(o.events) <= room)
        BY <1>3, <2>1
      <4>2. SubSeq(o.events, 1, room) = << >>
        BY <2>1, SubSeqEmpty
      <4> QED
        BY <4>1, <4>2
    <3>2. n = 0
      <4>1. {i \in DOMAIN << >> : << >>[i] = "terminal"} = {}
        OBVIOUS
      <4> QED
        BY <3>1, <4>1, FS_EmptySet
    <3>3. events' = events
      <4>1. events' = events \o << >>
        BY <1>1, <3>1
      <4> QED
        BY <1>1, <4>1, ConcatEmptySeq
    <3> HIDE DEF n, room, pushed
    <3> QED
      BY <1>1, <2>1, <3>2, <3>3
  <2>2. CASE room # 0
    <3>1. pushed = o.events
      BY <1>3, <2>2
    <3>2. events' = events \o o.events
      BY <1>1, <3>1
    <3>3. events' \in Seq(OwnEventKinds) /\ Len(events') = Len(events) + Len(o.events)
      BY <1>1, <3>2, ConcatProperties
    <3>4. Len(events') <= OwnMaxEvents
      BY <1>2, <1>3, <2>2, <3>3, OwnBounds
    <3>5. DOMAIN o.events = {1}
      <4>1. DOMAIN o.events = 1 .. Len(o.events)
        BY <1>1, LenProperties
      <4> QED
        BY <1>3, <4>1
    <3>6. n = IF HasEnd(o) THEN 1 ELSE 0
      <4> DEFINE set == {i \in DOMAIN o.events : o.events[i] = "terminal"}
      <4>1. n = Cardinality(set)
        BY <3>1
      <4>2. CASE HasEnd(o)
        <5>1. set = {1}
          BY <3>5, <4>2 DEF HasEnd
        <5> HIDE DEF set, n
        <5> QED
          BY <4>1, <4>2, <5>1, FS_Singleton
      <4>3. CASE ~HasEnd(o)
        <5>1. set = {}
          BY <4>3 DEF HasEnd
        <5> HIDE DEF set, n
        <5> QED
          BY <4>1, <4>3, <5>1, FS_EmptySet
      <4> QED
        BY <4>2, <4>3
    <3> HIDE DEF n, room, pushed
    <3> QED
      BY <2>2, <3>3, <3>4, <3>6
  <2> QED
    BY <2>1, <2>2
<1> HIDE DEF o, room, pushed, n
<1>7. OwnTypes'
  <2>1. output' \in [OwnThreads -> OutputType]
    BY <1>1, <1>5
  <2>2. ends' \in Nat
    <3>1. n \in Nat
      BY <1>6
    <3>2. ends \in Nat
      BY DEF OwnInv, OwnTypes
    <3> QED
      BY <1>1, <3>1, <3>2
  <2>3. overflowed' \in BOOLEAN
    BY <1>1, <1>4
  <2> QED
    BY <1>1, <1>6, <2>1, <2>2, <2>3 DEF OwnInv, OwnTypes
<1>8. ~HasEnd(output'[t])
  BY <1>5 DEF HasEnd
<1>9. OwnOutputs'
  <2> SUFFICES ASSUME NEW x \in OwnThreads
               PROVE  /\ Len(output'[x].messages) <= 1 /\ Len(output'[x].events) <= 1
                      /\ output'[x].overflow => overflowed'
                      /\ (HasEnd(output'[x]) \/ output'[x].close) /\ stops = 0
                           => output'[x].messages = << >>
    BY <1>1 DEF OwnOutputs, HasEnd
  <2>1. CASE x = t
    <3>1. Len(<< >>) = 0
      BY EmptySeq
    <3>2. Len(output'[t].messages) <= 1 /\ Len(output'[t].events) <= 1
      BY <1>5, <3>1
    <3>3. output'[t].overflow => overflowed'
      BY <1>1, <1>5
    <3> QED
      BY <1>5, <2>1, <3>2, <3>3
  <2>2. CASE x # t
    BY <1>1, <1>5, <2>2 DEF OwnInv, OwnOutputs
  <2> QED
    BY <2>1, <2>2
<1>10. OwnNumbers'
  <2>1. ASSUME NEW k \in Nat PROVE Held(k)' <=> Held(k)
    BY <1>1, <1>5 DEF Held, o
  <2> QED
    BY <1>1, <2>1 DEF OwnInv, OwnNumbers
<1>11. OwnEnds'
  <2>1. Ending' = Ending \ {t}
    BY <1>5, <1>8 DEF Ending, HasEnd
  <2>2. Ending \in SUBSET OwnThreads /\ Ending' \in SUBSET OwnThreads
    BY DEF Ending
  <2>3. /\ Cardinality(Ending) \in Nat /\ Cardinality(Ending') \in Nat /\ IsFiniteSet(Ending)
        /\ ends \in Nat /\ ends' \in Nat /\ stops \in Nat
    BY <1>7, <2>2, ThreadSets DEF OwnInv, OwnTypes
  <2>4. Cardinality(Ending') = IF HasEnd(o) THEN Cardinality(Ending) - 1 ELSE Cardinality(Ending)
    <3>1. CASE HasEnd(o)
      <4>1. t \in Ending
        BY <3>1 DEF Ending, o
      <4>2. Cardinality(Ending \ {t}) = Cardinality(Ending) - 1
        BY <2>3, <4>1, FS_RemoveElement
      <4> QED
        BY <2>1, <3>1, <4>2
    <3>2. CASE ~HasEnd(o)
      <4>1. Ending' = Ending
        BY <2>1, <3>2 DEF Ending, o
      <4> QED
        BY <3>2, <4>1
    <3> QED
      BY <3>1, <3>2
  <2>5. /\ ends' + Cardinality(Ending') <= ends + Cardinality(Ending)
        /\ room # 0 => ends' + Cardinality(Ending') = ends + Cardinality(Ending)
    <3>1. ends' = ends + n
      BY <1>1
    <3>2. CASE HasEnd(o) /\ room # 0
      <4>1. n = 1 /\ Cardinality(Ending') = Cardinality(Ending) - 1
        BY <1>6, <2>4, <3>2
      <4> QED
        BY <2>3, <3>1, <4>1
    <3>3. CASE HasEnd(o) /\ room = 0
      <4>1. n = 0 /\ Cardinality(Ending') = Cardinality(Ending) - 1
        BY <1>6, <2>4, <3>3
      <4> QED
        BY <2>3, <3>1, <3>3, <4>1
    <3>4. CASE ~HasEnd(o)
      <4>1. n = 0 /\ Cardinality(Ending') = Cardinality(Ending)
        BY <1>6, <2>4, <3>4
      <4> QED
        BY <2>3, <3>1, <4>1
    <3> QED
      BY <3>2, <3>3, <3>4
  <2>6. ends' + Cardinality(Ending') <= (IF proto.phase \in Ended THEN 1 + stops ELSE 0)
    <3>1. ends + Cardinality(Ending) <= (IF proto.phase \in Ended THEN 1 + stops ELSE 0)
      BY DEF OwnInv, OwnEnds
    <3> QED
      BY <2>3, <2>5, <3>1
  <2>7. ASSUME proto.phase \in Failures, ~overflowed'
        PROVE  /\ ends' + Cardinality(Ending') >= 1
               /\ socket = "closed" \/ \E x \in OwnThreads : output'[x].close
    <3>1. ~overflowed /\ room # 0
      BY <1>1, <1>4, <2>7
    <3>2. /\ ends + Cardinality(Ending) >= 1
          /\ socket = "closed" \/ \E x \in OwnThreads : output[x].close
      BY <2>7, <3>1 DEF OwnInv, OwnEnds
    <3>3. (\E x \in OwnThreads : output[x].close) => \E x \in OwnThreads : output'[x].close
      BY <1>5 DEF o
    <3> QED
      BY <2>3, <2>5, <3>1, <3>2, <3>3
  <2> QED
    BY <1>1, <2>6, <2>7 DEF OwnInv, OwnEnds
<1> QED
  BY <1>7, <1>9, <1>10, <1>11 DEF OwnInv

LEMMA CloseStep == ASSUME OwnInv, NEW t \in OwnThreads, ApplyClose(t) PROVE OwnInv'
<1>1. /\ output[t].events = << >> /\ output[t].messages = << >>
      /\ output' = [output EXCEPT ![t] = Nothing] /\ socket' = "closed"
      /\ UNCHANGED <<proto, events, transportOpen, silence, shutdown, wire, ends, stops,
                     overflowed>>
      /\ output \in [OwnThreads -> OutputType]
  BY DEF ApplyClose, Output, OwnInv, OwnTypes
<1>2. output'[t] = Nothing /\ \A x \in OwnThreads \ {t} : output'[x] = output[x]
  BY <1>1
<1>3. OwnTypes'
  BY <1>1, OutputFacts DEF OwnInv, OwnTypes
<1>4. OwnOutputs'
  <2> SUFFICES ASSUME NEW x \in OwnThreads
               PROVE  /\ Len(output'[x].messages) <= 1 /\ Len(output'[x].events) <= 1
                      /\ output'[x].overflow => overflowed
                      /\ (HasEnd(output'[x]) \/ output'[x].close) /\ stops = 0
                           => output'[x].messages = << >>
    BY <1>1 DEF OwnOutputs, HasEnd
  <2>1. CASE x = t
    <3>1. Len(<< >>) = 0
      BY EmptySeq
    <3> QED
      BY <1>2, <2>1, <3>1, OutputFacts
  <2>2. CASE x # t
    BY <1>2, <2>2 DEF OwnInv, OwnOutputs
  <2> QED
    BY <2>1, <2>2
<1>5. OwnNumbers'
  <2>1. ASSUME NEW k \in Nat PROVE Held(k)' <=> Held(k)
    BY <1>1, <1>2, OutputFacts DEF Held
  <2> QED
    BY <1>1, <2>1 DEF OwnInv, OwnNumbers
<1>6. OwnEnds'
  <2>1. Ending' = Ending
    BY <1>1, <1>2, OutputFacts DEF Ending, HasEnd
  <2> QED
    BY <1>1, <2>1 DEF OwnInv, OwnEnds
<1> QED
  BY <1>3, <1>4, <1>5, <1>6 DEF OwnInv

(* The steps that leave the protocol and what the threads hold as they are. *)
LEMMA OtherSteps ==
  ASSUME OwnInv, Start \/ WaitForEvent \/ Passes \/ Destroy \/ UNCHANGED ownVars
  PROVE  OwnInv'
<1>1. /\ UNCHANGED <<proto, output, wire, ends, stops, overflowed>>
      /\ socket = "closed" => socket' = "closed"
      /\ shutdown' => stops # 0
      /\ socket' \in {"new", "connecting", "open", "closed"}
      /\ transportOpen' \in BOOLEAN /\ shutdown' \in BOOLEAN
  <2>1. /\ socket \in {"new", "connecting", "open", "closed"} /\ stops \in Nat
        /\ transportOpen \in BOOLEAN /\ shutdown \in BOOLEAN
        /\ shutdown => stops # 0
    BY DEF OwnInv, OwnTypes, OwnEnds
  <2>2. CASE Start
    BY <2>1, <2>2 DEF Start
  <2>3. CASE Destroy
    <3>1. stops # 0
      BY <2>1, <2>3 DEF Destroy
    <3> QED
      BY <2>1, <2>3, <3>1 DEF Destroy
  <2>4. CASE WaitForEvent \/ Passes \/ UNCHANGED ownVars
    BY <2>1, <2>4 DEF WaitForEvent, Passes, ownVars
  <2> QED
    BY <2>2, <2>3, <2>4
<1>2. silence' \in 0 .. OwnTimeout
  <2>1. silence \in 0 .. OwnTimeout
    BY DEF OwnInv, OwnTypes
  <2>2. CASE Passes
    BY <2>1, <2>2, OwnBounds DEF Passes
  <2>3. CASE ~Passes
    BY <2>1, <2>3 DEF Start, WaitForEvent, Destroy, ownVars
  <2> QED
    BY <2>2, <2>3
<1>3. events' \in Seq(OwnEventKinds) /\ Len(events') <= OwnMaxEvents
  <2>1. events \in Seq(OwnEventKinds) /\ Len(events) <= OwnMaxEvents
    BY DEF OwnInv, OwnTypes
  <2>2. CASE WaitForEvent
    <3>1. events' = Tail(events) /\ events # << >>
      BY <2>2 DEF WaitForEvent
    <3>2. Tail(events) \in Seq(OwnEventKinds) /\ Len(Tail(events)) = Len(events) - 1
      BY <2>1, <3>1, HeadTailProperties
    <3>3. Len(events) \in Nat
      BY <2>1, LenProperties
    <3> QED
      BY <2>1, <3>1, <3>2, <3>3, OwnBounds
  <2>3. CASE ~WaitForEvent
    <3>1. events' = events
      BY <2>3 DEF Start, Passes, Destroy, ownVars
    <3> QED
      BY <2>1, <3>1
  <2> QED
    BY <2>2, <2>3
<1>4. OwnTypes'
  BY <1>1, <1>2, <1>3 DEF OwnInv, OwnTypes
<1>5. OwnOutputs'
  BY <1>1 DEF OwnInv, OwnOutputs, HasEnd
<1>6. OwnNumbers'
  <2>1. \A k \in Nat : Held(k)' <=> Held(k)
    BY <1>1 DEF Held
  <2> QED
    BY <1>1, <2>1 DEF OwnInv, OwnNumbers
<1>7. OwnEnds'
  <2>1. Ending' = Ending
    BY <1>1 DEF Ending, HasEnd
  <2> QED
    BY <1>1, <2>1 DEF OwnInv, OwnEnds
<1> QED
  BY <1>4, <1>5, <1>6, <1>7 DEF OwnInv

LEMMA ApplyStep == ASSUME OwnInv, NEW t \in OwnThreads, Apply(t) PROVE OwnInv'
<1>1. events \in Seq(OwnEventKinds) /\ Len(events) <= OwnMaxEvents
      /\ << >> \in Seq(OwnEventKinds) /\ Len(<< >>) <= OwnMaxEvents
  <2>1. << >> \in Seq(OwnEventKinds) /\ Len(<< >>) = 0
    BY EmptySeq
  <2>2. 0 <= OwnMaxEvents
    BY OwnBounds
  <2> QED
    BY <2>1, <2>2 DEF OwnInv, OwnTypes
<1>2. CASE ApplySend(t)
  BY <1>2, SendStep
<1>3. CASE ApplySendFails(t)
  BY <1>1, <1>3, FailedStep DEF ApplySendFails
<1>4. CASE ApplyEvents(t)
  BY <1>4, EventsStep
<1>5. CASE ApplyOverflow(t)
  BY <1>1, <1>5, FailedStep DEF ApplyOverflow
<1>6. CASE ApplyClose(t)
  BY <1>6, CloseStep
<1> QED
  BY <1>2, <1>3, <1>4, <1>5, <1>6 DEF Apply

LEMMA OwnStarts == OwnInit => OwnInv
<1> SUFFICES ASSUME OwnInit PROVE OwnInv
  OBVIOUS
<1>1. /\ << >> \in Seq(OwnEventKinds) /\ Len(<< >>) = 0 /\ << >> \in Seq(1 .. OwnMaxClient)
      /\ DOMAIN << >> = {}
  BY EmptySeq
<1>2. /\ proto \in ProtoType /\ proto.phase = "idle" /\ proto.client = 0
      /\ "idle" \notin Ended /\ "idle" \notin Failures
  <2>1. 0 \in 0 .. OwnMaxClient
    BY OwnBounds
  <2> QED
    BY <2>1 DEF OwnInit, ProtoType, Ended, Failures
<1>3. output \in [OwnThreads -> OutputType] /\ \A t \in OwnThreads : output[t] = Nothing
  BY OutputFacts DEF OwnInit
<1>4. OwnTypes
  <2>1. 0 \in 0 .. OwnTimeout /\ 0 <= OwnMaxEvents
    BY OwnBounds
  <2> QED
    BY <1>1, <1>2, <1>3, <2>1 DEF OwnInit, OwnTypes
<1>5. OwnOutputs
  BY <1>1, <1>3, OutputFacts DEF OwnOutputs, HasEnd
<1>6. OwnNumbers
  <2>1. \A k \in Nat : ~Held(k) /\ k \notin 1 .. 0
    BY <1>1, <1>3, OutputFacts DEF OwnInit, Held
  <2> QED
    BY <1>2, <2>1 DEF OwnNumbers
<1>7. OwnEnds
  <2>1. Ending = {}
    BY <1>1, <1>3, OutputFacts DEF Ending, HasEnd
  <2>2. ends + Cardinality(Ending) <= 0
    BY <2>1, FS_EmptySet DEF OwnInit
  <2> QED
    BY <1>2, <2>2 DEF OwnInit, OwnEnds
<1> QED
  BY <1>4, <1>5, <1>6, <1>7 DEF OwnInv

LEMMA OwnSettles == OwnInv => OwnNothingLost
<1> SUFFICES ASSUME OwnInv PROVE OwnNothingLost
  OBVIOUS
<1>1. OwnTypeOK
  BY DEF OwnInv, OwnTypes, OwnTypeOK, ProtoType, OutputType
<1>2. Ending \in SUBSET OwnThreads /\ Cardinality(Ending) \in Nat /\ ends \in Nat /\ stops \in Nat
  <2>1. Ending \in SUBSET OwnThreads
    BY DEF Ending
  <2> QED
    BY <2>1, ThreadSets DEF OwnInv, OwnTypes
<1>3. ends + Cardinality(Ending) <= (IF proto.phase \in Ended THEN 1 + stops ELSE 0)
  BY DEF OwnInv, OwnEnds
<1>4. ends <= 1 + stops
  BY <1>2, <1>3
<1>5. ASSUME \A t \in OwnThreads : Idle(t), ~overflowed
      PROVE  /\ Active(proto) => ToSet(wire) = 1 .. proto.client
             /\ proto.phase \in Failures => ends = 1 /\ socket = "closed"
  <2>1. \A t \in OwnThreads : output[t].messages = << >> /\ ~output[t].close /\ ~HasEnd(output[t])
    BY <1>5, IdleFacts
  <2>2. ASSUME Active(proto) PROVE ToSet(wire) = 1 .. proto.client
    <3>1. proto.phase \notin Ended
      BY <2>2, PhaseFacts DEF Active
    <3>2. wire \in Seq(1 .. OwnMaxClient) /\ proto.client \in Nat
      BY OwnBounds DEF OwnInv, OwnTypes, ProtoType
    <3>3. \A k \in Nat : (\E i \in DOMAIN wire : wire[i] = k) <=> k \in 1 .. proto.client
      BY <2>1, <3>1 DEF OwnInv, OwnNumbers, Held
    <3>4. \A i \in DOMAIN wire : wire[i] \in Nat
      <4>1. DOMAIN wire = 1 .. Len(wire) /\ \A i \in 1 .. Len(wire) : wire[i] \in 1 .. OwnMaxClient
        BY <3>2, LenProperties, ElementOfSeq
      <4> QED
        BY <4>1, OwnBounds
    <3>5. ToSet(wire) = {wire[i] : i \in DOMAIN wire}
      BY DEF ToSet
    <3> QED
      BY <3>2, <3>3, <3>4, <3>5
  <2>3. ASSUME proto.phase \in Failures PROVE ends = 1 /\ socket = "closed"
    <3>1. Ending = {}
      BY <2>1 DEF Ending
    <3>2. Cardinality(Ending) = 0
      BY <3>1, FS_EmptySet
    <3>3. stops = 0 /\ proto.phase \in Ended
      BY <2>3, PhaseFacts DEF OwnInv, OwnEnds
    <3>4. ends + Cardinality(Ending) >= 1 /\ socket = "closed"
      BY <1>5, <2>1, <2>3 DEF OwnInv, OwnEnds
    <3> QED
      BY <1>2, <1>3, <3>2, <3>3, <3>4
  <2> QED
    BY <2>2, <2>3
<1> QED
  BY <1>1, <1>4, <1>5 DEF OwnNothingLost, Failures

(* Once the threads have applied what they hold, an active session has put *)
(* every number it gave out on the wire, and one that ended without stop   *)
(* has been reported once and its transport closed, whatever the sizes and *)
(* whether the session asks for its join itself.                           *)
THEOREM NothingIsLost == OwnSpec => []OwnNothingLost
<1>1. OwnInit => OwnInv
  BY OwnStarts
<1>2. OwnInv /\ [OwnNext]_ownVars => OwnInv'
  <2> SUFFICES ASSUME OwnInv, [OwnNext]_ownVars PROVE OwnInv'
    OBVIOUS
  <2>1. CASE Opened \/ ClosedOrFailed \/ AppCreatesJoin \/ PeerAnswers \/ PeerCandidate \/ Watch
    BY <2>1, OwnCalls
  <2>2. CASE \E type \in ServerMessages : Received(type)
    BY <2>2, OwnCalls
  <2>3. CASE AppStops
    BY <2>3, StopStep
  <2>4. CASE \E t \in OwnThreads : Apply(t)
    BY <2>4, ApplyStep
  <2>5. CASE Start \/ WaitForEvent \/ Passes \/ Destroy \/ UNCHANGED ownVars
    BY <2>5, OtherSteps
  <2> QED
    BY <2>1, <2>2, <2>3, <2>4, <2>5 DEF OwnNext
<1>3. OwnInv => OwnNothingLost
  BY OwnSettles
<1> QED
  BY <1>1, <1>2, <1>3, PTL DEF OwnSpec

-----------------------------------------------------------------------------
(* The control session: ControlSession.                                    *)

Transitions == {"SESSION_PAUSED", "SESSION_RESUMED", "SESSION_ENDED"}

DownTypes == Transitions \cup {"HELLO", "CLOCK_REQUEST", "PROTOCOL_ERROR"}

DownMessages == [seq : 1 .. CtlMaxSend, type : DownTypes, ref : Nat]

UpTypes == {"CLOCK_RESPONSE", "RECEIVER_STATS", "SESSION_PAUSED_ACK", "SESSION_RESUMED_ACK",
            "SESSION_ENDED_ACK", "BAD"}

UpMessages == [type : UpTypes, ref : 0 .. CtlMaxSend]

CtlType ==
  [phase : CtlPhases, send : 0 .. CtlMaxSend, recv : 0 .. CtlMaxUp, media : Nat,
   pending : 0 .. CtlMaxSend, clocks : SUBSET (1 .. CtlMaxSend), asked : 0 .. CtlBurst]

RcvType ==
  [recv : 0 .. CtlMaxSend, sent : 0 .. CtlMaxUp, paused : BOOLEAN, ended : BOOLEAN,
   confused : BOOLEAN]

CtlTypes ==
  /\ ctl \in CtlType /\ rcv \in RcvType
  /\ down \in Seq(DownMessages) /\ up \in Seq(UpMessages)

(* The channels: to a receiver that has not ended they carry the numbers   *)
(* it has not met yet, and it acknowledges only what it has met.           *)
CtlChannels ==
  /\ rcv.recv <= ctl.send /\ ctl.pending <= ctl.send
  /\ Len(down) <= ctl.send - rcv.recv
  /\ ~rcv.ended => Len(down) = ctl.send - rcv.recv
  /\ ~rcv.ended => \A i \in DOMAIN down : down[i].seq = rcv.recv + i
  /\ ctl.recv + Len(up) <= rcv.sent
  /\ \A i \in DOMAIN up : up[i].ref <= rcv.recv

(* A transition that is still on its way is under its number, alone.       *)
Settled == \A i \in DOMAIN down : down[i].type \notin Transitions

Coming(type) ==
  /\ \A i \in DOMAIN down : down[i].type \in Transitions =>
       down[i].seq = ctl.pending /\ down[i].type = type
  /\ ~rcv.ended => down[ctl.pending - rcv.recv].type = type

CtlEnds ==
  /\ ctl.phase \in {"idle", "connected"} => ~rcv.paused /\ Settled
  /\ ctl.phase = "paused" => rcv.paused /\ Settled
  /\ ctl.phase = "pause_pending" =>
       IF ctl.pending <= rcv.recv THEN rcv.paused /\ Settled ELSE Coming("SESSION_PAUSED")
  /\ ctl.phase = "resume_pending" =>
       IF ctl.pending <= rcv.recv THEN ~rcv.paused /\ Settled ELSE Coming("SESSION_RESUMED")
  /\ ctl.phase = "end_pending" =>
       /\ ctl.pending = ctl.send
       /\ ctl.pending <= rcv.recv => rcv.ended
       /\ ctl.pending > rcv.recv /\ ~rcv.ended =>
            down[ctl.pending - rcv.recv].type = "SESSION_ENDED"
  /\ ctl.phase = "ended" => rcv.ended /\ rcv.recv = ctl.send

CtlInv == CtlTypes /\ CtlChannels /\ CtlEnds

LEMMA CtlBounds ==
  /\ CtlBurst \in Nat /\ CtlMaxClocks \in Nat /\ CtlMaxSend \in Nat \ {0} /\ CtlMaxUp \in Nat
BY CtlAssumption

LEMMA CtlInvInit == CtlInit => CtlInv
<1> SUFFICES ASSUME CtlInit PROVE CtlInv
  OBVIOUS
<1>1. /\ << >> \in Seq(DownMessages) /\ << >> \in Seq(UpMessages) /\ Len(<< >>) = 0
      /\ DOMAIN << >> = {}
  BY EmptySeq
<1>2. CtlTypes
  BY <1>1, CtlBounds DEF CtlInit, CtlTypes, CtlType, RcvType, CtlPhases
<1>3. CtlChannels /\ CtlEnds
  BY <1>1 DEF CtlInit, CtlChannels, CtlEnds, Settled
<1> QED
  BY <1>2, <1>3 DEF CtlInv

(* What a failure and a call that does nothing leave of the ends.          *)
LEMMA EndsStay ==
  ASSUME CtlEnds, UNCHANGED <<rcv, down>>,
         \/ ctl'.phase = "failed"
         \/ ctl'.phase = ctl.phase /\ ctl'.pending = ctl.pending /\ ctl'.send = ctl.send
  PROVE  CtlEnds'
<1>1. CASE ctl'.phase = "failed"
  BY <1>1 DEF CtlEnds
<1>2. CASE ctl'.phase = ctl.phase /\ ctl'.pending = ctl.pending /\ ctl'.send = ctl.send
  BY <1>2 DEF CtlEnds, Settled, Coming
<1> QED
  BY <1>1, <1>2

LEMMA FailResult ==
  ASSUME NEW c \in CtlType
  PROVE  /\ CtlFail(c).messages = << >> /\ CtlFail(c).c \in CtlType
         /\ CtlFail(c).c.send = c.send /\ CtlFail(c).c.recv = c.recv
         /\ \/ CtlFail(c).c.phase = "failed" /\ CtlFail(c).c.pending = 0
            \/ CtlFail(c).c = c
<1>1. CASE c.phase \in {"failed", "ended"}
  <2>1. CtlFail(c) = Result(c, << >>, "none", FALSE, FALSE)
    BY <1>1 DEF CtlFail
  <2> QED
    BY <2>1 DEF Result
<1>2. CASE c.phase \notin {"failed", "ended"}
  <2> DEFINE d == ClearPending([c EXCEPT !.phase = "failed"])
  <2>1. d \in CtlType /\ d.send = c.send /\ d.recv = c.recv /\ d.phase = "failed" /\ d.pending = 0
    <3>1. d = [c EXCEPT !.phase = "failed", !.pending = 0, !.clocks = {}]
      BY DEF ClearPending, CtlType
    <3>2. 0 \in 0 .. CtlMaxSend /\ {} \in SUBSET (1 .. CtlMaxSend) /\ "failed" \in CtlPhases
      BY CtlBounds DEF CtlPhases
    <3> HIDE DEF d
    <3> QED
      BY <3>1, <3>2 DEF CtlType
  <2>2. CtlFail(c) = Result(d, << >>, "terminal", FALSE, TRUE)
    BY <1>2 DEF CtlFail
  <2> HIDE DEF d
  <2> QED
    BY <2>1, <2>2 DEF Result
<1> QED
  BY <1>1, <1>2

(* A call that sends nothing. *)
LEMMA QuietDrive ==
  ASSUME CtlInv, NEW r, Drive(r), r.messages = << >>, r.c \in CtlType, r.c.send = ctl.send,
         r.c.recv = ctl.recv,
         \/ r.c.phase = "failed" /\ r.c.pending = 0
         \/ r.c.phase = ctl.phase /\ r.c.pending = ctl.pending
  PROVE  CtlInv'
<1>1. down' = down /\ ctl' = r.c /\ UNCHANGED <<rcv, up>>
  BY ConcatEmptySeq DEF Drive, CtlInv, CtlTypes
<1>2. CtlTypes'
  BY <1>1 DEF CtlInv, CtlTypes
<1>3. CtlChannels'
  BY <1>1 DEF CtlInv, CtlChannels, CtlTypes, CtlType
<1>4. CtlEnds'
  BY <1>1, EndsStay DEF CtlInv
<1> QED
  BY <1>2, <1>3, <1>4 DEF CtlInv

LEMMA FailingDrive ==
  ASSUME CtlInv, NEW r, Drive(r), r = CtlFail(ctl)
  PROVE  CtlInv'
<1>1. ctl \in CtlType
  BY DEF CtlInv, CtlTypes
<1> QED
  BY <1>1, FailResult, QuietDrive

(* A message is sent: it is the last on its way, under the next number.    *)
LEMMA SendingDrive ==
  ASSUME CtlInv, ctl.send < CtlMaxSend, NEW r, Drive(r), NEW m \in DownMessages,
         m.seq = ctl.send + 1, r.messages = <<m>>, r.c \in CtlType,
         r.c.send = ctl.send + 1, r.c.recv = ctl.recv, r.c.pending <= ctl.send + 1
  PROVE  /\ CtlTypes' /\ CtlChannels' /\ ctl' = r.c /\ rcv' = rcv
         /\ DOMAIN down = 1 .. Len(down) /\ Len(down) \in Nat
         /\ DOMAIN down' = 1 .. Len(down) + 1 /\ down'[Len(down) + 1] = m
         /\ \A i \in 1 .. Len(down) : down'[i] = down[i]
<1>1. ctl' = r.c /\ UNCHANGED <<rcv, up>> /\ down' = down \o <<m>>
  BY DEF Drive
<1>2. ctl \in CtlType /\ rcv \in RcvType /\ down \in Seq(DownMessages) /\ up \in Seq(UpMessages)
  BY DEF CtlInv, CtlTypes
<1>3. down' = Append(down, m)
  BY <1>1, <1>2, AppendIsConcat
<1>4. /\ down' \in Seq(DownMessages) /\ Len(down') = Len(down) + 1
      /\ \A i \in 1 .. Len(down) : down'[i] = down[i]
      /\ down'[Len(down) + 1] = m
  BY <1>2, <1>3, AppendProperties
<1>5. /\ Len(down) \in Nat /\ DOMAIN down = 1 .. Len(down)
      /\ DOMAIN down' = 1 .. Len(down')
  BY <1>2, <1>4, LenProperties
<1>6. CtlTypes'
  BY <1>1, <1>2, <1>4 DEF CtlTypes
<1>7. CtlChannels'
  <2>1. /\ ctl.send \in Nat /\ ctl.recv \in Nat /\ rcv.recv \in Nat /\ rcv.sent \in Nat
        /\ r.c.pending \in Nat
    BY <1>2 DEF CtlType, RcvType
  <2>2. ctl'.send = ctl.send + 1 /\ ctl'.recv = ctl.recv /\ ctl'.pending <= ctl.send + 1
    BY <1>1
  <2>3. /\ rcv.recv <= ctl.send /\ Len(down) <= ctl.send - rcv.recv
        /\ ~rcv.ended => Len(down) = ctl.send - rcv.recv
        /\ ~rcv.ended => \A i \in DOMAIN down : down[i].seq = rcv.recv + i
        /\ ctl.recv + Len(up) <= rcv.sent
        /\ \A i \in DOMAIN up : up[i].ref <= rcv.recv
    BY DEF CtlInv, CtlChannels
  <2>4. ~rcv.ended => \A i \in DOMAIN down' : down'[i].seq = rcv.recv + i
    <3> SUFFICES ASSUME ~rcv.ended, NEW i \in DOMAIN down' PROVE down'[i].seq = rcv.recv + i
      OBVIOUS
    <3>1. CASE i \in 1 .. Len(down)
      BY <3>1, <2>3, <1>4, <1>5
    <3>2. CASE i = Len(down) + 1
      <4>1. down'[i].seq = ctl.send + 1
        BY <3>2, <1>4
      <4>2. Len(down) = ctl.send - rcv.recv
        BY <2>3
      <4> QED
        BY <4>1, <4>2, <3>2, <2>1
    <3> QED
      BY <3>1, <3>2, <1>4, <1>5
  <2>5. /\ rcv'.recv <= ctl'.send /\ ctl'.pending <= ctl'.send
        /\ Len(down') <= ctl'.send - rcv'.recv
        /\ ~rcv'.ended => Len(down') = ctl'.send - rcv'.recv
    BY <1>1, <1>4, <1>5, <2>1, <2>2, <2>3
  <2>6. ctl'.recv + Len(up') <= rcv'.sent /\ \A i \in DOMAIN up' : up'[i].ref <= rcv'.recv
    BY <1>1, <2>2, <2>3
  <2>7. ~rcv'.ended => \A i \in DOMAIN down' : down'[i].seq = rcv'.recv + i
    BY <1>1, <2>4
  <2> QED
    BY <2>5, <2>6, <2>7 DEF CtlChannels
<1> QED
  BY <1>1, <1>4, <1>5, <1>6, <1>7

LEMMA SendResult ==
  ASSUME NEW c \in CtlType, c.send < CtlMaxSend, NEW type \in DownTypes, NEW ref \in Nat
  PROVE  /\ CtlSend(c, type, ref).c = [c EXCEPT !.send = c.send + 1]
         /\ CtlSend(c, type, ref).c \in CtlType
         /\ CtlSend(c, type, ref).messages = <<CtlMessage(c, type, ref)>>
         /\ CtlMessage(c, type, ref) \in DownMessages
         /\ CtlMessage(c, type, ref).seq = c.send + 1
         /\ CtlMessage(c, type, ref).type = type
<1>1. CtlSend(c, type, ref) = Result([c EXCEPT !.send = c.send + 1],
                                     <<CtlMessage(c, type, ref)>>, "none", TRUE, FALSE)
  BY DEF CtlSend
<1>2. c.send + 1 \in 1 .. CtlMaxSend /\ c.send + 1 \in 0 .. CtlMaxSend
  BY CtlBounds DEF CtlType
<1>3. [c EXCEPT !.send = c.send + 1] \in CtlType
  BY <1>2 DEF CtlType
<1>4. CtlMessage(c, type, ref) \in DownMessages
  BY <1>2 DEF CtlMessage, DownMessages
<1> QED
  BY <1>1, <1>3, <1>4 DEF Result, CtlMessage

LEMMA BeginKeeps == ASSUME CtlInv, DriveBegin PROVE CtlInv'
<1> DEFINE c == [ctl EXCEPT !.phase = "connected", !.media = 1]
           r == CtlBegin(ctl, 1)
<1>1. ctl \in CtlType /\ ctl.phase = "idle" /\ ctl.send < CtlMaxSend /\ Drive(r)
  BY DEF DriveBegin, Able, CtlInv, CtlTypes
<1>2. c \in CtlType /\ c.send = ctl.send /\ c.recv = ctl.recv /\ c.pending = ctl.pending
      /\ c.phase = "connected"
  BY <1>1 DEF CtlType, CtlPhases
<1>3. r = CtlSend(c, "HELLO", 1)
  BY <1>1 DEF CtlBegin
<1> HIDE DEF c, r
<1> DEFINE m == CtlMessage(c, "HELLO", 1)
<1>4. /\ r.c = [c EXCEPT !.send = c.send + 1] /\ r.c \in CtlType /\ r.messages = <<m>>
      /\ m \in DownMessages /\ m.seq = c.send + 1 /\ m.type = "HELLO"
  <2>1. c \in CtlType /\ c.send < CtlMaxSend /\ "HELLO" \in DownTypes /\ 1 \in Nat
    BY <1>1, <1>2 DEF DownTypes
  <2> QED
    BY <1>3, <2>1, SendResult
<1>5. r.c.send = ctl.send + 1 /\ r.c.recv = ctl.recv /\ r.c.pending = ctl.pending
      /\ r.c.phase = "connected"
  BY <1>2, <1>4 DEF CtlType
<1>6. r.c.pending <= ctl.send + 1
  BY <1>1, <1>5 DEF CtlInv, CtlChannels, CtlType
<1> HIDE DEF m
<1>7. /\ CtlTypes' /\ CtlChannels' /\ ctl' = r.c /\ rcv' = rcv
      /\ DOMAIN down = 1 .. Len(down) /\ Len(down) \in Nat
      /\ DOMAIN down' = 1 .. Len(down) + 1 /\ down'[Len(down) + 1] = m
      /\ \A i \in 1 .. Len(down) : down'[i] = down[i]
  BY <1>1, <1>2, <1>4, <1>5, <1>6, SendingDrive
<1>8. ~rcv.paused /\ Settled
  BY <1>1 DEF CtlInv, CtlEnds
<1>9. Settled'
  BY <1>4, <1>7, <1>8 DEF Settled, Transitions
<1>10. CtlEnds'
  BY <1>5, <1>7, <1>8, <1>9 DEF CtlEnds
<1> QED
  BY <1>7, <1>10 DEF CtlInv

LEMMA ClockKeeps == ASSUME CtlInv, DriveClock PROVE CtlInv'
<1>1. PICK due \in BOOLEAN : Drive(RequestClock(ctl, due))
  BY DEF DriveClock
<1> DEFINE r == RequestClock(ctl, due)
           c == [ctl EXCEPT !.clocks = ctl.clocks \cup {ctl.send + 1},
                            !.asked = IF ctl.asked < CtlBurst THEN ctl.asked + 1 ELSE CtlBurst]
<1>2. ctl \in CtlType /\ ctl.phase = "connected" /\ ctl.send < CtlMaxSend /\ Drive(r)
  BY <1>1 DEF DriveClock, Able, CtlInv, CtlTypes
<1>3. \/ r = Result(ctl, << >>, "none", TRUE, FALSE)
      \/ r = CtlFail(ctl)
      \/ r = CtlSend(c, "CLOCK_REQUEST", 0)
  BY <1>2 DEF RequestClock
<1>4. CASE r = Result(ctl, << >>, "none", TRUE, FALSE)
  <2>1. r.messages = << >> /\ r.c = ctl
    BY <1>4 DEF Result
  <2> HIDE DEF r
  <2> QED
    BY <2>1, <1>2, QuietDrive
<1>5. CASE r = CtlFail(ctl)
  BY <1>2, <1>5, FailingDrive
<1>6. CASE r = CtlSend(c, "CLOCK_REQUEST", 0)
  <2>1. c \in CtlType /\ c.send = ctl.send /\ c.recv = ctl.recv /\ c.pending = ctl.pending
        /\ c.phase = "connected"
    <3>1. ctl.clocks \cup {ctl.send + 1} \in SUBSET (1 .. CtlMaxSend)
      BY <1>2, CtlBounds DEF CtlType
    <3>2. (IF ctl.asked < CtlBurst THEN ctl.asked + 1 ELSE CtlBurst) \in 0 .. CtlBurst
      BY <1>2, CtlBounds DEF CtlType
    <3> QED
      BY <1>2, <3>1, <3>2 DEF CtlType
  <2> HIDE DEF c, r
  <2> DEFINE m == CtlMessage(c, "CLOCK_REQUEST", 0)
  <2>2. /\ r.c = [c EXCEPT !.send = c.send + 1] /\ r.c \in CtlType /\ r.messages = <<m>>
        /\ m \in DownMessages /\ m.seq = c.send + 1 /\ m.type = "CLOCK_REQUEST"
    BY <1>2, <1>6, <2>1, SendResult DEF DownTypes
  <2>3. r.c.send = ctl.send + 1 /\ r.c.recv = ctl.recv /\ r.c.pending = ctl.pending
        /\ r.c.phase = "connected"
    BY <2>1, <2>2 DEF CtlType
  <2>4. r.c.pending <= ctl.send + 1
    BY <1>2, <2>3 DEF CtlInv, CtlChannels, CtlType
  <2> HIDE DEF m
  <2>5. /\ CtlTypes' /\ CtlChannels' /\ ctl' = r.c /\ rcv' = rcv
        /\ DOMAIN down = 1 .. Len(down) /\ Len(down) \in Nat
        /\ DOMAIN down' = 1 .. Len(down) + 1 /\ down'[Len(down) + 1] = m
        /\ \A i \in 1 .. Len(down) : down'[i] = down[i]
    BY <1>2, <2>1, <2>2, <2>3, <2>4, SendingDrive
  <2>6. ~rcv.paused /\ Settled
    BY <1>2 DEF CtlInv, CtlEnds
  <2>7. Settled'
    BY <2>2, <2>5, <2>6 DEF Settled, Transitions
  <2>8. CtlEnds'
    BY <2>3, <2>5, <2>6, <2>7 DEF CtlEnds
  <2> QED
    BY <2>5, <2>8 DEF CtlInv
<1> QED
  BY <1>3, <1>4, <1>5, <1>6

(* A transition is asked for.                                              *)
LEMMA TransitionSends ==
  ASSUME CtlInv, ctl.send < CtlMaxSend, NEW phase \in CtlPhases, NEW type \in Transitions,
         NEW media \in Nat, NEW r, Drive(r), r = Transition(ctl, phase, type, media)
  PROVE  /\ CtlTypes' /\ CtlChannels' /\ rcv' = rcv
         /\ ctl'.phase = phase /\ ctl'.pending = ctl.send + 1 /\ ctl'.send = ctl.send + 1
         /\ DOMAIN down = 1 .. Len(down) /\ Len(down) \in Nat
         /\ DOMAIN down' = 1 .. Len(down) + 1
         /\ down'[Len(down) + 1].type = type /\ down'[Len(down) + 1].seq = ctl.send + 1
         /\ \A i \in 1 .. Len(down) : down'[i] = down[i]
         /\ ~rcv.ended => down'[ctl'.pending - rcv.recv].type = type
         /\ ctl'.pending > rcv.recv
<1> DEFINE c == [ctl EXCEPT !.phase = phase, !.pending = ctl.send + 1, !.media = media]
           m == CtlMessage(c, type, media)
<1>1. ctl \in CtlType
  BY DEF CtlInv, CtlTypes
<1>2. c \in CtlType /\ c.send = ctl.send /\ c.recv = ctl.recv /\ c.pending = ctl.send + 1
      /\ c.phase = phase
  <2>1. ctl.send + 1 \in 0 .. CtlMaxSend
    BY <1>1, CtlBounds DEF CtlType
  <2> QED
    BY <1>1, <2>1 DEF CtlType
<1>3. r = CtlSend(c, type, media)
  BY DEF Transition
<1> HIDE DEF c
<1>4. /\ r.c = [c EXCEPT !.send = c.send + 1] /\ r.c \in CtlType /\ r.messages = <<m>>
      /\ m \in DownMessages /\ m.seq = c.send + 1 /\ m.type = type
  BY <1>2, <1>3, SendResult DEF DownTypes
<1> HIDE DEF m
<1>5. r.c.send = ctl.send + 1 /\ r.c.recv = ctl.recv /\ r.c.pending = ctl.send + 1
      /\ r.c.phase = phase
  BY <1>2, <1>4 DEF CtlType
<1>6. ctl.send \in Nat /\ rcv.recv \in Nat
  BY <1>1 DEF CtlInv, CtlTypes, CtlType, RcvType
<1>7. r.c.pending <= ctl.send + 1
  BY <1>5, <1>6
<1>8. /\ CtlTypes' /\ CtlChannels' /\ ctl' = r.c /\ rcv' = rcv
      /\ DOMAIN down = 1 .. Len(down) /\ Len(down) \in Nat
      /\ DOMAIN down' = 1 .. Len(down) + 1 /\ down'[Len(down) + 1] = m
      /\ \A i \in 1 .. Len(down) : down'[i] = down[i]
  BY <1>2, <1>4, <1>5, <1>7, SendingDrive
<1>9. rcv.recv <= ctl.send /\ (~rcv.ended => Len(down) = ctl.send - rcv.recv)
  BY DEF CtlInv, CtlChannels
<1>10. ~rcv.ended => ctl'.pending - rcv.recv = Len(down) + 1
  BY <1>5, <1>6, <1>8, <1>9
<1>11. ctl'.pending > rcv.recv
  BY <1>5, <1>6, <1>8, <1>9
<1> QED
  BY <1>2, <1>4, <1>5, <1>8, <1>10, <1>11

LEMMA PauseKeeps == ASSUME CtlInv, DrivePause PROVE CtlInv'
<1> DEFINE r == Pause(ctl)
<1>1. Drive(r) /\ ctl.send < CtlMaxSend
  BY DEF DrivePause, Able
<1>2. CASE ctl.phase # "connected"
  <2>1. r = CtlFail(ctl)
    BY <1>2 DEF Pause
  <2> QED
    BY <1>1, <2>1, FailingDrive
<1>3. CASE ctl.phase = "connected"
  <2>1. r = Transition(ctl, "pause_pending", "SESSION_PAUSED", ctl.media)
    BY <1>3 DEF Pause
  <2>2. ctl.media \in Nat /\ "pause_pending" \in CtlPhases /\ "SESSION_PAUSED" \in Transitions
    BY DEF CtlInv, CtlTypes, CtlType, CtlPhases, Transitions
  <2> HIDE DEF r
  <2>3. /\ CtlTypes' /\ CtlChannels' /\ rcv' = rcv
        /\ ctl'.phase = "pause_pending" /\ ctl'.pending = ctl.send + 1
        /\ DOMAIN down = 1 .. Len(down) /\ Len(down) \in Nat
        /\ DOMAIN down' = 1 .. Len(down) + 1
        /\ down'[Len(down) + 1].type = "SESSION_PAUSED" /\ down'[Len(down) + 1].seq = ctl.send + 1
        /\ \A i \in 1 .. Len(down) : down'[i] = down[i]
        /\ ~rcv.ended => down'[ctl'.pending - rcv.recv].type = "SESSION_PAUSED"
        /\ ctl'.pending > rcv.recv
    BY <1>1, <2>1, <2>2, TransitionSends
  <2>4. Settled
    BY <1>3 DEF CtlInv, CtlEnds
  <2>5. \A i \in DOMAIN down' : down'[i].type \in Transitions =>
          down'[i].seq = ctl'.pending /\ down'[i].type = "SESSION_PAUSED"
    BY <2>3, <2>4 DEF Settled
  <2>6. ~(ctl'.pending <= rcv'.recv)
    BY <2>3 DEF CtlTypes, CtlType, RcvType
  <2>7. CtlEnds'
    BY <2>3, <2>5, <2>6 DEF CtlEnds, Coming
  <2> QED
    BY <2>3, <2>7 DEF CtlInv
<1> QED
  BY <1>2, <1>3

LEMMA ResumeKeeps == ASSUME CtlInv, DriveResume PROVE CtlInv'
<1> DEFINE r == Resume(ctl, ctl.media + 1)
<1>1. Drive(r) /\ ctl.send < CtlMaxSend /\ ctl.media \in Nat
  BY DEF DriveResume, Able, CtlInv, CtlTypes, CtlType
<1>2. CASE ctl.phase # "paused"
  <2>1. r = CtlFail(ctl)
    BY <1>2 DEF Resume
  <2> QED
    BY <1>1, <2>1, FailingDrive
<1>3. CASE ctl.phase = "paused"
  <2>1. r = Transition(ctl, "resume_pending", "SESSION_RESUMED", ctl.media + 1)
    BY <1>1, <1>3 DEF Resume
  <2>2. ctl.media + 1 \in Nat /\ "resume_pending" \in CtlPhases /\ "SESSION_RESUMED" \in Transitions
    BY <1>1 DEF CtlPhases, Transitions
  <2> HIDE DEF r
  <2>3. /\ CtlTypes' /\ CtlChannels' /\ rcv' = rcv
        /\ ctl'.phase = "resume_pending" /\ ctl'.pending = ctl.send + 1
        /\ DOMAIN down = 1 .. Len(down) /\ Len(down) \in Nat
        /\ DOMAIN down' = 1 .. Len(down) + 1
        /\ down'[Len(down) + 1].type = "SESSION_RESUMED" /\ down'[Len(down) + 1].seq = ctl.send + 1
        /\ \A i \in 1 .. Len(down) : down'[i] = down[i]
        /\ ~rcv.ended => down'[ctl'.pending - rcv.recv].type = "SESSION_RESUMED"
        /\ ctl'.pending > rcv.recv
    BY <1>1, <2>1, <2>2, TransitionSends
  <2>4. Settled
    BY <1>3 DEF CtlInv, CtlEnds
  <2>5. \A i \in DOMAIN down' : down'[i].type \in Transitions =>
          down'[i].seq = ctl'.pending /\ down'[i].type = "SESSION_RESUMED"
    BY <2>3, <2>4 DEF Settled
  <2>6. ~(ctl'.pending <= rcv'.recv)
    BY <2>3 DEF CtlTypes, CtlType, RcvType
  <2>7. CtlEnds'
    BY <2>3, <2>5, <2>6 DEF CtlEnds, Coming
  <2> QED
    BY <2>3, <2>7 DEF CtlInv
<1> QED
  BY <1>2, <1>3

LEMMA EndKeeps == ASSUME CtlInv, DriveEnd PROVE CtlInv'
<1> DEFINE r == End(ctl)
<1>1. Drive(r) /\ ctl.send < CtlMaxSend /\ ctl.media \in Nat
  BY DEF DriveEnd, Able, CtlInv, CtlTypes, CtlType
<1>2. r = Transition(ctl, "end_pending", "SESSION_ENDED", ctl.media)
  BY DEF DriveEnd, End
<1>3. "end_pending" \in CtlPhases /\ "SESSION_ENDED" \in Transitions
  BY DEF CtlPhases, Transitions
<1> HIDE DEF r
<1>4. /\ CtlTypes' /\ CtlChannels' /\ rcv' = rcv
      /\ ctl'.phase = "end_pending" /\ ctl'.pending = ctl.send + 1 /\ ctl'.send = ctl.send + 1
      /\ ~rcv.ended => down'[ctl'.pending - rcv.recv].type = "SESSION_ENDED"
      /\ ctl'.pending > rcv.recv
  BY <1>1, <1>2, <1>3, TransitionSends
<1>5. ~(ctl'.pending <= rcv'.recv)
  BY <1>4 DEF CtlTypes, CtlType, RcvType
<1>6. CtlEnds'
  BY <1>4, <1>5 DEF CtlEnds
<1> QED
  BY <1>4, <1>6 DEF CtlInv

LEMMA ErrorKeeps == ASSUME CtlInv, DriveError PROVE CtlInv'
<1> DEFINE r == ProtocolError(ctl)
           c == ClearPending([ctl EXCEPT !.phase = "failed", !.send = ctl.send + 1])
           m == CtlMessage(ctl, "PROTOCOL_ERROR", 0)
<1>1. Drive(r) /\ ctl.send < CtlMaxSend /\ ctl \in CtlType
  BY DEF DriveError, Able, CtlInv, CtlTypes
<1>2. r.c = c /\ r.messages = <<m>>
  BY DEF DriveError, ProtocolError, Result
<1>3. ctl.send + 1 \in 1 .. CtlMaxSend /\ ctl.send + 1 \in 0 .. CtlMaxSend /\ 0 \in 0 .. CtlMaxSend
  BY <1>1, CtlBounds DEF CtlType
<1>4. c \in CtlType /\ c.send = ctl.send + 1 /\ c.recv = ctl.recv /\ c.pending = 0
      /\ c.phase = "failed"
  BY <1>1, <1>3 DEF CtlType, CtlPhases, ClearPending
<1>5. m \in DownMessages /\ m.seq = ctl.send + 1
  BY <1>3 DEF CtlMessage, DownMessages, DownTypes
<1>6. r.c.pending <= ctl.send + 1
  BY <1>2, <1>3, <1>4
<1> HIDE DEF r, c, m
<1>7. CtlTypes' /\ CtlChannels' /\ ctl' = r.c
  BY <1>1, <1>2, <1>4, <1>5, <1>6, SendingDrive
<1>8. CtlEnds'
  BY <1>2, <1>4, <1>7 DEF CtlEnds
<1> QED
  BY <1>7, <1>8 DEF CtlInv

LEMMA ClosedKeeps == ASSUME CtlInv, DriveClosed PROVE CtlInv'
<1>1. Drive(CtlFail(ctl))
  BY DEF DriveClosed, ChannelClosed, CtlActive
<1> QED
  BY <1>1, FailingDrive

(* What the sender takes from the channel.                                 *)
LEMMA HeadOfUp ==
  ASSUME CtlInv, up # << >>
  PROVE  /\ Head(up) \in UpMessages /\ Head(up).ref <= rcv.recv
         /\ Tail(up) \in Seq(UpMessages) /\ Len(Tail(up)) = Len(up) - 1 /\ Len(up) \in Nat
         /\ \A i \in DOMAIN Tail(up) : Tail(up)[i].ref <= rcv.recv
         /\ ctl.recv + 1 \in 0 .. CtlMaxUp
<1>1. up \in Seq(UpMessages) /\ \A i \in DOMAIN up : up[i].ref <= rcv.recv
  BY DEF CtlInv, CtlTypes, CtlChannels
<1>2. Len(up) \in Nat \ {0} /\ DOMAIN up = 1 .. Len(up)
  BY <1>1, EmptySeq, LenProperties
<1>3. /\ Head(up) \in UpMessages /\ Tail(up) \in Seq(UpMessages) /\ Head(up) = up[1]
      /\ Len(Tail(up)) = Len(up) - 1
      /\ \A i \in 1 .. Len(up) - 1 : Tail(up)[i] = up[i + 1]
  BY <1>1, <1>2, HeadTailProperties
<1>4. DOMAIN Tail(up) = 1 .. Len(up) - 1
  BY <1>2, <1>3, LenProperties
<1>5. ctl.recv \in Nat /\ rcv.sent \in 0 .. CtlMaxUp /\ ctl.recv + Len(up) <= rcv.sent
  BY DEF CtlInv, CtlTypes, CtlType, RcvType, CtlChannels
<1>6. ctl.recv + 1 \in 0 .. CtlMaxUp
  BY <1>2, <1>5, CtlBounds
<1>7. \A i \in DOMAIN Tail(up) : Tail(up)[i].ref <= rcv.recv
  BY <1>1, <1>2, <1>3, <1>4
<1> QED
  BY <1>1, <1>2, <1>3, <1>6, <1>7

(* The channels after it, whatever the protocol makes of the message.      *)
LEMMA ReceivedChannels ==
  ASSUME CtlInv, up # << >>, up' = Tail(up), UNCHANGED <<rcv, down>>, ctl' \in CtlType,
         ctl'.send = ctl.send, ctl'.recv \in {ctl.recv, ctl.recv + 1}, ctl'.pending <= ctl.send
  PROVE  CtlTypes' /\ CtlChannels'
<1>1. CtlTypes'
  BY HeadOfUp DEF CtlInv, CtlTypes
<1>2. ctl.recv \in Nat /\ rcv.sent \in Nat /\ Len(up) \in Nat
  BY HeadOfUp DEF CtlInv, CtlTypes, CtlType, RcvType
<1>3. ctl'.recv + Len(up') <= rcv'.sent
  BY <1>2, HeadOfUp DEF CtlInv, CtlChannels
<1>4. \A i \in DOMAIN up' : up'[i].ref <= rcv'.recv
  BY HeadOfUp
<1>5. CtlChannels'
  BY <1>3, <1>4 DEF CtlInv, CtlChannels
<1> QED
  BY <1>1, <1>5

(* What a message of the receiver's is taken for.                          *)
LEMMA ReceiveCases ==
  ASSUME NEW c, NEW m, m.type \in UpTypes
  PROVE  \/ CtlReceive(c, m) = CtlFail(c)
         \/ m.type = "CLOCK_RESPONSE" /\ CtlReceive(c, m) = ReceiveClockResponse(c, m.ref)
         \/ m.type = "RECEIVER_STATS" /\ CtlReceive(c, m) = ReceiveStats(c)
         \/ /\ m.type \in {"SESSION_PAUSED_ACK", "SESSION_RESUMED_ACK", "SESSION_ENDED_ACK"}
            /\ CtlReceive(c, m) = ReceiveAck(c, m.type, m.ref)
<1>1. DOMAIN AckMoves = {"SESSION_PAUSED_ACK", "SESSION_RESUMED_ACK", "SESSION_ENDED_ACK"}
  BY DEF AckMoves
<1>2. m.type # "PROTOCOL_ERROR"
  BY DEF UpTypes
<1>3. CtlActive(c) \in BOOLEAN
  BY DEF CtlActive
<1>4. CASE ~CtlActive(c) \/ m.type = "BAD"
  BY <1>4, <1>1, <1>2, Zenon DEF CtlReceive
<1>5. CASE CtlActive(c) /\ m.type = "CLOCK_RESPONSE"
  BY <1>5, <1>1, <1>2, Zenon DEF CtlReceive
<1>6. CASE CtlActive(c) /\ m.type = "RECEIVER_STATS"
  BY <1>6, <1>1, <1>2, Zenon DEF CtlReceive
<1>7. CASE /\ CtlActive(c)
           /\ m.type \in {"SESSION_PAUSED_ACK", "SESSION_RESUMED_ACK", "SESSION_ENDED_ACK"}
  BY <1>7, <1>1, <1>2, Zenon DEF CtlReceive
<1> QED
  BY <1>4, <1>5, <1>6, <1>7 DEF UpTypes

LEMMA CountedType ==
  ASSUME NEW c \in CtlType, c.recv + 1 \in 0 .. CtlMaxUp
  PROVE  [c EXCEPT !.recv = c.recv + 1] \in CtlType
BY DEF CtlType

LEMMA ReceiveKeeps == ASSUME CtlInv, DriveReceive PROVE CtlInv'
<1> DEFINE m == Head(up)
           r == CtlReceive(ctl, m)
<1>1. /\ up # << >> /\ ctl' = r.c /\ up' = Tail(up) /\ UNCHANGED <<rcv, down>>
  BY DEF DriveReceive
<1>2. /\ ctl \in CtlType /\ m \in UpMessages /\ m.ref <= rcv.recv /\ ctl.recv + 1 \in 0 .. CtlMaxUp
      /\ m.ref \in Nat /\ rcv.recv \in Nat /\ CtlEnds /\ rcv.recv <= ctl.send
      /\ ctl.pending <= ctl.send /\ ctl.pending \in Nat /\ ctl.send \in Nat
  BY <1>1, HeadOfUp DEF CtlInv, CtlTypes, CtlChannels, CtlType, RcvType, UpMessages
<1>r. r = CtlReceive(ctl, m)
  OBVIOUS
<1> HIDE DEF m, r
<1>3. CASE r = CtlFail(ctl)
  <2>1. /\ ctl' \in CtlType /\ ctl'.send = ctl.send /\ ctl'.recv = ctl.recv
        /\ \/ ctl'.phase = "failed" /\ ctl'.pending = 0
           \/ ctl' = ctl
    BY <1>1, <1>2, <1>3, FailResult
  <2>2. ctl'.pending <= ctl.send
    BY <1>2, <2>1
  <2>3. CtlTypes' /\ CtlChannels'
    BY <1>1, <2>1, <2>2, ReceivedChannels
  <2>4. CtlEnds'
    BY <1>1, <1>2, <2>1, EndsStay
  <2> QED
    BY <2>3, <2>4 DEF CtlInv
<1>4. CASE r = ReceiveClockResponse(ctl, m.ref) /\ r # CtlFail(ctl)
  <2> DEFINE c == [ctl EXCEPT !.clocks = ctl.clocks \ {m.ref}]
  <2>1. r = Counted(Result(c, << >>, "clock_response", TRUE, FALSE))
    BY <1>4 DEF ReceiveClockResponse
  <2>2. c \in CtlType /\ c.recv = ctl.recv /\ c.send = ctl.send /\ c.phase = ctl.phase
        /\ c.pending = ctl.pending
    BY <1>2 DEF CtlType
  <2> HIDE DEF c
  <2>3. ctl' = [c EXCEPT !.recv = c.recv + 1] /\ ctl' \in CtlType
    <3>1. c.recv + 1 \in 0 .. CtlMaxUp
      BY <1>2, <2>2
    <3>2. r.c = [c EXCEPT !.recv = c.recv + 1]
      BY <2>1 DEF Counted, Result
    <3> QED
      BY <1>1, <2>2, <3>1, <3>2, CountedType
  <2>4. ctl'.recv = ctl.recv + 1 /\ ctl'.send = ctl.send /\ ctl'.phase = ctl.phase
        /\ ctl'.pending = ctl.pending
    BY <2>2, <2>3 DEF CtlType
  <2>5. CtlTypes' /\ CtlChannels'
    BY <1>1, <1>2, <2>3, <2>4, ReceivedChannels
  <2>6. CtlEnds'
    BY <1>1, <1>2, <2>4, EndsStay
  <2> QED
    BY <2>5, <2>6 DEF CtlInv
<1>5. CASE r = ReceiveStats(ctl) /\ r # CtlFail(ctl)
  <2>1. r = Counted(Result(ctl, << >>, "receiver_stats", TRUE, FALSE))
    BY <1>5 DEF ReceiveStats
  <2>2. ctl' = [ctl EXCEPT !.recv = ctl.recv + 1] /\ ctl' \in CtlType
    <3>1. r.c = [ctl EXCEPT !.recv = ctl.recv + 1]
      BY <2>1 DEF Counted, Result
    <3> QED
      BY <1>1, <1>2, <3>1, CountedType
  <2>3. ctl'.recv = ctl.recv + 1 /\ ctl'.send = ctl.send /\ ctl'.phase = ctl.phase
        /\ ctl'.pending = ctl.pending
    BY <1>2, <2>2 DEF CtlType
  <2>4. CtlTypes' /\ CtlChannels'
    BY <1>1, <1>2, <2>2, <2>3, ReceivedChannels
  <2>5. CtlEnds'
    BY <1>1, <1>2, <2>3, EndsStay
  <2> QED
    BY <2>4, <2>5 DEF CtlInv
<1>6. CASE /\ m.type \in {"SESSION_PAUSED_ACK", "SESSION_RESUMED_ACK", "SESSION_ENDED_ACK"}
           /\ r = ReceiveAck(ctl, m.type, m.ref) /\ r # CtlFail(ctl)
  <2> DEFINE to == AckMoves[m.type].to
             c == [ctl EXCEPT !.phase = to, !.pending = 0,
                              !.clocks = IF to = "ended" THEN {} ELSE ctl.clocks]
  <2>3. /\ r = Counted(Result(c, << >>, "acknowledged", TRUE, to = "ended"))
        /\ m.ref = ctl.pending /\ ctl.phase = AckMoves[m.type].in
    BY <1>6 DEF ReceiveAck
  <2>4. \/ ctl.phase = "pause_pending" /\ to = "paused"
        \/ ctl.phase = "resume_pending" /\ to = "connected"
        \/ ctl.phase = "end_pending" /\ to = "ended"
    BY <1>6, <2>3 DEF AckMoves
  <2> HIDE DEF to
  <2>5. c \in CtlType /\ c.recv = ctl.recv /\ c.send = ctl.send /\ c.phase = to /\ c.pending = 0
    <3>1. to \in CtlPhases /\ 0 \in 0 .. CtlMaxSend
      BY <2>4, CtlBounds DEF CtlPhases
    <3>2. (IF to = "ended" THEN {} ELSE ctl.clocks) \in SUBSET (1 .. CtlMaxSend)
      BY <1>2 DEF CtlType
    <3> QED
      BY <1>2, <3>1, <3>2 DEF CtlType
  <2> HIDE DEF c
  <2>6. ctl' = [c EXCEPT !.recv = c.recv + 1] /\ ctl' \in CtlType
    <3>1. c.recv + 1 \in 0 .. CtlMaxUp
      BY <1>2, <2>5
    <3>2. r.c = [c EXCEPT !.recv = c.recv + 1]
      BY <2>3 DEF Counted, Result
    <3> QED
      BY <1>1, <2>5, <3>1, <3>2, CountedType
  <2>7. ctl'.recv = ctl.recv + 1 /\ ctl'.send = ctl.send /\ ctl'.phase = to
        /\ ctl'.pending = 0
    BY <2>5, <2>6 DEF CtlType
  <2>8. CtlTypes' /\ CtlChannels'
    BY <1>1, <1>2, <2>6, <2>7, ReceivedChannels
  <2>9. ctl.pending <= rcv.recv
    BY <1>2, <2>3
  <2>10. CASE ctl.phase = "pause_pending" /\ to = "paused"
    <3>1. rcv.paused /\ Settled
      BY <1>2, <2>9, <2>10 DEF CtlEnds
    <3> QED
      BY <1>1, <2>7, <2>8, <2>10, <3>1 DEF CtlInv, CtlEnds, Settled
  <2>11. CASE ctl.phase = "resume_pending" /\ to = "connected"
    <3>1. ~rcv.paused /\ Settled
      BY <1>2, <2>9, <2>11 DEF CtlEnds
    <3> QED
      BY <1>1, <2>7, <2>8, <2>11, <3>1 DEF CtlInv, CtlEnds, Settled
  <2>12. CASE ctl.phase = "end_pending" /\ to = "ended"
    <3>1. rcv.ended /\ ctl.pending = ctl.send
      BY <1>2, <2>9, <2>12 DEF CtlEnds
    <3>2. rcv.recv = ctl.send
      BY <1>2, <2>9, <3>1
    <3> QED
      BY <1>1, <2>7, <2>8, <2>12, <3>1, <3>2 DEF CtlInv, CtlEnds
  <2> QED
    BY <2>4, <2>10, <2>11, <2>12
<1>7. m.type \in UpTypes
  BY <1>2 DEF UpMessages
<1> QED
  BY <1>r, <1>3, <1>4, <1>5, <1>6, <1>7, ReceiveCases

(* The page takes a message off the channel.                               *)
LEMMA HeadOfDown ==
  ASSUME CtlInv, down # << >>
  PROVE  /\ Head(down) \in DownMessages /\ Head(down) = down[1] /\ Tail(down) \in Seq(DownMessages)
         /\ Len(down) \in Nat \ {0} /\ Len(Tail(down)) = Len(down) - 1
         /\ DOMAIN down = 1 .. Len(down) /\ DOMAIN Tail(down) = 1 .. Len(down) - 1
         /\ \A i \in 1 .. Len(down) - 1 : Tail(down)[i] = down[i + 1]
<1>1. down \in Seq(DownMessages)
  BY DEF CtlInv, CtlTypes
<1>2. Len(down) \in Nat \ {0} /\ DOMAIN down = 1 .. Len(down)
  BY <1>1, EmptySeq, LenProperties
<1>3. /\ Head(down) \in DownMessages /\ Tail(down) \in Seq(DownMessages) /\ Head(down) = down[1]
      /\ Len(Tail(down)) = Len(down) - 1
      /\ \A i \in 1 .. Len(down) - 1 : Tail(down)[i] = down[i + 1]
  BY <1>1, <1>2, HeadTailProperties
<1> QED
  BY <1>1, <1>2, <1>3, LenProperties

(* A page that has ended drops what still arrives.                         *)
LEMMA DropKeeps ==
  ASSUME CtlInv, down # << >>, rcv.ended, down' = Tail(down), UNCHANGED <<ctl, rcv, up>>
  PROVE  CtlInv'
<1>1. /\ down' \in Seq(DownMessages) /\ Len(down') = Len(down) - 1 /\ Len(down) \in Nat \ {0}
      /\ DOMAIN down = 1 .. Len(down) /\ DOMAIN down' = 1 .. Len(down) - 1
      /\ \A i \in 1 .. Len(down) - 1 : down'[i] = down[i + 1]
  BY HeadOfDown
<1>2. CtlTypes'
  BY <1>1 DEF CtlInv, CtlTypes
<1>3. CtlChannels'
  BY <1>1 DEF CtlInv, CtlChannels, CtlTypes, CtlType, RcvType
<1>4. \A i \in DOMAIN down' : i + 1 \in DOMAIN down /\ down'[i] = down[i + 1]
  BY <1>1
<1>5. Settled => Settled'
  BY <1>4 DEF Settled
<1>6. ASSUME NEW type, Coming(type) PROVE Coming(type)'
  BY <1>4, <1>6 DEF Coming
<1>7. CtlEnds'
  BY <1>5, <1>6 DEF CtlInv, CtlEnds
<1> QED
  BY <1>2, <1>3, <1>7 DEF CtlInv

LEMMA ReplyFacts ==
  /\ DOMAIN Reply = {"CLOCK_REQUEST", "SESSION_PAUSED", "SESSION_RESUMED", "SESSION_ENDED"}
  /\ \A t \in DOMAIN Reply : Reply[t] \in UpTypes
BY DEF Reply, UpTypes

LEMMA TakeKeeps ==
  ASSUME CtlInv, down # << >>, ~rcv.ended, rcv.sent < CtlMaxUp, down' = Tail(down),
         rcv' = HandleControlMessage(rcv, Head(down)), up' = up \o Replies(rcv, Head(down)),
         UNCHANGED ctl
  PROVE  CtlInv'
<1> DEFINE m == Head(down)
<1>1. /\ m \in DownMessages /\ m = down[1]
      /\ down' \in Seq(DownMessages) /\ Len(down') = Len(down) - 1 /\ Len(down) \in Nat \ {0}
      /\ DOMAIN down = 1 .. Len(down) /\ DOMAIN down' = 1 .. Len(down) - 1
      /\ \A i \in 1 .. Len(down) - 1 : down'[i] = down[i + 1]
  BY HeadOfDown
<1>2. /\ ctl \in CtlType /\ rcv \in RcvType /\ up \in Seq(UpMessages) /\ CtlEnds
      /\ ctl.send \in Nat /\ ctl.send \in 0 .. CtlMaxSend /\ rcv.recv \in Nat /\ rcv.sent \in Nat /\ ctl.recv \in Nat
      /\ ctl.pending \in Nat /\ CtlMaxUp \in Nat /\ CtlMaxSend \in Nat
  BY CtlBounds DEF CtlInv, CtlTypes, CtlType, RcvType
<1>3. /\ rcv.recv <= ctl.send /\ ctl.pending <= ctl.send /\ Len(down) = ctl.send - rcv.recv
      /\ \A i \in DOMAIN down : down[i].seq = rcv.recv + i
      /\ ctl.recv + Len(up) <= rcv.sent
      /\ \A i \in DOMAIN up : up[i].ref <= rcv.recv
  BY DEF CtlInv, CtlChannels
<1>4. m.seq = rcv.recv + 1 /\ m.type \in DownTypes
  <2>1. 1 \in DOMAIN down
    BY <1>1
  <2>2. down[1].seq = rcv.recv + 1
    BY <2>1, <1>3
  <2> QED
    BY <1>1, <2>2 DEF DownMessages
<1>n. /\ ctl.send \in Nat /\ rcv.recv \in Nat /\ ctl.pending \in Nat
      /\ Len(down) \in Nat \ {0} /\ Len(down) = ctl.send - rcv.recv /\ ctl.pending <= ctl.send
  BY <1>1, <1>2, <1>3
<1> HIDE DEF m
<1> DEFINE paused == CASE m.type = "SESSION_PAUSED" -> TRUE
                       [] m.type = "SESSION_RESUMED" -> FALSE
                       [] OTHER -> rcv.paused
           ended == m.type \in {"SESSION_ENDED", "PROTOCOL_ERROR"}
           sent == IF m.type \in DOMAIN Reply THEN rcv.sent + 1 ELSE rcv.sent
<1>a. rcv' = [rcv EXCEPT !.recv = m.seq, !.sent = sent, !.paused = paused, !.ended = ended]
  BY <1>4 DEF HandleControlMessage, m
<1>b. /\ m.type = "SESSION_PAUSED" => paused = TRUE
      /\ m.type = "SESSION_RESUMED" => paused = FALSE
      /\ m.type # "SESSION_PAUSED" /\ m.type # "SESSION_RESUMED" => paused = rcv.paused
  BY Zenon
<1>c. ended \in BOOLEAN /\ (ended <=> m.type \in {"SESSION_ENDED", "PROTOCOL_ERROR"})
  OBVIOUS
<1>d. /\ m.type \in DOMAIN Reply => sent = rcv.sent + 1
      /\ m.type \notin DOMAIN Reply => sent = rcv.sent
  OBVIOUS
<1> HIDE DEF paused, ended, sent
<1>5. rcv' = [recv |-> rcv.recv + 1, sent |-> sent, paused |-> paused, ended |-> ended,
              confused |-> rcv.confused]
  BY <1>2, <1>4, <1>a DEF RcvType
<1>6. /\ rcv'.recv = rcv.recv + 1 /\ rcv'.sent = sent /\ rcv'.confused = rcv.confused
      /\ (rcv'.ended <=> m.type \in {"SESSION_ENDED", "PROTOCOL_ERROR"})
      /\ rcv'.ended = ended /\ rcv'.paused = paused
  BY <1>5, <1>c
<1>7. /\ m.type = "SESSION_PAUSED" => rcv'.paused = TRUE
      /\ m.type = "SESSION_RESUMED" => rcv'.paused = FALSE
      /\ m.type \notin {"SESSION_PAUSED", "SESSION_RESUMED"} => rcv'.paused = rcv.paused
  BY <1>6, <1>b
<1>8. rcv' \in RcvType
  <2>1. rcv.recv + 1 \in 0 .. CtlMaxSend
    <3>1. Len(down) \in Nat \ {0} /\ Len(down) = ctl.send - rcv.recv /\ ctl.send <= CtlMaxSend
      BY <1>1, <1>2, <1>3
    <3>2. rcv.recv \in Nat /\ ctl.send \in Nat /\ CtlMaxSend \in Nat
      BY <1>2
    <3> QED
      BY <3>1, <3>2
  <2>2. sent \in 0 .. CtlMaxUp
    BY <1>2, <1>d
  <2>3. paused \in BOOLEAN
    <3>1. rcv.paused \in BOOLEAN
      BY <1>2 DEF RcvType
    <3> QED
      BY <1>b, <3>1
  <2>4. rcv.confused \in BOOLEAN
    BY <1>2 DEF RcvType
  <2> QED
    BY <1>5, <1>c, <2>1, <2>2, <2>3, <2>4 DEF RcvType
<1>9. up' \in Seq(UpMessages) /\ ctl.recv + Len(up') <= rcv'.sent
      /\ \A i \in DOMAIN up' : up'[i].ref <= rcv.recv + 1
  <2>1. CASE m.type \in DOMAIN Reply
    <3> DEFINE a == [type |-> Reply[m.type], ref |-> m.seq]
    <3>1. Replies(rcv, m) = <<a>>
      BY <1>4, <2>1 DEF Replies
    <3>2. a \in UpMessages /\ a.ref = rcv.recv + 1
      <4>1. m.seq \in 0 .. CtlMaxSend
        BY <1>4, <1>6, <1>8 DEF RcvType
      <4> QED
        BY <1>4, <2>1, <4>1, ReplyFacts DEF UpMessages
    <3> HIDE DEF a
    <3>3. up' = Append(up, a)
      BY <1>2, <3>1, <3>2, AppendIsConcat DEF m
    <3>4. /\ up' \in Seq(UpMessages) /\ Len(up') = Len(up) + 1
          /\ \A i \in 1 .. Len(up) : up'[i] = up[i]
          /\ up'[Len(up) + 1] = a
      <4>1. up \in Seq(UpMessages) /\ a \in UpMessages
        BY <1>2, <3>2
      <4>2. /\ Append(up, a) \in Seq(UpMessages) /\ Len(Append(up, a)) = Len(up) + 1
            /\ \A i \in 1 .. Len(up) : Append(up, a)[i] = up[i]
            /\ Append(up, a)[Len(up) + 1] = a
        BY <4>1, AppendProperties
      <4> QED
        BY <4>2, <3>3
    <3>5. /\ Len(up) \in Nat /\ DOMAIN up = 1 .. Len(up) /\ DOMAIN up' = 1 .. Len(up) + 1
      BY <1>2, <3>4, LenProperties
    <3>6. ctl.recv + Len(up') <= rcv'.sent
      BY <1>2, <1>3, <1>6, <1>d, <2>1, <3>4, <3>5
    <3>7. ASSUME NEW i \in DOMAIN up' PROVE up'[i].ref <= rcv.recv + 1
      <4>1. CASE i \in 1 .. Len(up)
        <5>1. up'[i] = up[i] /\ up[i].ref <= rcv.recv /\ up[i] \in UpMessages
          BY <4>1, <3>4, <3>5, <1>2, <1>3, ElementOfSeq
        <5>2. up[i].ref \in Nat
          BY <5>1, <1>2 DEF UpMessages
        <5> QED
          BY <5>1, <5>2, <1>2
      <4>2. CASE i = Len(up) + 1
        BY <4>2, <3>2, <3>4, <1>2
      <4> QED
        BY <4>1, <4>2, <3>5
    <3> QED
      BY <3>4, <3>6, <3>7
  <2>2. CASE m.type \notin DOMAIN Reply
    <3>1. Replies(rcv, m) = << >>
      BY <2>2 DEF Replies
    <3>2. up' = up
      BY <1>2, <3>1, ConcatEmptySeq DEF m
    <3>3. \A i \in DOMAIN up : up[i].ref \in Nat
      <4> TAKE i \in DOMAIN up
      <4>1. up[i] \in UpMessages
        BY <1>2, ElementOfSeq
      <4> QED
        BY <4>1, <1>2 DEF UpMessages
    <3>4. rcv'.sent = rcv.sent
      BY <1>6, <1>d, <2>2
    <3>5. \A i \in DOMAIN up : up[i].ref <= rcv.recv + 1
      BY <1>2, <1>3, <3>3
    <3> QED
      BY <1>2, <1>3, <3>2, <3>4, <3>5
  <2> QED
    BY <2>1, <2>2
<1>10. CtlTypes'
  BY <1>1, <1>2, <1>8, <1>9 DEF CtlTypes
<1>11. \A i \in DOMAIN down' : /\ i + 1 \in DOMAIN down /\ down'[i] = down[i + 1] /\ i \in Nat
                               /\ down'[i].seq = rcv.recv + 1 + i
  <2> SUFFICES ASSUME NEW i \in DOMAIN down'
               PROVE  /\ i + 1 \in DOMAIN down /\ down'[i] = down[i + 1] /\ i \in Nat
                      /\ down'[i].seq = rcv.recv + 1 + i
    OBVIOUS
  <2>1. i \in Nat /\ i + 1 \in DOMAIN down /\ down'[i] = down[i + 1]
    BY <1>1
  <2>2. down[i + 1].seq = rcv.recv + (i + 1)
    BY <2>1, <1>3
  <2>3. rcv.recv + (i + 1) = rcv.recv + 1 + i
    <3>1. i \in Nat /\ rcv.recv \in Nat
      BY <2>1, <1>n
    <3>2. \A a, b \in Nat : a + (b + 1) = a + 1 + b
      OBVIOUS
    <3> QED
      BY <3>1, <3>2
  <2> QED
    BY <2>1, <2>2, <2>3
<1>12. CtlChannels'
  <2>1. rcv'.recv <= ctl'.send /\ ctl'.pending <= ctl'.send /\ Len(down') = ctl'.send - rcv'.recv
    <3>1. /\ Len(down) \in Nat \ {0} /\ Len(down) = ctl.send - rcv.recv
          /\ Len(down') = Len(down) - 1 /\ rcv'.recv = rcv.recv + 1
      BY <1>1, <1>3, <1>6
    <3>2. rcv'.recv <= ctl.send /\ Len(down') = ctl.send - rcv'.recv
      BY <3>1, <1>n
    <3> QED
      BY <3>2, <1>3
  <2>2. \A i \in DOMAIN down' : down'[i].seq = rcv'.recv + i
    BY <1>6, <1>11
  <2>3. ctl'.recv + Len(up') <= rcv'.sent /\ \A i \in DOMAIN up' : up'[i].ref <= rcv'.recv
    BY <1>6, <1>9
  <2>4. Len(down') <= ctl'.send - rcv'.recv
    BY <2>1, <1>1
  <2> QED
    BY <2>1, <2>2, <2>3, <2>4 DEF CtlChannels
<1>13. Settled => Settled' /\ m.type \notin Transitions
  BY <1>1, <1>11 DEF Settled
<1>14. /\ m.type \notin Transitions => rcv'.paused = rcv.paused
       /\ m.type \in Transitions => m.type \in {"SESSION_PAUSED", "SESSION_RESUMED", "SESSION_ENDED"}
  BY <1>7 DEF Transitions
(* A transition on its way is met now, or is still on its way. *)
<1>15. ASSUME NEW type \in Transitions, ctl.pending > rcv.recv, Coming(type)
       PROVE  IF ctl.pending <= rcv'.recv THEN m.type = type /\ Settled'
              ELSE m.type \notin Transitions /\ Coming(type)'
  <2>1. /\ \A i \in DOMAIN down : down[i].type \in Transitions =>
               down[i].seq = ctl.pending /\ down[i].type = type
        /\ down[ctl.pending - rcv.recv].type = type
    BY <1>15 DEF Coming
  <2>2. CASE ctl.pending = rcv.recv + 1
    <3>1. m.type = type
      BY <1>1, <1>2, <2>1, <2>2
    <3>2. Settled'
      <4> SUFFICES ASSUME NEW i \in DOMAIN down', down'[i].type \in Transitions PROVE FALSE
        BY DEF Settled
      <4>1. down'[i].seq = ctl.pending
        BY <1>11, <2>1
      <4> QED
        BY <4>1, <1>2, <1>11, <2>2
    <3> QED
      BY <3>1, <3>2, <1>2, <1>6, <2>2
  <2>3. CASE ctl.pending > rcv.recv + 1
    <3>1. m.type \notin Transitions
      <4>1. 1 \in DOMAIN down
        BY <1>1
      <4>2. m.type \in Transitions => m.seq = ctl.pending
        BY <1>1, <2>1, <4>1
      <4> QED
        BY <4>2, <1>2, <1>4, <2>3
    <3>2. ctl.pending - rcv.recv - 1 \in 1 .. Len(down) - 1
      BY <1>n, <2>3
    <3>3. down'[ctl.pending - rcv'.recv] = down[ctl.pending - rcv.recv]
      <4>1. ctl.pending - rcv'.recv = ctl.pending - rcv.recv - 1
        BY <1>2, <1>6
      <4>2. (ctl.pending - rcv.recv - 1) + 1 = ctl.pending - rcv.recv
        BY <1>2
      <4> QED
        BY <1>1, <3>2, <4>1, <4>2
    <3>4. \A i \in DOMAIN down' : down'[i].type \in Transitions =>
               down'[i].seq = ctl'.pending /\ down'[i].type = type
      BY <1>11, <2>1
    <3>5. Coming(type)'
      BY <2>1, <3>3, <3>4 DEF Coming
    <3>6. ~(ctl.pending <= rcv'.recv)
      BY <1>2, <1>6, <2>3
    <3> QED
      BY <3>1, <3>5, <3>6
  <2> QED
    BY <2>2, <2>3, <1>15, <1>2
<1>16. /\ "SESSION_PAUSED" \in Transitions /\ "SESSION_RESUMED" \in Transitions
       /\ "SESSION_ENDED" \in Transitions
  BY DEF Transitions
<1>17. ctl.phase \in {"idle", "connected"} => ~rcv'.paused /\ Settled'
  BY <1>2, <1>13, <1>14 DEF CtlEnds
<1>18. ctl.phase = "paused" => rcv'.paused /\ Settled'
  BY <1>2, <1>13, <1>14 DEF CtlEnds
<1>19. ctl.phase = "pause_pending" =>
         IF ctl.pending <= rcv'.recv THEN rcv'.paused /\ Settled' ELSE Coming("SESSION_PAUSED")'
  <2>1. CASE ctl.pending <= rcv.recv
    BY <2>1, <1>2, <1>6, <1>13, <1>14 DEF CtlEnds
  <2>2. CASE ctl.pending > rcv.recv
    BY <2>2, <1>2, <1>7, <1>15, <1>16 DEF CtlEnds
  <2> QED
    BY <2>1, <2>2, <1>2
<1>20. ctl.phase = "resume_pending" =>
         IF ctl.pending <= rcv'.recv THEN ~rcv'.paused /\ Settled' ELSE Coming("SESSION_RESUMED")'
  <2>1. CASE ctl.pending <= rcv.recv
    BY <2>1, <1>2, <1>6, <1>13, <1>14 DEF CtlEnds
  <2>2. CASE ctl.pending > rcv.recv
    BY <2>2, <1>2, <1>7, <1>15, <1>16 DEF CtlEnds
  <2> QED
    BY <2>1, <2>2, <1>2
<1>21. ctl.phase = "end_pending" =>
         /\ ctl.pending = ctl.send
         /\ ctl.pending <= rcv'.recv => rcv'.ended
         /\ ctl.pending > rcv'.recv /\ ~rcv'.ended =>
              down'[ctl.pending - rcv'.recv].type = "SESSION_ENDED"
  <2> SUFFICES ASSUME ctl.phase = "end_pending"
               PROVE  /\ ctl.pending = ctl.send
                      /\ ctl.pending <= rcv'.recv => rcv'.ended
                      /\ ctl.pending > rcv'.recv /\ ~rcv'.ended =>
                           down'[ctl.pending - rcv'.recv].type = "SESSION_ENDED"
    OBVIOUS
  <2>1. ctl.pending = ctl.send /\ ctl.pending > rcv.recv
        /\ down[ctl.pending - rcv.recv].type = "SESSION_ENDED"
    BY <1>1, <1>2, <1>3 DEF CtlEnds
  <2>2. CASE ctl.pending = rcv.recv + 1
    <3>1. m.type = "SESSION_ENDED"
      BY <1>1, <1>2, <2>1, <2>2
    <3> QED
      BY <3>1, <1>2, <1>6, <2>1
  <2>3. CASE ctl.pending > rcv.recv + 1
    <3>1. ctl.pending - rcv.recv - 1 \in 1 .. Len(down) - 1
      BY <1>n, <2>3
    <3>2. ctl.pending - rcv'.recv = ctl.pending - rcv.recv - 1
      BY <1>2, <1>6
    <3>3. (ctl.pending - rcv.recv - 1) + 1 = ctl.pending - rcv.recv
      BY <1>2
    <3>4. down'[ctl.pending - rcv'.recv] = down[ctl.pending - rcv.recv]
      BY <1>1, <3>1, <3>2, <3>3
    <3>5. rcv'.recv < ctl.pending
      BY <1>2, <1>6, <2>3
    <3>6. rcv'.recv \in Nat /\ ~(ctl.pending <= rcv'.recv)
      BY <1>n, <1>6, <3>5
    <3> QED
      BY <2>1, <3>4, <3>6
  <2>4. ctl.pending = rcv.recv + 1 \/ ctl.pending > rcv.recv + 1
    BY <2>1, <1>2
  <2> QED
    BY <2>2, <2>3, <2>4
<1>22. ctl.phase # "ended"
  BY <1>2 DEF CtlEnds
<1>23. CtlEnds'
  BY <1>17, <1>18, <1>19, <1>20, <1>21, <1>22 DEF CtlEnds
<1> QED
  BY <1>10, <1>12, <1>23 DEF CtlInv

LEMMA HandlesKeeps == ASSUME CtlInv, ReceiverHandles PROVE CtlInv'
BY DropKeeps, TakeKeeps DEF ReceiverHandles

LEMMA ReceiverSendsKeeps == ASSUME CtlInv, ReceiverSends PROVE CtlInv'
<1>1. PICK type \in {"RECEIVER_STATS", "BAD"} : up' = Append(up, [type |-> type, ref |-> 0])
  BY DEF ReceiverSends
<1>2. /\ rcv' = [rcv EXCEPT !.sent = rcv.sent + 1] /\ UNCHANGED <<ctl, down>>
      /\ rcv.sent < CtlMaxUp
  BY DEF ReceiverSends
<1> DEFINE a == [type |-> type, ref |-> 0]
<1>3. rcv \in RcvType /\ up \in Seq(UpMessages) /\ ctl \in CtlType
  BY DEF CtlInv, CtlTypes
<1>4. a \in UpMessages /\ a.ref = 0
  BY CtlBounds DEF UpMessages, UpTypes
<1> HIDE DEF a
<1>5. /\ up' \in Seq(UpMessages) /\ Len(up') = Len(up) + 1
      /\ \A i \in 1 .. Len(up) : up'[i] = up[i]
      /\ up'[Len(up) + 1] = a
  BY <1>1, <1>3, <1>4, AppendProperties DEF a
<1>6. /\ Len(up) \in Nat /\ DOMAIN up = 1 .. Len(up) /\ DOMAIN up' = 1 .. Len(up) + 1
  BY <1>3, <1>5, LenProperties
<1>7. /\ rcv' \in RcvType /\ rcv'.sent = rcv.sent + 1 /\ rcv'.recv = rcv.recv
      /\ rcv'.ended = rcv.ended /\ rcv'.paused = rcv.paused
  BY <1>2, <1>3, CtlBounds DEF RcvType
<1>8. rcv.recv \in Nat /\ rcv.sent \in Nat /\ ctl.recv \in Nat
  BY <1>3 DEF RcvType, CtlType
<1>9. CtlTypes'
  BY <1>2, <1>3, <1>5, <1>7 DEF CtlInv, CtlTypes
<1>10. CtlChannels'
  <2>1. ctl'.recv + Len(up') <= rcv'.sent
    BY <1>2, <1>5, <1>6, <1>7, <1>8 DEF CtlInv, CtlChannels
  <2>2. \A i \in DOMAIN up' : up'[i].ref <= rcv'.recv
    BY <1>4, <1>5, <1>6, <1>7, <1>8 DEF CtlInv, CtlChannels
  <2> QED
    BY <1>2, <1>7, <2>1, <2>2 DEF CtlInv, CtlChannels
<1>11. CtlEnds'
  BY <1>2, <1>7 DEF CtlInv, CtlEnds, Settled, Coming
<1> QED
  BY <1>9, <1>10, <1>11 DEF CtlInv

LEMMA LeavesKeeps == ASSUME CtlInv, ReceiverLeaves PROVE CtlInv'
<1>1. rcv' = [rcv EXCEPT !.ended = TRUE] /\ UNCHANGED <<ctl, down, up>>
  BY DEF ReceiverLeaves
<1>2. rcv \in RcvType
  BY DEF CtlInv, CtlTypes
<1>3. /\ rcv' \in RcvType /\ rcv'.sent = rcv.sent /\ rcv'.recv = rcv.recv
      /\ rcv'.ended = TRUE /\ rcv'.paused = rcv.paused
  BY <1>1, <1>2 DEF RcvType
<1>4. CtlTypes' /\ CtlChannels'
  BY <1>1, <1>3 DEF CtlInv, CtlTypes, CtlChannels
<1>5. CtlEnds'
  BY <1>1, <1>3 DEF CtlInv, CtlEnds, Settled, Coming
<1> QED
  BY <1>4, <1>5 DEF CtlInv

LEMMA CtlInvStep == CtlInv /\ [CtlNext]_ctlVars => CtlInv'
<1> SUFFICES ASSUME CtlInv, [CtlNext]_ctlVars PROVE CtlInv'
  OBVIOUS
<1>1. CASE DriveBegin
  BY <1>1, BeginKeeps
<1>2. CASE DriveClock
  BY <1>2, ClockKeeps
<1>3. CASE DrivePause
  BY <1>3, PauseKeeps
<1>4. CASE DriveResume
  BY <1>4, ResumeKeeps
<1>5. CASE DriveEnd
  BY <1>5, EndKeeps
<1>6. CASE DriveError
  BY <1>6, ErrorKeeps
<1>7. CASE DriveReceive
  BY <1>7, ReceiveKeeps
<1>8. CASE DriveClosed
  BY <1>8, ClosedKeeps
<1>9. CASE ReceiverHandles
  BY <1>9, HandlesKeeps
<1>10. CASE ReceiverSends
  BY <1>10, ReceiverSendsKeeps
<1>11. CASE ReceiverLeaves
  BY <1>11, LeavesKeeps
<1>12. CASE UNCHANGED ctlVars
  BY <1>12 DEF ctlVars, CtlInv, CtlTypes, CtlChannels, CtlEnds, Settled, Coming
<1> QED
  BY <1>1, <1>2, <1>3, <1>4, <1>5, <1>6, <1>7, <1>8, <1>9, <1>10, <1>11, <1>12 DEF CtlNext

LEMMA CtlInvAgrees == CtlInv => ControlAgrees
<1> SUFFICES ASSUME CtlInv PROVE ControlAgrees
  OBVIOUS
<1>1. /\ ctl.phase \in CtlPhases
      /\ ctl.send \in 0 .. CtlMaxSend /\ ctl.recv \in 0 .. CtlMaxUp /\ ctl.media \in Nat
      /\ ctl.pending \in 0 .. CtlMaxSend /\ ctl.clocks \subseteq 1 .. CtlMaxSend
      /\ ctl.asked \in 0 .. CtlBurst
      /\ rcv.recv \in 0 .. CtlMaxSend /\ rcv.sent \in 0 .. CtlMaxUp
      /\ {rcv.paused, rcv.ended, rcv.confused} \subseteq BOOLEAN
  BY DEF CtlInv, CtlTypes, CtlType, RcvType
<1>2. Len(down) \in Nat /\ Len(up) \in Nat
  BY LenProperties DEF CtlInv, CtlTypes
<1>3. Len(down) <= CtlMaxSend /\ Len(up) <= CtlMaxUp
  <2>1. Len(down) <= ctl.send - rcv.recv /\ ctl.recv + Len(up) <= rcv.sent
    BY DEF CtlInv, CtlChannels
  <2>2. ctl.send \in Nat /\ ctl.send <= CtlMaxSend /\ rcv.recv \in Nat /\ ctl.recv \in Nat
        /\ rcv.sent \in Nat /\ rcv.sent <= CtlMaxUp /\ CtlMaxSend \in Nat /\ CtlMaxUp \in Nat
    BY <1>1, CtlBounds
  <2> QED
    BY <1>2, <2>1, <2>2
<1>4. CtlTypeOK
  BY <1>1, <1>3 DEF CtlTypeOK
<1> QED
  BY <1>4 DEF ControlAgrees, CtlInv, CtlEnds

(* The sender and the page agree on what is paused, resumed and ended,     *)
(* whatever crosses on the channel: for any bounds.                        *)
THEOREM EndsOfTheChannelAgree == CtlSpec => []ControlAgrees
<1>1. CtlInit => CtlInv
  BY CtlInvInit
<1>2. CtlInv /\ [CtlNext]_ctlVars => CtlInv'
  BY CtlInvStep
<1>3. CtlInv => ControlAgrees
  BY CtlInvAgrees
<1> QED
  BY <1>1, <1>2, <1>3, PTL DEF CtlSpec

-----------------------------------------------------------------------------
(* The end of a peer: PeerControl.  The tasks of stop have ranks, in the   *)
(* order it takes them; every other task has none.                         *)
StopRank(x) ==
  IF x.op = "shutdown" THEN 1
  ELSE IF x.op = "reset" THEN 2
  ELSE IF x.op = "join" THEN 3
  ELSE IF x.op = "finish" THEN 4
  ELSE IF x.op = "emit" /\ x.event = "ended" THEN 5
  ELSE 0

Reports(x) == x.op = "emit" /\ x.event = "failed"

Has(s, rank) == \E i \in DOMAIN s : StopRank(s[i]) = rank

IsList(s) == \E S : s \in Seq(S)

PeerType ==
  [offer : BOOLEAN, track : {"none", "new", "open"}, connected : BOOLEAN,
   controlOpen : BOOLEAN, failed : BOOLEAN, stopping : BOOLEAN, stopped : BOOLEAN,
   shutdown : BOOLEAN, workerDone : BOOLEAN, sealed : BOOLEAN, detached : BOOLEAN,
   chan : {"none", "new", "open", "closed"}]

PeerTypes ==
  /\ DOMAIN todo = PeerThreads /\ \A t \in PeerThreads : IsList(todo[t])
  /\ peer \in PeerType
  /\ heard \in [failed : Nat, ended : BOOLEAN, late : BOOLEAN]

(* Only the share stops the peer, in this order and to the end.            *)
StopInOrder ==
  /\ \A t \in PeerThreads \ {"app"} : \A i \in DOMAIN todo[t] : StopRank(todo[t][i]) = 0
  /\ \A i, j \in DOMAIN todo["app"] :
       i < j /\ StopRank(todo["app"][i]) > 0 => StopRank(todo["app"][i]) < StopRank(todo["app"][j])
  /\ ~peer.stopping => \A i \in DOMAIN todo["app"] : StopRank(todo["app"][i]) \in {0, 5}
  /\ ~peer.stopping /\ ~peer.stopped => ~Has(todo["app"], 5)
  /\ Has(todo["app"], 5) =>
       /\ peer.detached \/ Has(todo["app"], 2)
       /\ peer.workerDone \/ Has(todo["app"], 3)
       /\ peer.stopped \/ Has(todo["app"], 4)

(* Once a thread is detached it does nothing more, once the end is heard   *)
(* nobody does.                                                            *)
EndIsQuiet ==
  /\ peer.detached => Clear("rtc")
  /\ peer.workerDone => Clear("worker") /\ peer.shutdown
  /\ heard.ended => peer.detached /\ peer.workerDone /\ peer.stopped /\ Clear("app")
  /\ ~heard.late

(* One thread reports one failure, behind the seal.                        *)
FailureOnce ==
  /\ heard.failed \in {0, 1}
  /\ heard.failed = 1 => peer.sealed
  /\ ~peer.failed => heard.failed = 0
  /\ \A t \in PeerThreads : \A i \in DOMAIN todo[t] : Reports(todo[t][i]) =>
       /\ peer.failed /\ heard.failed = 0
       /\ (i = 1 /\ peer.sealed) \/ (i = 2 /\ todo[t][1].op = "seal")
  /\ \A t, u \in PeerThreads : \A i \in DOMAIN todo[t], j \in DOMAIN todo[u] :
       Reports(todo[t][i]) /\ Reports(todo[u][j]) => t = u /\ i = j

PeerInv == PeerTypes /\ StopInOrder /\ EndIsQuiet /\ FailureOnce

Plain(x) == StopRank(x) = 0 /\ ~Reports(x)

(* What a step leaves of the flags the invariant is about.                 *)
SameFlags ==
  /\ peer' \in PeerType
  /\ peer'.failed = peer.failed /\ peer'.stopping = peer.stopping
  /\ peer'.stopped = peer.stopped /\ peer'.shutdown = peer.shutdown
  /\ peer'.workerDone = peer.workerDone /\ peer'.sealed = peer.sealed
  /\ peer'.detached = peer.detached

StopFlags ==
  /\ peer' \in PeerType
  /\ peer'.stopping = peer.stopping /\ peer'.stopped = peer.stopped
  /\ peer'.shutdown = peer.shutdown /\ peer'.workerDone = peer.workerDone
  /\ peer'.detached = peer.detached

AllPlain(ts) == IsList(ts) /\ \A i \in DOMAIN ts : Plain(ts[i])

LEMMA ListFacts ==
  ASSUME NEW s, IsList(s)
  PROVE  /\ Len(s) \in Nat /\ DOMAIN s = 1 .. Len(s)
         /\ s # << >> => Len(s) # 0 /\ Head(s) = s[1] /\ 1 \in DOMAIN s
         /\ s = << >> <=> Len(s) = 0
<1>1. PICK S : s \in Seq(S)
  BY DEF IsList
<1>2. Len(s) \in Nat /\ DOMAIN s = 1 .. Len(s)
  BY <1>1, LenProperties
<1>3. s # << >> => Len(s) \in Nat \ {0}
  BY <1>1, EmptySeq
<1>4. Len(<< >>) = 0
  BY EmptySeq
<1>5. s # << >> => Head(s) = s[1]
  BY <1>1
<1> QED
  BY <1>2, <1>3, <1>4, <1>5

LEMMA RankFacts == \A x : StopRank(x) \in 0 .. 5
BY DEF StopRank

(* The shape of the lists after a thread took its first task.              *)
LEMMA Turn ==
  ASSUME PeerTypes, NEW t \in PeerThreads, todo[t] # << >>, NEW ts, IsList(ts), Becomes(t, ts)
  PROVE  /\ DOMAIN todo' = PeerThreads /\ \A u \in PeerThreads \ {t} : todo'[u] = todo[u]
         /\ IsList(todo'[t])
         /\ Len(todo[t]) \in Nat \ {0} /\ DOMAIN todo[t] = 1 .. Len(todo[t])
         /\ Head(todo[t]) = todo[t][1]
         /\ Len(ts) \in Nat /\ DOMAIN ts = 1 .. Len(ts)
         /\ DOMAIN todo'[t] = 1 .. (Len(ts) + (Len(todo[t]) - 1))
         /\ \A i \in 1 .. Len(ts) : i \in DOMAIN todo'[t] /\ todo'[t][i] = ts[i]
         /\ \A i \in 2 .. Len(todo[t]) :
              /\ Len(ts) + (i - 1) \in DOMAIN todo'[t]
              /\ todo'[t][Len(ts) + (i - 1)] = todo[t][i]
         /\ \A i \in DOMAIN todo'[t] :
              \/ i \in 1 .. Len(ts)
              \/ \E j \in 2 .. Len(todo[t]) : i = Len(ts) + (j - 1) /\ todo'[t][i] = todo[t][j]
<1> DEFINE l == todo[t]
           r == ts \o Tail(l)
<1>1. todo' = [todo EXCEPT ![t] = r]
  BY DEF Becomes
<1>2. DOMAIN todo = PeerThreads /\ IsList(l) /\ l # << >>
  BY DEF PeerTypes
<1>3. /\ DOMAIN todo' = PeerThreads /\ \A u \in PeerThreads \ {t} : todo'[u] = todo[u]
      /\ todo'[t] = r
  BY <1>1, <1>2
<1>4. PICK S : l \in Seq(S)
  BY <1>2 DEF IsList
<1>5. PICK T : ts \in Seq(T)
  BY DEF IsList
<1>6. /\ Tail(l) \in Seq(S) /\ Len(Tail(l)) = Len(l) - 1
      /\ \A i \in 1 .. Len(l) - 1 : Tail(l)[i] = l[i + 1]
  BY <1>2, <1>4, HeadTailProperties
<1>7. Tail(l) \in Seq(S \cup T) /\ ts \in Seq(S \cup T)
  <2>1. S \subseteq S \cup T /\ T \subseteq S \cup T
    OBVIOUS
  <2>2. Tail(l) \in Seq(S \cup T)
    BY <1>6, <2>1, SeqMonotonic
  <2>3. ts \in Seq(S \cup T)
    BY <1>5, <2>1, SeqMonotonic
  <2> QED
    BY <2>2, <2>3
<1>8. /\ r \in Seq(S \cup T) /\ Len(r) = Len(ts) + Len(Tail(l))
      /\ \A i \in 1 .. Len(ts) + Len(Tail(l)) :
           r[i] = IF i <= Len(ts) THEN ts[i] ELSE Tail(l)[i - Len(ts)]
  BY <1>7, ConcatProperties
<1>9. /\ Len(l) \in Nat \ {0} /\ DOMAIN l = 1 .. Len(l) /\ Head(l) = l[1]
      /\ Len(ts) \in Nat /\ DOMAIN ts = 1 .. Len(ts)
  BY <1>2, ListFacts
<1>10. IsList(r) /\ DOMAIN r = 1 .. Len(r)
  BY <1>8, LenProperties DEF IsList
<1>11. DOMAIN r = 1 .. (Len(ts) + (Len(l) - 1))
  BY <1>6, <1>8, <1>10
<1> HIDE DEF l, r
<1>12. ASSUME NEW i \in 1 .. Len(ts) PROVE i \in DOMAIN r /\ r[i] = ts[i]
  <2>1. i \in 1 .. Len(ts) + Len(Tail(l)) /\ i <= Len(ts)
    BY <1>6, <1>9
  <2> QED
    BY <2>1, <1>8, <1>10
<1>13. ASSUME NEW i \in 2 .. Len(l)
       PROVE  Len(ts) + (i - 1) \in DOMAIN r /\ r[Len(ts) + (i - 1)] = l[i]
  <2> DEFINE k == Len(ts) + (i - 1)
  <2>1. /\ k \in 1 .. Len(ts) + Len(Tail(l)) /\ ~(k <= Len(ts)) /\ k - Len(ts) = i - 1
        /\ i - 1 \in 1 .. Len(l) - 1 /\ (i - 1) + 1 = i
    BY <1>6, <1>9
  <2> HIDE DEF k
  <2>2. r[k] = Tail(l)[i - 1]
    BY <2>1, <1>8
  <2>3. Tail(l)[i - 1] = l[i]
    BY <2>1, <1>6
  <2> QED
    BY <2>1, <2>2, <2>3, <1>8, <1>10 DEF k
<1>14. ASSUME NEW i \in DOMAIN r, i \notin 1 .. Len(ts)
       PROVE  \E j \in 2 .. Len(l) : i = Len(ts) + (j - 1) /\ r[i] = l[j]
  <2> DEFINE j == i - Len(ts) + 1
  <2>1. j \in 2 .. Len(l) /\ i = Len(ts) + (j - 1)
    BY <1>9, <1>11, <1>14
  <2> HIDE DEF j
  <2>2. r[i] = l[j]
    BY <2>1, <1>13
  <2> QED
    BY <2>1, <2>2
<1> QED
  BY <1>3, <1>9, <1>10, <1>11, <1>12, <1>13, <1>14 DEF l

(* A thread takes a task that is none of stop's, and puts such tasks in    *)
(* its place.                                                              *)
LEMMA UnrankedTurn ==
  ASSUME PeerInv, NEW t \in PeerThreads, todo[t] # << >>, StopRank(Head(todo[t])) = 0,
         NEW ts, IsList(ts), \A i \in DOMAIN ts : StopRank(ts[i]) = 0, Becomes(t, ts), StopFlags,
         heard' \in [failed : Nat, ended : BOOLEAN, late : BOOLEAN],
         heard'.ended = heard.ended, ~heard'.late
  PROVE  PeerTypes' /\ StopInOrder' /\ EndIsQuiet'
<1> DEFINE l == todo[t]
           m == todo'[t]
<1>1. /\ DOMAIN todo' = PeerThreads /\ \A u \in PeerThreads \ {t} : todo'[u] = todo[u]
      /\ IsList(m) /\ Len(l) \in Nat \ {0} /\ DOMAIN l = 1 .. Len(l) /\ Head(l) = l[1]
      /\ Len(ts) \in Nat /\ DOMAIN ts = 1 .. Len(ts)
      /\ \A i \in 2 .. Len(l) :
           Len(ts) + (i - 1) \in DOMAIN m /\ m[Len(ts) + (i - 1)] = l[i]
      /\ \A i \in DOMAIN m :
           \/ i \in 1 .. Len(ts) /\ m[i] = ts[i]
           \/ \E j \in 2 .. Len(l) : i = Len(ts) + (j - 1) /\ m[i] = l[j]
  BY Turn DEF PeerInv
<1>2. StopRank(l[1]) = 0
  BY <1>1
<1>3. \A u \in PeerThreads : IsList(todo'[u])
  BY <1>1 DEF PeerInv, PeerTypes
<1>4. PeerTypes'
  BY <1>1, <1>3 DEF PeerInv, PeerTypes, StopFlags
<1> HIDE DEF l, m
<1>5. ASSUME NEW i \in DOMAIN m
      PROVE  \/ StopRank(m[i]) = 0
             \/ \E j \in 2 .. Len(l) : i = Len(ts) + (j - 1) /\ m[i] = l[j] /\ j \in DOMAIN l
  BY <1>1
<1>6. \A rank \in 1 .. 5 : Has(m, rank) <=> Has(l, rank)
  <2> SUFFICES ASSUME NEW rank \in 1 .. 5 PROVE Has(m, rank) <=> Has(l, rank)
    OBVIOUS
  <2>1. ASSUME Has(m, rank) PROVE Has(l, rank)
    <3>1. PICK i \in DOMAIN m : StopRank(m[i]) = rank
      BY <2>1 DEF Has
    <3>2. StopRank(m[i]) # 0
      BY <3>1
    <3>3. PICK j \in DOMAIN l : m[i] = l[j]
      BY <1>5, <3>2
    <3> QED
      BY <3>1, <3>3 DEF Has
  <2>2. ASSUME Has(l, rank) PROVE Has(m, rank)
    <3>1. PICK i \in DOMAIN l : StopRank(l[i]) = rank
      BY <2>2 DEF Has
    <3>2. i # 1
      BY <1>2, <3>1
    <3>3. i \in 2 .. Len(l)
      BY <1>1, <3>2
    <3> QED
      BY <1>1, <3>1, <3>3 DEF Has
  <2> QED
    BY <2>1, <2>2
<1>7. StopInOrder'
  <2>1. \A i \in DOMAIN m : StopRank(m[i]) = 0 \/ \E j \in DOMAIN l : StopRank(m[i]) = StopRank(l[j])
    BY <1>5
  <2>2. \A u \in PeerThreads \ {"app"} : \A i \in DOMAIN todo'[u] : StopRank(todo'[u][i]) = 0
    BY <1>1, <2>1 DEF PeerInv, StopInOrder, l, m
  <2>3. CASE t # "app"
    BY <2>2, <2>3, <1>1 DEF PeerInv, StopInOrder, StopFlags, PeerThreads
  <2>4. CASE t = "app"
    <3>1. ASSUME NEW i \in DOMAIN m, NEW j \in DOMAIN m, i < j, StopRank(m[i]) > 0
          PROVE  StopRank(m[i]) < StopRank(m[j])
      <4>1. PICK k \in 2 .. Len(l) : i = Len(ts) + (k - 1) /\ m[i] = l[k] /\ k \in DOMAIN l
        BY <1>5, <3>1
      <4>2. j \notin 1 .. Len(ts)
        BY <1>1, <3>1, <4>1
      <4>3. PICK n \in 2 .. Len(l) : j = Len(ts) + (n - 1) /\ m[j] = l[n] /\ n \in DOMAIN l
        BY <1>1, <4>2
      <4>4. k < n
        BY <1>1, <3>1, <4>1, <4>3
      <4> QED
        BY <2>4, <3>1, <4>1, <4>3, <4>4 DEF PeerInv, StopInOrder, l
    <3>2. ~peer'.stopping => \A i \in DOMAIN m : StopRank(m[i]) \in {0, 5}
      BY <2>1, <2>4 DEF PeerInv, StopInOrder, StopFlags, l
    <3>3. /\ ~peer'.stopping /\ ~peer'.stopped => ~Has(m, 5)
          /\ Has(m, 5) =>
               /\ peer'.detached \/ Has(m, 2)
               /\ peer'.workerDone \/ Has(m, 3)
               /\ peer'.stopped \/ Has(m, 4)
      <4>1. Has(m, 5) <=> Has(l, 5)
        BY <1>6
      <4>2. (Has(m, 2) <=> Has(l, 2)) /\ (Has(m, 3) <=> Has(l, 3)) /\ (Has(m, 4) <=> Has(l, 4))
        BY <1>6
      <4> QED
        BY <4>1, <4>2, <2>4 DEF PeerInv, StopInOrder, StopFlags, l
    <3> QED
      BY <2>2, <2>4, <3>1, <3>2, <3>3 DEF StopInOrder, m
  <2> QED
    BY <2>3, <2>4
<1>8. EndIsQuiet'
  <2>1. \A u \in PeerThreads : Clear(u) => Clear(u)' /\ u # t
    BY <1>1 DEF Clear
  <2> QED
    BY <2>1 DEF PeerInv, EndIsQuiet, StopFlags, PeerThreads
<1> QED
  BY <1>4, <1>7, <1>8

(* Neither is the task seal or a report. *)
LEMMA PlainTurn ==
  ASSUME PeerInv, NEW t \in PeerThreads, todo[t] # << >>, Plain(Head(todo[t])),
         Head(todo[t]).op # "seal", NEW ts, AllPlain(ts), Becomes(t, ts), SameFlags,
         heard' = heard
  PROVE  PeerInv'
<1> DEFINE l == todo[t]
           m == todo'[t]
<1>1. /\ DOMAIN todo' = PeerThreads /\ \A u \in PeerThreads \ {t} : todo'[u] = todo[u]
      /\ DOMAIN l = 1 .. Len(l) /\ Head(l) = l[1]
      /\ DOMAIN ts = 1 .. Len(ts)
      /\ \A i \in DOMAIN m :
           \/ i \in 1 .. Len(ts) /\ m[i] = ts[i]
           \/ \E j \in 2 .. Len(l) : i = Len(ts) + (j - 1) /\ m[i] = l[j]
  BY Turn DEF PeerInv, AllPlain
<1>2. Plain(l[1]) /\ l[1].op # "seal"
  BY <1>1
<1>3. Len(l) \in Nat
  BY Turn DEF PeerInv, AllPlain
<1>4. PeerTypes' /\ StopInOrder' /\ EndIsQuiet'
  <2>1. \A i \in DOMAIN ts : StopRank(ts[i]) = 0
    BY DEF AllPlain, Plain
  <2>2. /\ heard \in [failed : Nat, ended : BOOLEAN, late : BOOLEAN] /\ ~heard.late
    BY DEF PeerInv, PeerTypes, EndIsQuiet
  <2> QED
    BY <2>1, <2>2, UnrankedTurn DEF SameFlags, StopFlags, AllPlain, Plain
<1> HIDE DEF l, m
<1>5. ASSUME NEW i \in DOMAIN m
      PROVE  Plain(m[i]) \/ \E j \in DOMAIN l : m[i] = l[j]
  BY <1>1, <1>3 DEF AllPlain
<1>9. \A i \in DOMAIN l : ~Reports(l[i])
  <2> SUFFICES ASSUME NEW i \in DOMAIN l, Reports(l[i]) PROVE FALSE
    OBVIOUS
  <2>1. i = 1 \/ l[1].op = "seal"
    BY DEF PeerInv, FailureOnce, l
  <2> QED
    BY <2>1, <1>2 DEF Plain
<1>10. \A i \in DOMAIN m : ~Reports(m[i])
  BY <1>5, <1>9 DEF Plain
<1>11. FailureOnce'
  <2>1. \A u \in PeerThreads : \A i \in DOMAIN todo'[u] : Reports(todo'[u][i]) =>
          u # t /\ todo'[u] = todo[u] /\ i \in DOMAIN todo[u] /\ Reports(todo[u][i])
    BY <1>1, <1>10 DEF m
  <2> QED
    BY <2>1 DEF PeerInv, FailureOnce, SameFlags
<1> QED
  BY <1>4, <1>11 DEF PeerInv

(* A thread without tasks gets such tasks. *)
LEMMA PlainCall ==
  ASSUME PeerInv, NEW t \in PeerThreads, Clear(t), NEW ts, AllPlain(ts),
         todo' = [todo EXCEPT ![t] = ts],
         SameFlags, heard' = heard,
         t = "rtc" => ~peer.detached, t = "worker" => ~peer.workerDone,
         t = "app" => ~peer.stopped
  PROVE  PeerInv'
<1>1. /\ DOMAIN todo' = PeerThreads /\ \A u \in PeerThreads \ {t} : todo'[u] = todo[u]
      /\ todo'[t] = ts
  BY DEF PeerInv, PeerTypes
<1>2. \A u \in PeerThreads : IsList(todo'[u])
  BY <1>1 DEF PeerInv, PeerTypes, AllPlain
<1>3. PeerTypes'
  BY <1>1, <1>2 DEF PeerInv, PeerTypes, SameFlags
<1>4. DOMAIN todo[t] = {}
  BY ListFacts DEF PeerInv, PeerTypes, Clear
<1>5. \A i \in DOMAIN ts : StopRank(ts[i]) = 0 /\ ~Reports(ts[i])
  BY DEF Plain, AllPlain
<1>6. StopInOrder'
  <2>1. \A u \in PeerThreads \ {"app"} : \A i \in DOMAIN todo'[u] : StopRank(todo'[u][i]) = 0
    BY <1>1, <1>5 DEF PeerInv, StopInOrder
  <2>2. CASE t # "app"
    BY <2>1, <2>2, <1>1 DEF PeerInv, StopInOrder, SameFlags, PeerThreads
  <2>3. CASE t = "app"
    <3>1. \A rank \in 1 .. 5 : ~Has(ts, rank)
      BY <1>5 DEF Has
    <3>2. ~Has(todo'["app"], 5)
      BY <1>1, <2>3, <3>1
    <3>3. \A i \in DOMAIN todo'["app"] : StopRank(todo'["app"][i]) = 0
      BY <1>1, <1>5, <2>3
    <3> QED
      BY <2>1, <3>2, <3>3 DEF StopInOrder
  <2> QED
    BY <2>2, <2>3
<1>7. EndIsQuiet'
  <2>1. \A u \in PeerThreads \ {t} : Clear(u) => Clear(u)'
    BY <1>1 DEF Clear
  <2>2. "rtc" \in PeerThreads /\ "worker" \in PeerThreads /\ "app" \in PeerThreads
    BY DEF PeerThreads
  <2> QED
    BY <2>1, <2>2 DEF PeerInv, EndIsQuiet, SameFlags
<1>8. FailureOnce'
  <2>1. \A u \in PeerThreads : \A i \in DOMAIN todo'[u] : Reports(todo'[u][i]) =>
          u # t /\ todo'[u] = todo[u] /\ i \in DOMAIN todo[u] /\ Reports(todo[u][i])
    BY <1>1, <1>5
  <2> QED
    BY <2>1 DEF PeerInv, FailureOnce, SameFlags
<1> QED
  BY <1>3, <1>6, <1>7, <1>8 DEF PeerInv

LEMMA SingleList == \A x : IsList(<<x>>) /\ Len(<<x>>) = 1 /\ <<x>>[1] = x
<1> TAKE x
<1>1. <<x>> \in Seq({x})
  OBVIOUS
<1> QED
  BY <1>1 DEF IsList

LEMMA ListGrows ==
  ASSUME NEW s, IsList(s), NEW x
  PROVE  /\ IsList(s \o <<x>>) /\ Len(s \o <<x>>) = Len(s) + 1
         /\ DOMAIN (s \o <<x>>) = 1 .. (Len(s) + 1)
         /\ \A i \in 1 .. Len(s) : (s \o <<x>>)[i] = s[i]
         /\ (s \o <<x>>)[Len(s) + 1] = x
<1>1. PICK S : s \in Seq(S)
  BY DEF IsList
<1>2. S \subseteq S \cup {x} /\ x \in S \cup {x}
  OBVIOUS
<1>3. s \in Seq(S \cup {x})
  BY <1>1, <1>2, SeqMonotonic
<1>4. Append(s, x) = s \o <<x>>
  BY <1>2, <1>3, AppendIsConcat
<1>5. /\ Append(s, x) \in Seq(S \cup {x}) /\ Len(Append(s, x)) = Len(s) + 1
      /\ \A i \in 1 .. Len(s) : Append(s, x)[i] = s[i]
      /\ Append(s, x)[Len(s) + 1] = x
  BY <1>2, <1>3, AppendProperties
<1> QED
  BY <1>4, <1>5, LenProperties DEF IsList

LEMMA PlainLists ==
  /\ AllPlain(<< >>)
  /\ \A x : Plain(x) => AllPlain(<<x>>)
  /\ \A a, b : AllPlain(a) /\ AllPlain(b) => AllPlain(a \o b)
<1>1. AllPlain(<< >>)
  BY EmptySeq DEF AllPlain, IsList
<1>2. ASSUME NEW x, Plain(x) PROVE AllPlain(<<x>>)
  <2>1. <<x>> \in Seq({x})
    OBVIOUS
  <2>2. DOMAIN <<x>> = {1} /\ <<x>>[1] = x
    OBVIOUS
  <2> QED
    BY <1>2, <2>1, <2>2 DEF AllPlain, IsList
<1>3. ASSUME NEW a, NEW b, AllPlain(a), AllPlain(b) PROVE AllPlain(a \o b)
  <2>1. PICK S : a \in Seq(S)
    BY <1>3 DEF AllPlain, IsList
  <2>2. PICK T : b \in Seq(T)
    BY <1>3 DEF AllPlain, IsList
  <2>3. S \subseteq S \cup T /\ T \subseteq S \cup T
    OBVIOUS
  <2>4. a \in Seq(S \cup T)
    BY <2>1, <2>3, SeqMonotonic
  <2>5. b \in Seq(S \cup T)
    BY <2>2, <2>3, SeqMonotonic
  <2>6. /\ a \o b \in Seq(S \cup T) /\ Len(a \o b) = Len(a) + Len(b)
        /\ \A i \in 1 .. Len(a) + Len(b) :
             (a \o b)[i] = IF i <= Len(a) THEN a[i] ELSE b[i - Len(a)]
    BY <2>4, <2>5, ConcatProperties
  <2>7. /\ Len(a) \in Nat /\ DOMAIN a = 1 .. Len(a) /\ Len(b) \in Nat /\ DOMAIN b = 1 .. Len(b)
        /\ DOMAIN (a \o b) = 1 .. Len(a) + Len(b)
    BY <2>4, <2>5, <2>6, LenProperties
  <2>8. ASSUME NEW i \in DOMAIN (a \o b) PROVE Plain((a \o b)[i])
    <3>1. CASE i <= Len(a)
      <4>1. i \in DOMAIN a /\ (a \o b)[i] = a[i]
        BY <3>1, <2>6, <2>7
      <4> QED
        BY <4>1, <1>3 DEF AllPlain
    <3>2. CASE ~(i <= Len(a))
      <4>1. i - Len(a) \in DOMAIN b /\ (a \o b)[i] = b[i - Len(a)]
        BY <3>2, <2>6, <2>7
      <4> QED
        BY <4>1, <1>3 DEF AllPlain
    <3> QED
      BY <3>1, <3>2
  <2> QED
    BY <2>6, <2>8 DEF AllPlain, IsList
<1> QED
  BY <1>1, <1>2, <1>3

(* Tasks that are none of stop's, seal or a report. *)
LEMMA PlainTasks ==
  /\ \A op \in {"fail", "close", "describe", "accept", "end"} : AllPlain(Do(op))
  /\ AllPlain(Emit("progress"))
  /\ \A r : AllPlain(ApplyControl(r))
<1>1. ASSUME NEW op \in {"fail", "close", "describe", "accept", "end"} PROVE AllPlain(Do(op))
  <2>1. Plain([op |-> op])
    BY DEF Plain, StopRank, Reports
  <2> QED
    BY <2>1, PlainLists DEF Do
<1>2. AllPlain(Emit("progress"))
  <2>1. Plain([op |-> "emit", event |-> "progress"])
    BY DEF Plain, StopRank, Reports
  <2> QED
    BY <2>1, PlainLists DEF Emit
<1>3. ASSUME NEW r PROVE AllPlain(ApplyControl(r))
  <2> DEFINE x == [op |-> "apply", r |-> [messages |-> r.messages, event |-> r.event,
                                          valid |-> r.valid, close |-> r.close]]
  <2>1. x.op = "apply"
    OBVIOUS
  <2>2. ApplyControl(r) = <<x>>
    BY DEF ApplyControl
  <2> HIDE DEF x
  <2>3. Plain(x)
    BY <2>1 DEF Plain, StopRank, Reports
  <2> QED
    BY <2>2, <2>3, PlainLists
<1> QED
  BY <1>1, <1>2, <1>3

(* The first task of a thread, by its operation. *)
LEMMA PlainHead ==
  ASSUME NEW t, NEW op \in {"fail", "apply", "close", "describe", "accept", "end"},
         NextTask(t, op)
  PROVE  todo[t] # << >> /\ Plain(Head(todo[t])) /\ Head(todo[t]).op # "seal"
BY DEF NextTask, Plain, StopRank, Reports

LEMMA FlagsStay ==
  ASSUME PeerInv
  PROVE  /\ peer' = peer => SameFlags
         /\ \A chan \in {"none", "new", "open", "closed"} :
              peer' = [peer EXCEPT !.chan = chan] => SameFlags
         /\ \A track \in {"none", "new", "open"} :
              peer' = [peer EXCEPT !.track = track] => SameFlags
         /\ \A on \in BOOLEAN : peer' = [peer EXCEPT !.connected = on] => SameFlags
         /\ peer' = [peer EXCEPT !.offer = TRUE] => SameFlags
         /\ \A on \in BOOLEAN : \A chan \in {"none", "new", "open", "closed"} :
              peer' = [peer EXCEPT !.chan = chan, !.controlOpen = on] => SameFlags
         /\ \A on \in BOOLEAN : \A chan \in {"none", "new", "open", "closed"} :
              peer' = [peer EXCEPT !.controlOpen = on, !.chan = chan] => SameFlags
<1>1. peer \in PeerType
  BY DEF PeerInv, PeerTypes
<1>2. peer' = peer => SameFlags
  BY <1>1 DEF SameFlags
<1>3. ASSUME NEW chan \in {"none", "new", "open", "closed"}, peer' = [peer EXCEPT !.chan = chan]
      PROVE  SameFlags
  BY <1>1, <1>3 DEF SameFlags, PeerType
<1>4. ASSUME NEW track \in {"none", "new", "open"}, peer' = [peer EXCEPT !.track = track]
      PROVE  SameFlags
  BY <1>1, <1>4 DEF SameFlags, PeerType
<1>5. ASSUME NEW on \in BOOLEAN, peer' = [peer EXCEPT !.connected = on] PROVE SameFlags
  BY <1>1, <1>5 DEF SameFlags, PeerType
<1>6. ASSUME peer' = [peer EXCEPT !.offer = TRUE] PROVE SameFlags
  BY <1>1, <1>6 DEF SameFlags, PeerType
<1>7. ASSUME NEW on \in BOOLEAN, NEW chan \in {"none", "new", "open", "closed"},
             \/ peer' = [peer EXCEPT !.chan = chan, !.controlOpen = on]
             \/ peer' = [peer EXCEPT !.controlOpen = on, !.chan = chan]
      PROVE  SameFlags
  BY <1>1, <1>7 DEF SameFlags, PeerType
<1> QED
  BY <1>2, <1>3, <1>4, <1>5, <1>6, <1>7

LEMMA SendKeepsPeer == ASSUME PeerInv, NEW t \in PeerThreads, TaskSend(t) PROVE PeerInv'
<1>1. /\ NextTask(t, "apply") /\ peer' = peer /\ heard' = heard
      /\ \E ts : AllPlain(ts) /\ Becomes(t, ts)
  BY PlainTasks DEF TaskSend
<1> QED
  BY <1>1, PlainHead, PlainTurn, FlagsStay

LEMMA ApplyKeepsPeer == ASSUME PeerInv, NEW t \in PeerThreads, TaskApply(t) PROVE PeerInv'
<1> DEFINE r == Head(todo[t]).r
           failing == r.event \in {"terminal", "protocol_error"} \/ ~r.valid
           a == IF r.event = "receiver_stats" THEN Emit("progress") ELSE << >>
           b == IF failing THEN Do("fail") ELSE << >>
           c == IF r.valid /\ r.close THEN Do("close") ELSE << >>
<1>1. /\ NextTask(t, "apply") /\ peer' = peer /\ heard' = heard /\ Becomes(t, a \o b \o c)
  BY DEF TaskApply
<1>2. AllPlain(a) /\ AllPlain(b) /\ AllPlain(c)
  BY PlainTasks, PlainLists
<1> HIDE DEF a, b, c
<1>3. AllPlain((a \o b) \o c)
  BY <1>2, PlainLists
<1> QED
  BY <1>1, <1>3, PlainHead, PlainTurn, FlagsStay

LEMMA CloseKeepsPeer == ASSUME PeerInv, NEW t \in PeerThreads, TaskClose(t) PROVE PeerInv'
<1>1. /\ NextTask(t, "close") /\ peer' = [peer EXCEPT !.chan = "closed"] /\ heard' = heard
      /\ Becomes(t, << >>)
  BY DEF TaskClose
<1> QED
  BY <1>1, PlainHead, PlainLists, PlainTurn, FlagsStay

LEMMA OfferKeepsPeer == ASSUME PeerInv, TaskDescribe \/ TaskAccept \/ TaskEnd PROVE PeerInv'
<1>1. "app" \in PeerThreads
  BY DEF PeerThreads
<1>2. CASE TaskDescribe
  <2>1. PICK video \in BOOLEAN :
          /\ NextTask("app", "describe") /\ heard' = heard
          /\ peer' = [peer EXCEPT !.track = IF video /\ peer.track = "none" THEN "new"
                                            ELSE peer.track]
          /\ Becomes("app", IF video /\ peer.track # "none" THEN Do("fail") ELSE << >>)
    BY <1>2 DEF TaskDescribe
  <2>2. (IF video /\ peer.track = "none" THEN "new" ELSE peer.track) \in {"none", "new", "open"}
    BY DEF PeerInv, PeerTypes, PeerType
  <2>3. SameFlags
    BY <2>1, <2>2, FlagsStay
  <2>4. AllPlain(IF video /\ peer.track # "none" THEN Do("fail") ELSE << >>)
    BY PlainTasks, PlainLists
  <2> QED
    BY <1>1, <2>1, <2>3, <2>4, PlainHead, PlainTurn
<1>3. CASE TaskAccept
  <2>1. /\ NextTask("app", "accept") /\ heard' = heard
        /\ peer' = peer \/ peer' = [peer EXCEPT !.offer = TRUE]
        /\ \E ts : AllPlain(ts) /\ Becomes("app", ts)
    BY <1>3, PlainTasks DEF TaskAccept
  <2> QED
    BY <1>1, <2>1, PlainHead, PlainTurn, FlagsStay
<1>4. CASE TaskEnd
  <2>1. /\ NextTask("app", "end") /\ heard' = heard /\ peer' = peer
        /\ \E ts : AllPlain(ts) /\ Becomes("app", ts)
    BY <1>4, PlainTasks, PlainLists DEF TaskEnd
  <2> QED
    BY <1>1, <2>1, PlainHead, PlainTurn, FlagsStay
<1> QED
  BY <1>2, <1>3, <1>4

(* The calls of the share and the callbacks. *)
LEMMA AppCalls ==
  ASSUME PeerInv, AcceptOffer \/ AddRemoteCandidate \/ SendAccessUnit PROVE PeerInv'
<1>1. "app" \in PeerThreads
  BY DEF PeerThreads
<1>2. AllPlain(Do("describe") \o Do("accept")) /\ AllPlain(Do("fail")) /\ AllPlain(<< >>)
  BY PlainTasks, PlainLists
<1>3. /\ ~peer.stopped /\ Clear("app") /\ peer' = peer /\ heard' = heard
      /\ \E ts : AllPlain(ts) /\ todo' = [todo EXCEPT !["app"] = ts]
  BY <1>2 DEF AcceptOffer, AddRemoteCandidate, SendAccessUnit, PeerCalls, Leaving
<1> QED
  BY <1>1, <1>3, PlainCall, FlagsStay

LEMMA CallbackKeeps ==
  ASSUME PeerInv, NEW p, NEW ts, AllPlain(ts), Callback(p, ts), SameFlags
  PROVE  PeerInv'
<1>1. "rtc" \in PeerThreads /\ "rtc" # "worker" /\ "rtc" # "app"
  BY DEF PeerThreads
<1> QED
  BY <1>1, PlainCall DEF Callback, PeerCalls

LEMMA RtcCalls ==
  ASSUME PeerInv,
         \/ Connected \/ Disconnected \/ PeerFault \/ TrackOpens \/ Feedback
         \/ AttachControl \/ ControlOpened \/ ControlReceived \/ ControlClosed
  PROVE  PeerInv'
<1>1. /\ AllPlain(Emit("progress")) /\ AllPlain(Do("fail")) /\ AllPlain(<< >>)
      /\ \A r : AllPlain(ApplyControl(r)) /\ AllPlain(ApplyControl(r) \o Emit("progress"))
  BY PlainTasks, PlainLists
<1>2. \A p, ts : Callback(p, ts) => peer' = p
  BY DEF Callback, PeerCalls
<1>3. CASE Connected \/ Disconnected
  BY <1>1, <1>2, <1>3, FlagsStay, CallbackKeeps DEF Connected, Disconnected
<1>4. CASE PeerFault \/ Feedback
  BY <1>1, <1>2, <1>4, FlagsStay, CallbackKeeps DEF PeerFault, Feedback
<1>5. CASE TrackOpens
  BY <1>1, <1>2, <1>5, FlagsStay, CallbackKeeps DEF TrackOpens
<1>6. CASE AttachControl
  <2>1. PICK good \in BOOLEAN :
          LET fits == good /\ peer.chan = "none" /\ ~peer.stopped
          IN  Callback([peer EXCEPT !.chan = IF fits THEN "new" ELSE peer.chan],
                       IF fits THEN << >> ELSE Do("fail"))
    BY <1>6 DEF AttachControl
  <2> DEFINE chan == IF good /\ peer.chan = "none" /\ ~peer.stopped THEN "new" ELSE peer.chan
             ts == IF good /\ peer.chan = "none" /\ ~peer.stopped THEN << >> ELSE Do("fail")
  <2>2. Callback([peer EXCEPT !.chan = chan], ts)
    BY <2>1
  <2>3. chan \in {"none", "new", "open", "closed"} /\ AllPlain(ts)
    BY <1>1 DEF PeerInv, PeerTypes, PeerType
  <2> HIDE DEF chan, ts
  <2> QED
    BY <1>2, <2>2, <2>3, FlagsStay, CallbackKeeps
<1>7. CASE ControlOpened
  <2> DEFINE on == ~peer.stopping /\ ~peer.stopped
             r == OpeningOutput(ctl)
             ts == IF on THEN ApplyControl(r) \o Emit("progress") ELSE << >>
  <2>1. Callback([peer EXCEPT !.chan = "open", !.controlOpen = on], ts)
    BY <1>7 DEF ControlOpened
  <2>2. on \in BOOLEAN /\ AllPlain(ts)
    BY <1>1
  <2> HIDE DEF on, ts
  <2> QED
    BY <1>2, <2>1, <2>2, FlagsStay, CallbackKeeps
<1>8. CASE ControlReceived
  BY <1>1, <1>2, <1>8, FlagsStay, CallbackKeeps DEF ControlReceived
<1>9. CASE ControlClosed
  <2>1. \E ts : AllPlain(ts) /\ Callback([peer EXCEPT !.controlOpen = FALSE, !.chan = "closed"], ts)
    BY <1>1, <1>9 DEF ControlClosed
  <2> QED
    BY <1>2, <2>1, FlagsStay, CallbackKeeps
<1> QED
  BY <1>3, <1>4, <1>5, <1>6, <1>7, <1>8, <1>9

LEMMA WorkerCalls == ASSUME PeerInv, WorkerClock PROVE PeerInv'
<1>1. /\ "worker" \in PeerThreads /\ "worker" # "rtc" /\ "worker" # "app"
      /\ AllPlain(<< >>) /\ \A r : AllPlain(ApplyControl(r))
  BY PlainTasks, PlainLists DEF PeerThreads
<1>2. /\ Clear("worker") /\ ~peer.shutdown /\ peer' = peer /\ heard' = heard
      /\ \E ts : AllPlain(ts) /\ todo' = [todo EXCEPT !["worker"] = ts]
  BY <1>1 DEF WorkerClock, PeerCalls
<1>3. ~peer.workerDone
  BY <1>2 DEF PeerInv, EndIsQuiet
<1> QED
  BY <1>1, <1>2, <1>3, PlainCall, FlagsStay

LEMMA WorkerLeaves == ASSUME PeerInv, WorkerExits PROVE PeerInv'
<1>1. /\ peer.shutdown /\ Clear("worker") /\ heard' = heard
      /\ peer' = [peer EXCEPT !.workerDone = TRUE]
      /\ todo' = [todo EXCEPT !["worker"] = << >>]
  BY DEF WorkerExits, PeerCalls
<1>2. /\ DOMAIN todo' = DOMAIN todo /\ DOMAIN todo = PeerThreads
      /\ \A u \in PeerThreads : todo'[u] = todo[u]
  <2>1. "worker" \in PeerThreads
    BY DEF PeerThreads
  <2> QED
    BY <1>1, <2>1 DEF PeerInv, PeerTypes, Clear
<1>3. /\ peer' \in PeerType /\ peer'.failed = peer.failed /\ peer'.stopping = peer.stopping
      /\ peer'.stopped = peer.stopped /\ peer'.shutdown = peer.shutdown /\ peer'.workerDone = TRUE
      /\ peer'.sealed = peer.sealed /\ peer'.detached = peer.detached
  BY <1>1 DEF PeerInv, PeerTypes, PeerType
<1>4. PeerTypes'
  BY <1>1, <1>2, <1>3 DEF PeerInv, PeerTypes
<1>5. "app" \in PeerThreads /\ "worker" \in PeerThreads /\ "rtc" \in PeerThreads
  BY DEF PeerThreads
<1>6. todo'["app"] = todo["app"] /\ todo'["worker"] = todo["worker"] /\ todo'["rtc"] = todo["rtc"]
  BY <1>2, <1>5
<1>7. StopInOrder'
  <2>1. \A u \in PeerThreads \ {"app"} : \A i \in DOMAIN todo'[u] : StopRank(todo'[u][i]) = 0
    BY <1>2 DEF PeerInv, StopInOrder
  <2> QED
    BY <2>1, <1>3, <1>6 DEF PeerInv, StopInOrder
<1>8. EndIsQuiet'
  BY <1>1, <1>3, <1>6 DEF PeerInv, EndIsQuiet, Clear
<1>9. FailureOnce'
  BY <1>1, <1>2, <1>3 DEF PeerInv, FailureOnce
<1> QED
  BY <1>4, <1>7, <1>8, <1>9 DEF PeerInv

LEMMA FailKeepsPeer == ASSUME PeerInv, NEW t \in PeerThreads, TaskFail(t) PROVE PeerInv'
<1>1. NextTask(t, "fail") /\ heard' = heard
  BY DEF TaskFail
<1>2. CASE Leaving
  <2>1. peer' = peer /\ Becomes(t, << >>)
    BY <1>2 DEF TaskFail
  <2> QED
    BY <1>1, <2>1, PlainHead, PlainLists, PlainTurn, FlagsStay
<1>3. CASE ~Leaving
  <2> DEFINE l == todo[t]
             m == todo'[t]
             ts == Do("seal") \o Emit("failed")
             x == [op |-> "seal"]
             y == [op |-> "emit", event |-> "failed"]
  <2>1. /\ peer' = [peer EXCEPT !.failed = TRUE, !.connected = FALSE] /\ Becomes(t, ts)
        /\ ~peer.failed
    BY <1>3 DEF TaskFail, Leaving
  <2>2. /\ x.op = "seal" /\ StopRank(x) = 0 /\ ~Reports(x)
        /\ y.op = "emit" /\ y.event = "failed" /\ StopRank(y) = 0
    BY DEF StopRank, Reports
  <2>3. ts = <<x>> \o <<y>>
    BY DEF Do, Emit
  <2> HIDE DEF x, y, ts
  <2>4. /\ IsList(ts) /\ Len(ts) = 2 /\ DOMAIN ts = {1, 2} /\ ts[1] = x /\ ts[2] = y
    <3>1. IsList(<<x>>) /\ Len(<<x>>) = 1 /\ <<x>>[1] = x
      BY SingleList
    <3> DEFINE s == <<x>>
    <3>2. IsList(s) /\ Len(s) = 1 /\ s[1] = x /\ ts = s \o <<y>>
      BY <2>3, <3>1
    <3> HIDE DEF s
    <3>3. /\ IsList(ts) /\ Len(ts) = Len(s) + 1 /\ DOMAIN ts = 1 .. (Len(s) + 1)
          /\ \A i \in 1 .. Len(s) : ts[i] = s[i]
          /\ ts[Len(s) + 1] = y
      <4>1. /\ IsList(s \o <<y>>) /\ Len(s \o <<y>>) = Len(s) + 1
            /\ DOMAIN (s \o <<y>>) = 1 .. (Len(s) + 1)
            /\ \A i \in 1 .. Len(s) : (s \o <<y>>)[i] = s[i]
            /\ (s \o <<y>>)[Len(s) + 1] = y
        BY <3>2, ListGrows
      <4> QED
        BY <3>2, <4>1
    <3>4. 1 .. (1 + 1) = {1, 2} /\ 1 \in 1 .. 1 /\ 1 + 1 = 2
      OBVIOUS
    <3> QED
      BY <3>2, <3>3, <3>4
  <2>5. todo[t] # << >> /\ Plain(Head(l)) /\ Head(l).op # "seal"
    BY <1>1, PlainHead
  <2>6. /\ peer' \in PeerType /\ peer'.failed = TRUE /\ peer'.stopping = peer.stopping
        /\ peer'.stopped = peer.stopped /\ peer'.shutdown = peer.shutdown
        /\ peer'.workerDone = peer.workerDone
        /\ peer'.sealed = peer.sealed /\ peer'.detached = peer.detached
    BY <2>1 DEF PeerInv, PeerTypes, PeerType
  <2>7. PeerTypes' /\ StopInOrder' /\ EndIsQuiet'
    <3>1. /\ heard \in [failed : Nat, ended : BOOLEAN, late : BOOLEAN] /\ ~heard.late
      BY DEF PeerInv, PeerTypes, EndIsQuiet
    <3>2. \A i \in DOMAIN ts : StopRank(ts[i]) = 0
      BY <2>2, <2>4
    <3> QED
      BY <1>1, <2>1, <2>4, <2>5, <2>6, <3>1, <3>2, UnrankedTurn DEF StopFlags, Plain
  <2>8. /\ DOMAIN todo' = PeerThreads /\ \A u \in PeerThreads \ {t} : todo'[u] = todo[u]
        /\ DOMAIN l = 1 .. Len(l) /\ Len(l) \in Nat
        /\ \A i \in 1 .. Len(ts) : i \in DOMAIN m /\ m[i] = ts[i]
        /\ \A i \in DOMAIN m :
             i \in 1 .. Len(ts) \/ \E j \in 2 .. Len(l) : m[i] = l[j]
    BY <2>1, <2>4, <2>5, Turn DEF PeerInv
  <2>9. \A u \in PeerThreads : \A i \in DOMAIN todo[u] : ~Reports(todo[u][i])
    BY <2>1 DEF PeerInv, FailureOnce
  <2>10. m[1] = x /\ m[2] = y
    BY <2>4, <2>8
  <2>11. \A i \in DOMAIN m : Reports(m[i]) => i = 2
    <3>1. SUFFICES ASSUME NEW i \in DOMAIN m, Reports(m[i]) PROVE i = 2
      OBVIOUS
    <3>2. \A j \in DOMAIN l : ~Reports(l[j])
      BY <2>9
    <3>3. \A j \in 2 .. Len(l) : j \in DOMAIN l
      BY <2>8
    <3>4. i \in 1 .. Len(ts)
      BY <2>8, <3>1, <3>2, <3>3
    <3>5. i = 1 \/ i = 2
      BY <2>4, <3>4
    <3> QED
      BY <2>2, <2>10, <3>1, <3>5
  <2> HIDE DEF l, m
  <2>12. heard.failed = 0
    BY <2>1 DEF PeerInv, FailureOnce
  <2>13. \A u \in PeerThreads : \A i \in DOMAIN todo'[u] : Reports(todo'[u][i]) =>
           u = t /\ i = 2
    BY <2>8, <2>9, <2>11 DEF m
  <2>14. todo'[t][1].op = "seal"
    BY <2>2, <2>10 DEF m
  <2>15. FailureOnce'
    BY <1>1, <2>6, <2>12, <2>13, <2>14 DEF FailureOnce
  <2> QED
    BY <2>7, <2>15 DEF PeerInv
<1> QED
  BY <1>2, <1>3

(* The seal and the report behind it. *)
LEMMA SealKeepsPeer == ASSUME PeerInv, NEW t \in PeerThreads, TaskSeal(t) PROVE PeerInv'
<1> DEFINE l == todo[t]
           m == todo'[t]
<1>1. /\ todo[t] # << >> /\ Head(l).op = "seal" /\ StopRank(Head(l)) = 0 /\ ~Reports(Head(l))
      /\ peer' = [peer EXCEPT !.sealed = TRUE] /\ heard' = heard /\ Becomes(t, << >>)
  BY DEF TaskSeal, NextTask, StopRank, Reports
<1>2. /\ peer' \in PeerType /\ peer'.failed = peer.failed /\ peer'.stopping = peer.stopping
      /\ peer'.stopped = peer.stopped /\ peer'.shutdown = peer.shutdown
      /\ peer'.workerDone = peer.workerDone
      /\ peer'.sealed = TRUE /\ peer'.detached = peer.detached
  BY <1>1 DEF PeerInv, PeerTypes, PeerType
<1>3. IsList(<< >>) /\ Len(<< >>) = 0 /\ DOMAIN << >> = {}
  BY EmptySeq DEF IsList
<1>4. PeerTypes' /\ StopInOrder' /\ EndIsQuiet'
  <2>1. /\ heard \in [failed : Nat, ended : BOOLEAN, late : BOOLEAN] /\ ~heard.late
    BY DEF PeerInv, PeerTypes, EndIsQuiet
  <2>2. \A i \in DOMAIN << >> : StopRank(<< >>[i]) = 0
    BY <1>3
  <2> QED
    BY <1>1, <1>2, <1>3, <2>1, <2>2, UnrankedTurn DEF StopFlags
<1>5. /\ DOMAIN todo' = PeerThreads /\ \A u \in PeerThreads \ {t} : todo'[u] = todo[u]
      /\ DOMAIN l = 1 .. Len(l) /\ Len(l) \in Nat /\ Head(l) = l[1]
      /\ \A i \in DOMAIN m : \E j \in 2 .. Len(l) : i = 0 + (j - 1) /\ m[i] = l[j]
  <2>1. 1 .. Len(<< >>) = {}
    BY <1>3
  <2> QED
    BY <1>1, <1>3, <2>1, Turn DEF PeerInv
<1> HIDE DEF l, m
<1>6. \A i \in DOMAIN m : i + 1 \in DOMAIN l /\ m[i] = l[i + 1]
  BY <1>5
<1>7. \A i \in DOMAIN m : Reports(m[i]) =>
        i = 1 /\ 2 \in DOMAIN l /\ Reports(l[2]) /\ peer.failed /\ heard.failed = 0
  <2> SUFFICES ASSUME NEW i \in DOMAIN m, Reports(m[i])
               PROVE  i = 1 /\ 2 \in DOMAIN l /\ Reports(l[2]) /\ peer.failed /\ heard.failed = 0
    OBVIOUS
  <2>1. i + 1 \in DOMAIN l /\ Reports(l[i + 1])
    BY <1>6
  <2>2. (i + 1 = 1 \/ i + 1 = 2) /\ peer.failed /\ heard.failed = 0
    BY <2>1 DEF PeerInv, FailureOnce, l
  <2>3. i + 1 # 1
    BY <1>1, <1>5, <2>1
  <2>4. i = 1
    BY <1>5, <1>6, <2>2, <2>3
  <2> QED
    BY <2>1, <2>2, <2>3, <2>4
<1>8. FailureOnce'
  <2>1. ASSUME NEW u \in PeerThreads, NEW i \in DOMAIN todo'[u], Reports(todo'[u][i])
        PROVE  /\ peer.failed /\ heard.failed = 0
               /\ (i = 1) \/ (i = 2 /\ todo'[u][1].op = "seal")
               /\ \E j \in DOMAIN todo[u] : /\ Reports(todo[u][j])
                                            /\ j = IF u = t THEN i + 1 ELSE i
    <3>1. CASE u = t
      BY <1>7, <2>1, <3>1 DEF l, m
    <3>2. CASE u # t
      <4>1. todo'[u] = todo[u]
        BY <1>5, <3>2
      <4> QED
        BY <2>1, <3>2, <4>1 DEF PeerInv, FailureOnce
    <3> QED
      BY <3>1, <3>2
  <2>2. ASSUME NEW u \in PeerThreads, NEW i \in DOMAIN todo'[u], Reports(todo'[u][i]),
               NEW v \in PeerThreads, NEW j \in DOMAIN todo'[v], Reports(todo'[v][j])
        PROVE  u = v /\ i = j
    <3>1. PICK a \in DOMAIN todo[u] : Reports(todo[u][a]) /\ a = IF u = t THEN i + 1 ELSE i
      BY <2>1, <2>2
    <3>2. PICK b \in DOMAIN todo[v] : Reports(todo[v][b]) /\ b = IF v = t THEN j + 1 ELSE j
      BY <2>1, <2>2
    <3>3. u = v /\ a = b
      BY <3>1, <3>2 DEF PeerInv, FailureOnce
    <3>4. (i = 1 \/ i = 2) /\ (j = 1 \/ j = 2)
      BY <2>1, <2>2
    <3> QED
      BY <3>1, <3>2, <3>3, <3>4
  <2>3. /\ heard'.failed \in {0, 1}
        /\ ~peer'.failed => heard'.failed = 0
    BY <1>1, <1>2 DEF PeerInv, FailureOnce
  <2>4. \A u \in PeerThreads : \A i \in DOMAIN todo'[u] : Reports(todo'[u][i]) =>
          /\ peer'.failed /\ heard'.failed = 0
          /\ (i = 1 /\ peer'.sealed) \/ (i = 2 /\ todo'[u][1].op = "seal")
    BY <1>1, <1>2, <2>1
  <2>5. \A u, v \in PeerThreads : \A i \in DOMAIN todo'[u], j \in DOMAIN todo'[v] :
          Reports(todo'[u][i]) /\ Reports(todo'[v][j]) => u = v /\ i = j
    BY <2>2
  <2> QED
    BY <1>2, <2>3, <2>4, <2>5 DEF FailureOnce
<1> QED
  BY <1>4, <1>8 DEF PeerInv

(* The events: progress, the failure and the end. *)
LEMMA EmitKeepsPeer == ASSUME PeerInv, NEW t \in PeerThreads, TaskEmit(t) PROVE PeerInv'
<1> DEFINE l == todo[t]
           m == todo'[t]
           e == Head(l).event
<1>1. /\ todo[t] # << >> /\ Head(l).op = "emit" /\ peer' = peer /\ Becomes(t, << >>)
      /\ heard' = [failed |-> heard.failed + IF e = "failed" THEN 1 ELSE 0,
                   ended |-> heard.ended \/ e = "ended", late |-> heard.late \/ heard.ended]
  BY DEF TaskEmit, NextTask
<1>2. IsList(<< >>) /\ Len(<< >>) = 0 /\ DOMAIN << >> = {} /\ 1 .. Len(<< >>) = {}
  BY EmptySeq DEF IsList
<1>3. /\ heard \in [failed : Nat, ended : BOOLEAN, late : BOOLEAN] /\ heard.late = FALSE
      /\ peer \in PeerType
  BY DEF PeerInv, PeerTypes, EndIsQuiet
<1>4. heard.ended = FALSE
  <2>1. heard.ended => Clear("rtc") /\ Clear("worker") /\ Clear("app")
    BY DEF PeerInv, EndIsQuiet
  <2>2. ~Clear(t)
    BY <1>1 DEF Clear
  <2> QED
    BY <1>3, <2>1, <2>2 DEF PeerThreads
<1>5. /\ DOMAIN todo' = PeerThreads /\ \A u \in PeerThreads \ {t} : todo'[u] = todo[u]
      /\ IsList(m)
      /\ DOMAIN l = 1 .. Len(l) /\ Len(l) \in Nat \ {0} /\ Head(l) = l[1]
      /\ \A i \in DOMAIN m : \E j \in 2 .. Len(l) : i = 0 + (j - 1) /\ m[i] = l[j]
  BY <1>1, <1>2, Turn DEF PeerInv
<1> HIDE DEF l, m
<1>6. \A i \in DOMAIN m : i + 1 \in DOMAIN l /\ m[i] = l[i + 1] /\ i \in Nat \ {0}
  BY <1>5
<1> HIDE DEF e
<1>7. CASE e # "failed" /\ e # "ended"
  <2>1. heard' = heard
    BY <1>1, <1>3, <1>4, <1>7
  <2>2. Plain(Head(l)) /\ Head(l).op # "seal"
    BY <1>1, <1>7 DEF Plain, StopRank, Reports, e
  <2> QED
    BY <1>1, <2>1, <2>2, PlainLists, PlainTurn, FlagsStay DEF l
<1>8. CASE e = "failed"
  <2>1. Reports(l[1]) /\ StopRank(Head(l)) = 0
    BY <1>1, <1>5, <1>8 DEF Reports, StopRank, e
  <2>2. 1 \in DOMAIN l
    BY <1>5
  <2>3. heard.failed = 0 /\ peer.failed /\ peer.sealed
    BY <2>1, <2>2 DEF PeerInv, FailureOnce, l
  <2>4. heard' = [failed |-> 1, ended |-> FALSE, late |-> FALSE]
    <3>1. (heard.ended \/ e = "ended") = FALSE /\ (heard.late \/ heard.ended) = FALSE
      BY <1>3, <1>4, <1>8
    <3>2. heard.failed + (IF e = "failed" THEN 1 ELSE 0) = 1
      BY <1>8, <2>3
    <3> QED
      BY <1>1, <3>1, <3>2
  <2>5. PeerTypes' /\ StopInOrder' /\ EndIsQuiet'
    <3>1. \A i \in DOMAIN << >> : StopRank(<< >>[i]) = 0
      BY <1>2
    <3>2. /\ heard' \in [failed : Nat, ended : BOOLEAN, late : BOOLEAN] /\ ~heard'.late
          /\ heard'.ended = heard.ended
      BY <1>4, <2>4
    <3>3. StopFlags
      BY <1>1, <1>3 DEF StopFlags
    <3> QED
      BY <1>1, <1>2, <2>1, <3>1, <3>2, <3>3, UnrankedTurn DEF l
  <2>6. \A u \in PeerThreads : \A i \in DOMAIN todo'[u] : ~Reports(todo'[u][i])
    <3> SUFFICES ASSUME NEW u \in PeerThreads, NEW i \in DOMAIN todo'[u], Reports(todo'[u][i])
                 PROVE  FALSE
      OBVIOUS
    <3>1. CASE u = t
      <4>1. i + 1 \in DOMAIN todo[t] /\ Reports(todo[t][i + 1]) /\ i + 1 # 1
        BY <1>6, <3>1 DEF l, m
      <4> QED
        BY <2>1, <2>2, <4>1 DEF PeerInv, FailureOnce, l
    <3>2. CASE u # t
      <4>1. i \in DOMAIN todo[u] /\ Reports(todo[u][i])
        BY <1>5, <3>2
      <4> QED
        BY <2>1, <2>2, <3>2, <4>1 DEF PeerInv, FailureOnce, l
    <3> QED
      BY <3>1, <3>2
  <2>7. FailureOnce'
    BY <1>1, <2>3, <2>4, <2>6 DEF FailureOnce
  <2> QED
    BY <2>5, <2>7 DEF PeerInv
<1>9. CASE e = "ended"
  <2>1. StopRank(l[1]) = 5 /\ ~Reports(l[1])
    BY <1>1, <1>5, <1>9 DEF Reports, StopRank, e
  <2>2. 1 \in DOMAIN l
    BY <1>5
  <2>3. t = "app"
    BY <2>1, <2>2 DEF PeerInv, StopInOrder, l
  <2>4. \A i \in DOMAIN l : i = 1
    <3> SUFFICES ASSUME NEW i \in DOMAIN l, i # 1 PROVE FALSE
      OBVIOUS
    <3>1. 1 < i
      BY <1>5
    <3>2. StopRank(l[1]) < StopRank(l[i])
      BY <2>1, <2>2, <2>3, <3>1 DEF PeerInv, StopInOrder, l
    <3> QED
      BY <2>1, <3>2, RankFacts
  <2>5. Has(l, 5) /\ ~Has(l, 2) /\ ~Has(l, 3) /\ ~Has(l, 4)
    BY <2>1, <2>2, <2>4 DEF Has
  <2>6. peer.detached /\ peer.workerDone /\ peer.stopped
    BY <2>3, <2>5 DEF PeerInv, StopInOrder, l
  <2>7. DOMAIN m = {}
    BY <1>6, <2>4
  <2>8. m = << >>
    <3>1. Len(m) \in Nat /\ DOMAIN m = 1 .. Len(m) /\ (m = << >> <=> Len(m) = 0)
      BY <1>5, ListFacts
    <3> QED
      BY <2>7, <3>1
  <2>9. heard' = [failed |-> heard.failed, ended |-> TRUE, late |-> FALSE]
    <3>1. (heard.ended \/ e = "ended") = TRUE /\ (heard.late \/ heard.ended) = FALSE
      BY <1>3, <1>4, <1>9
    <3>2. heard.failed + (IF e = "failed" THEN 1 ELSE 0) = heard.failed
      BY <1>3, <1>9
    <3> QED
      BY <1>1, <3>1, <3>2
  <2>10. PeerTypes'
    <3>1. \A u \in PeerThreads : IsList(todo'[u])
      BY <1>5 DEF PeerInv, PeerTypes, m
    <3>2. heard' \in [failed : Nat, ended : BOOLEAN, late : BOOLEAN]
      BY <1>3, <2>9
    <3> QED
      BY <1>1, <1>3, <1>5, <3>1, <3>2 DEF PeerTypes
  <2>11. /\ todo'["app"] = << >> /\ DOMAIN todo'["app"] = {}
         /\ todo'["rtc"] = todo["rtc"] /\ todo'["worker"] = todo["worker"]
    BY <1>5, <2>3, <2>7, <2>8 DEF m, PeerThreads
  <2>12. StopInOrder'
    <3>1. \A u \in PeerThreads \ {"app"} : \A i \in DOMAIN todo'[u] : StopRank(todo'[u][i]) = 0
      BY <1>5, <2>3 DEF PeerInv, StopInOrder
    <3>2. ~Has(todo'["app"], 5)
      BY <2>11 DEF Has
    <3> QED
      BY <2>11, <3>1, <3>2 DEF StopInOrder
  <2>13. EndIsQuiet'
    BY <1>1, <2>6, <2>9, <2>11 DEF PeerInv, EndIsQuiet, Clear
  <2>14. FailureOnce'
    <3>1. \A u \in PeerThreads : \A i \in DOMAIN todo'[u] : Reports(todo'[u][i]) =>
            todo'[u] = todo[u] /\ i \in DOMAIN todo[u] /\ Reports(todo[u][i])
      BY <1>5, <2>7 DEF m
    <3>2. heard'.failed = heard.failed
      BY <2>9
    <3> QED
      BY <1>1, <3>1, <3>2 DEF PeerInv, FailureOnce
  <2> QED
    BY <2>10, <2>12, <2>13, <2>14 DEF PeerInv
<1> QED
  BY <1>7, <1>8, <1>9

(* The share takes the next task of stop. *)
LEMMA RankedTurn ==
  ASSUME PeerInv, NEW k \in 1 .. 4, todo["app"] # << >>, StopRank(Head(todo["app"])) = k,
         Becomes("app", << >>)
  PROVE  /\ DOMAIN todo' = PeerThreads /\ \A t \in PeerThreads : IsList(todo'[t])
         /\ todo'["rtc"] = todo["rtc"] /\ todo'["worker"] = todo["worker"]
         /\ \A t \in PeerThreads \ {"app"} : \A i \in DOMAIN todo'[t] : StopRank(todo'[t][i]) = 0
         /\ \A i, j \in DOMAIN todo'["app"] :
              i < j /\ StopRank(todo'["app"][i]) > 0 => StopRank(todo'["app"][i]) < StopRank(todo'["app"][j])
         /\ \A i \in DOMAIN todo'["app"] : StopRank(todo'["app"][i]) > k
         /\ \A rank \in 1 .. 5 : rank # k => (Has(todo'["app"], rank) <=> Has(todo["app"], rank))
         /\ \A t \in PeerThreads : \A i \in DOMAIN todo'[t] : Reports(todo'[t][i]) =>
              todo'[t] = todo[t] /\ i \in DOMAIN todo[t] /\ Reports(todo[t][i])
         /\ ~heard.ended
<1> DEFINE l == todo["app"]
           m == todo'["app"]
<1>1. /\ "app" \in PeerThreads /\ "rtc" \in PeerThreads \ {"app"}
      /\ "worker" \in PeerThreads \ {"app"}
  BY DEF PeerThreads
<1>2. IsList(<< >>) /\ Len(<< >>) = 0 /\ 1 .. Len(<< >>) = {}
  BY EmptySeq DEF IsList
<1>3. /\ DOMAIN todo' = PeerThreads /\ \A u \in PeerThreads \ {"app"} : todo'[u] = todo[u]
      /\ IsList(m)
      /\ DOMAIN l = 1 .. Len(l) /\ Len(l) \in Nat \ {0} /\ Head(l) = l[1]
      /\ \A i \in 2 .. Len(l) : 0 + (i - 1) \in DOMAIN m /\ m[0 + (i - 1)] = l[i]
      /\ \A i \in DOMAIN m : \E j \in 2 .. Len(l) : i = 0 + (j - 1) /\ m[i] = l[j]
  BY <1>1, <1>2, Turn DEF PeerInv
<1> HIDE DEF l, m
<1>4. \A i \in DOMAIN m : i + 1 \in DOMAIN l /\ m[i] = l[i + 1] /\ i \in Nat \ {0}
  BY <1>3
<1>5. StopRank(l[1]) = k /\ 1 \in DOMAIN l /\ k > 0
  BY <1>3 DEF l
<1>6. \A i, j \in DOMAIN l : i < j /\ StopRank(l[i]) > 0 => StopRank(l[i]) < StopRank(l[j])
  BY DEF PeerInv, StopInOrder, l
<1>7. \A i, j \in DOMAIN m : i < j /\ StopRank(m[i]) > 0 => StopRank(m[i]) < StopRank(m[j])
  <2> SUFFICES ASSUME NEW i \in DOMAIN m, NEW j \in DOMAIN m, i < j, StopRank(m[i]) > 0
               PROVE  StopRank(m[i]) < StopRank(m[j])
    OBVIOUS
  <2>1. i + 1 < j + 1
    BY <1>4
  <2> QED
    BY <1>4, <1>6, <2>1
<1>8. \A i \in DOMAIN m : StopRank(m[i]) > k
  <2> SUFFICES ASSUME NEW i \in DOMAIN m PROVE StopRank(m[i]) > k
    OBVIOUS
  <2>1. 1 < i + 1
    BY <1>4
  <2>2. StopRank(l[1]) < StopRank(l[i + 1])
    BY <1>4, <1>5, <1>6, <2>1
  <2>3. StopRank(l[i + 1]) \in Nat
    BY RankFacts
  <2> QED
    BY <1>4, <1>5, <2>2, <2>3
<1>9. \A rank \in 1 .. 5 : rank # k => (Has(m, rank) <=> Has(l, rank))
  <2> SUFFICES ASSUME NEW rank \in 1 .. 5, rank # k PROVE Has(m, rank) <=> Has(l, rank)
    OBVIOUS
  <2>1. ASSUME Has(m, rank) PROVE Has(l, rank)
    BY <1>4, <2>1 DEF Has
  <2>2. ASSUME Has(l, rank) PROVE Has(m, rank)
    <3>1. PICK i \in DOMAIN l : StopRank(l[i]) = rank
      BY <2>2 DEF Has
    <3>2. i # 1
      BY <1>5, <3>1
    <3>3. i \in 2 .. Len(l)
      BY <1>3, <3>2
    <3> QED
      BY <1>3, <3>1, <3>3 DEF Has
  <2> QED
    BY <2>1, <2>2
<1>10. \A i \in DOMAIN m : ~Reports(m[i])
  <2> SUFFICES ASSUME NEW i \in DOMAIN m, Reports(m[i]) PROVE FALSE
    OBVIOUS
  <2>1. i + 1 = 1 \/ l[1].op = "seal"
    BY <1>1, <1>4 DEF PeerInv, FailureOnce, l
  <2>2. l[1].op # "seal"
    BY <1>5 DEF StopRank
  <2> QED
    BY <1>4, <2>1, <2>2
<1>11. \A t \in PeerThreads : \A i \in DOMAIN todo'[t] : Reports(todo'[t][i]) =>
         todo'[t] = todo[t] /\ i \in DOMAIN todo[t] /\ Reports(todo[t][i])
  BY <1>3, <1>10 DEF m
<1>12. \A t \in PeerThreads : IsList(todo'[t])
  BY <1>3 DEF PeerInv, PeerTypes, m
<1>13. \A t \in PeerThreads \ {"app"} : \A i \in DOMAIN todo'[t] : StopRank(todo'[t][i]) = 0
  BY <1>3 DEF PeerInv, StopInOrder
<1>14. ~heard.ended
  BY DEF PeerInv, EndIsQuiet, Clear
<1>15. todo'["rtc"] = todo["rtc"] /\ todo'["worker"] = todo["worker"]
  BY <1>1, <1>3
<1> QED
  BY <1>3, <1>7, <1>8, <1>9, <1>11, <1>12, <1>13, <1>14, <1>15 DEF l, m

LEMMA FailuresStay ==
  ASSUME PeerInv,
         \A t \in PeerThreads : \A i \in DOMAIN todo'[t] : Reports(todo'[t][i]) =>
           todo'[t] = todo[t] /\ i \in DOMAIN todo[t] /\ Reports(todo[t][i]),
         heard' = heard, peer'.failed = peer.failed, peer'.sealed = peer.sealed
  PROVE  FailureOnce'
BY DEF PeerInv, FailureOnce

LEMMA StopTasks ==
  ASSUME PeerInv, TaskShutdown \/ TaskReset \/ TaskJoin \/ TaskFinish
  PROVE  PeerInv'
<1>1. heard' = heard /\ peer \in PeerType /\ heard \in [failed : Nat, ended : BOOLEAN, late : BOOLEAN]
  BY DEF PeerInv, PeerTypes, TaskShutdown, TaskReset, TaskJoin, TaskFinish
<1>2. \A s, rank : Has(s, rank) => \E i \in DOMAIN s : StopRank(s[i]) = rank
  BY DEF Has
<1>3. CASE TaskShutdown
  <2>1. /\ todo["app"] # << >> /\ StopRank(Head(todo["app"])) = 1 /\ Becomes("app", << >>)
        /\ peer' = [peer EXCEPT !.shutdown = TRUE]
    BY <1>3 DEF TaskShutdown, NextTask, StopRank
  <2>2. /\ peer' \in PeerType /\ peer'.failed = peer.failed /\ peer'.stopping = peer.stopping
        /\ peer'.stopped = peer.stopped /\ peer'.shutdown = TRUE
        /\ peer'.workerDone = peer.workerDone
        /\ peer'.sealed = peer.sealed /\ peer'.detached = peer.detached
    BY <1>1, <2>1 DEF PeerType
  <2>3. 1 \in 1 .. 4
    OBVIOUS
  <2>4. PeerTypes' /\ FailureOnce'
    BY <1>1, <2>1, <2>2, <2>3, RankedTurn, FailuresStay DEF PeerTypes
  <2>5. StopInOrder' /\ EndIsQuiet'
    <3>1. /\ Has(todo'["app"], 5) <=> Has(todo["app"], 5)
          /\ Has(todo'["app"], 2) <=> Has(todo["app"], 2)
          /\ Has(todo'["app"], 3) <=> Has(todo["app"], 3)
          /\ Has(todo'["app"], 4) <=> Has(todo["app"], 4)
      BY <2>1, <2>3, RankedTurn
    <3>2. peer.stopping
      <4>1. IsList(todo["app"])
        BY DEF PeerInv, PeerTypes, PeerThreads
      <4>2. 1 \in DOMAIN todo["app"] /\ StopRank(todo["app"][1]) = 1
        BY <2>1, <4>1, ListFacts
      <4> QED
        BY <4>2 DEF PeerInv, StopInOrder
    <3>3. StopInOrder'
      BY <2>1, <2>2, <2>3, <3>1, <3>2, RankedTurn DEF PeerInv, StopInOrder
    <3>4. EndIsQuiet'
      BY <1>1, <2>1, <2>2, <2>3, RankedTurn DEF PeerInv, EndIsQuiet, Clear
    <3> QED
      BY <3>3, <3>4
  <2> QED
    BY <2>4, <2>5 DEF PeerInv
<1>4. CASE TaskReset
  <2>1. /\ todo["app"] # << >> /\ StopRank(Head(todo["app"])) = 2 /\ Becomes("app", << >>)
        /\ peer' = [peer EXCEPT !.detached = TRUE,
                                !.chan = IF peer.chan = "none" THEN peer.chan ELSE "closed"]
        /\ Clear("rtc")
    BY <1>4 DEF TaskReset, NextTask, StopRank
  <2>2. /\ peer' \in PeerType /\ peer'.failed = peer.failed /\ peer'.stopping = peer.stopping
        /\ peer'.stopped = peer.stopped /\ peer'.shutdown = peer.shutdown
        /\ peer'.workerDone = peer.workerDone
        /\ peer'.sealed = peer.sealed /\ peer'.detached = TRUE
    BY <1>1, <2>1 DEF PeerType
  <2>3. 2 \in 1 .. 4
    OBVIOUS
  <2>4. PeerTypes' /\ FailureOnce'
    BY <1>1, <2>1, <2>2, <2>3, RankedTurn, FailuresStay DEF PeerTypes
  <2>5. StopInOrder' /\ EndIsQuiet'
    <3>1. /\ Has(todo'["app"], 5) <=> Has(todo["app"], 5)
          /\ Has(todo'["app"], 3) <=> Has(todo["app"], 3)
          /\ Has(todo'["app"], 4) <=> Has(todo["app"], 4)
      BY <2>1, <2>3, RankedTurn
    <3>2. peer.stopping
      <4>1. IsList(todo["app"])
        BY DEF PeerInv, PeerTypes, PeerThreads
      <4>2. 1 \in DOMAIN todo["app"] /\ StopRank(todo["app"][1]) = 2
        BY <2>1, <4>1, ListFacts
      <4> QED
        BY <4>2 DEF PeerInv, StopInOrder
    <3>3. StopInOrder'
      BY <2>1, <2>2, <2>3, <3>1, <3>2, RankedTurn DEF PeerInv, StopInOrder
    <3>4. EndIsQuiet'
      BY <1>1, <2>1, <2>2, <2>3, RankedTurn DEF PeerInv, EndIsQuiet, Clear
    <3> QED
      BY <3>3, <3>4
  <2> QED
    BY <2>4, <2>5 DEF PeerInv
<1>5. CASE TaskJoin
  <2>1. /\ todo["app"] # << >> /\ StopRank(Head(todo["app"])) = 3 /\ Becomes("app", << >>)
        /\ peer' = peer /\ peer.workerDone
    BY <1>5 DEF TaskJoin, NextTask, StopRank
  <2>2. 3 \in 1 .. 4
    OBVIOUS
  <2>3. PeerTypes' /\ FailureOnce'
    BY <1>1, <2>1, <2>2, RankedTurn, FailuresStay DEF PeerTypes
  <2>4. StopInOrder' /\ EndIsQuiet'
    <3>1. /\ Has(todo'["app"], 5) <=> Has(todo["app"], 5)
          /\ Has(todo'["app"], 2) <=> Has(todo["app"], 2)
          /\ Has(todo'["app"], 4) <=> Has(todo["app"], 4)
      BY <2>1, <2>2, RankedTurn
    <3>2. peer.stopping
      <4>1. IsList(todo["app"])
        BY DEF PeerInv, PeerTypes, PeerThreads
      <4>2. 1 \in DOMAIN todo["app"] /\ StopRank(todo["app"][1]) = 3
        BY <2>1, <4>1, ListFacts
      <4> QED
        BY <4>2 DEF PeerInv, StopInOrder
    <3>3. StopInOrder'
      BY <2>1, <2>2, <3>1, <3>2, RankedTurn DEF PeerInv, StopInOrder
    <3>4. EndIsQuiet'
      BY <1>1, <2>1, <2>2, RankedTurn DEF PeerInv, EndIsQuiet, Clear
    <3> QED
      BY <3>3, <3>4
  <2> QED
    BY <2>3, <2>4 DEF PeerInv
<1>6. CASE TaskFinish
  <2>1. /\ todo["app"] # << >> /\ StopRank(Head(todo["app"])) = 4 /\ Becomes("app", << >>)
        /\ peer' = [peer EXCEPT !.track = "none", !.controlOpen = FALSE,
                                !.stopped = TRUE, !.stopping = FALSE]
    BY <1>6 DEF TaskFinish, NextTask, StopRank
  <2>2. /\ peer' \in PeerType /\ peer'.failed = peer.failed /\ peer'.stopping = FALSE
        /\ peer'.stopped = TRUE /\ peer'.shutdown = peer.shutdown
        /\ peer'.workerDone = peer.workerDone
        /\ peer'.sealed = peer.sealed /\ peer'.detached = peer.detached
    BY <1>1, <2>1 DEF PeerType
  <2>3. 4 \in 1 .. 4
    OBVIOUS
  <2>4. PeerTypes' /\ FailureOnce'
    BY <1>1, <2>1, <2>2, <2>3, RankedTurn, FailuresStay DEF PeerTypes
  <2>5. StopInOrder' /\ EndIsQuiet'
    <3>1. /\ Has(todo'["app"], 5) <=> Has(todo["app"], 5)
          /\ Has(todo'["app"], 2) <=> Has(todo["app"], 2)
          /\ Has(todo'["app"], 3) <=> Has(todo["app"], 3)
      BY <2>1, <2>3, RankedTurn
    <3>2. \A i \in DOMAIN todo'["app"] : StopRank(todo'["app"][i]) \in {0, 5}
      <4> SUFFICES ASSUME NEW i \in DOMAIN todo'["app"] PROVE StopRank(todo'["app"][i]) = 5
        OBVIOUS
      <4>1. StopRank(todo'["app"][i]) > 4
        BY <2>1, <2>3, RankedTurn
      <4>2. StopRank(todo'["app"][i]) \in 0 .. 5
        BY RankFacts
      <4> QED
        BY <4>1, <4>2
    <3>3. StopInOrder'
      BY <2>1, <2>2, <2>3, <3>1, <3>2, RankedTurn DEF PeerInv, StopInOrder
    <3>4. EndIsQuiet'
      BY <1>1, <2>1, <2>2, <2>3, RankedTurn DEF PeerInv, EndIsQuiet, Clear
    <3> QED
      BY <3>3, <3>4
  <2> QED
    BY <2>4, <2>5 DEF PeerInv
<1> QED
  BY <1>3, <1>4, <1>5, <1>6

(* The list stop starts with: its tasks in their order, the end last.      *)
LEMMA StopList ==
  ASSUME NEW b, AllPlain(b), NEW ts,
         ts = ((((b \o Do("shutdown")) \o Do("reset")) \o Do("join")) \o Do("finish")) \o Emit("ended")
  PROVE  /\ IsList(ts) /\ \A i \in DOMAIN ts : ~Reports(ts[i])
         /\ \A i, j \in DOMAIN ts : i < j /\ StopRank(ts[i]) > 0 => StopRank(ts[i]) < StopRank(ts[j])
         /\ Has(ts, 2) /\ Has(ts, 3) /\ Has(ts, 4)
<1> DEFINE n == Len(b)
           x1 == [op |-> "shutdown"]
           x2 == [op |-> "reset"]
           x3 == [op |-> "join"]
           x4 == [op |-> "finish"]
           x5 == [op |-> "emit", event |-> "ended"]
           s1 == b \o <<x1>>
           s2 == s1 \o <<x2>>
           s3 == s2 \o <<x3>>
           s4 == s3 \o <<x4>>
           s5 == s4 \o <<x5>>
<1>1. ts = s5
  BY DEF Do, Emit
<1>2. /\ StopRank(x1) = 1 /\ StopRank(x2) = 2 /\ StopRank(x3) = 3 /\ StopRank(x4) = 4 /\ StopRank(x5) = 5
      /\ ~Reports(x1) /\ ~Reports(x2) /\ ~Reports(x3) /\ ~Reports(x4) /\ ~Reports(x5)
  BY DEF StopRank, Reports
<1> HIDE DEF x1, x2, x3, x4, x5
<1>3. /\ IsList(b) /\ n \in Nat /\ DOMAIN b = 1 .. n
      /\ \A i \in 1 .. n : StopRank(b[i]) = 0 /\ ~Reports(b[i])
  BY ListFacts DEF AllPlain, Plain
<1>4. /\ IsList(s1) /\ Len(s1) = n + 1 /\ \A i \in 1 .. n : s1[i] = b[i]
      /\ s1[n + 1] = x1
  BY <1>3, ListGrows
<1> HIDE DEF s1
<1>5. /\ IsList(s2) /\ Len(s2) = n + 1 + 1 /\ \A i \in 1 .. n + 1 : s2[i] = s1[i]
      /\ s2[n + 1 + 1] = x2
  BY <1>4, ListGrows
<1> HIDE DEF s2
<1>6. /\ IsList(s3) /\ Len(s3) = n + 1 + 1 + 1 /\ \A i \in 1 .. n + 1 + 1 : s3[i] = s2[i]
      /\ s3[n + 1 + 1 + 1] = x3
  BY <1>5, ListGrows
<1> HIDE DEF s3
<1>7. /\ IsList(s4) /\ Len(s4) = n + 1 + 1 + 1 + 1
      /\ \A i \in 1 .. n + 1 + 1 + 1 : s4[i] = s3[i]
      /\ s4[n + 1 + 1 + 1 + 1] = x4
  BY <1>6, ListGrows
<1> HIDE DEF s4
<1>8. /\ IsList(s5) /\ Len(s5) = n + 1 + 1 + 1 + 1 + 1
      /\ \A i \in 1 .. n + 1 + 1 + 1 + 1 : s5[i] = s4[i]
      /\ s5[n + 1 + 1 + 1 + 1 + 1] = x5 /\ DOMAIN s5 = 1 .. n + 1 + 1 + 1 + 1 + 1
  BY <1>7, ListGrows
<1> HIDE DEF s5, n
<1>9. /\ n + 1 + 1 = n + 2 /\ n + 1 + 1 + 1 = n + 3 /\ n + 1 + 1 + 1 + 1 = n + 4
      /\ n + 1 + 1 + 1 + 1 + 1 = n + 5
  BY <1>3
<1>10. /\ \A i \in 1 .. n : i \in 1 .. n + 1 /\ i \in 1 .. n + 2 /\ i \in 1 .. n + 3 /\ i \in 1 .. n + 4
       /\ n + 1 \in 1 .. n + 1 /\ n + 1 \in 1 .. n + 2 /\ n + 1 \in 1 .. n + 3 /\ n + 1 \in 1 .. n + 4
       /\ n + 2 \in 1 .. n + 2 /\ n + 2 \in 1 .. n + 3 /\ n + 2 \in 1 .. n + 4
       /\ n + 3 \in 1 .. n + 3 /\ n + 3 \in 1 .. n + 4 /\ n + 4 \in 1 .. n + 4
  BY <1>3
<1>11. \A i \in 1 .. n : StopRank(s5[i]) = 0 /\ ~Reports(s5[i])
  <2> SUFFICES ASSUME NEW i \in 1 .. n PROVE s5[i] = b[i]
    BY <1>3
  <2>1. s1[i] = b[i] /\ s2[i] = s1[i]
    BY <1>4, <1>5, <1>10
  <2>2. s3[i] = s2[i] /\ s4[i] = s3[i] /\ s5[i] = s4[i]
    BY <1>6, <1>7, <1>8, <1>9, <1>10
  <2> QED
    BY <2>1, <2>2
<1>12. s5[n + 1] = x1
  <2>1. s2[n + 1] = x1
    BY <1>4, <1>5, <1>10
  <2>2. s3[n + 1] = s2[n + 1] /\ s4[n + 1] = s3[n + 1] /\ s5[n + 1] = s4[n + 1]
    BY <1>6, <1>7, <1>8, <1>9, <1>10
  <2> QED
    BY <2>1, <2>2
<1>13. s5[n + 2] = x2 /\ s5[n + 3] = x3 /\ s5[n + 4] = x4 /\ s5[n + 5] = x5
  <2>1. s2[n + 2] = x2 /\ s3[n + 3] = x3 /\ s4[n + 4] = x4 /\ s5[n + 5] = x5
    BY <1>5, <1>6, <1>7, <1>8, <1>9
  <2>2. s3[n + 2] = s2[n + 2] /\ s4[n + 2] = s3[n + 2] /\ s5[n + 2] = s4[n + 2]
    BY <1>6, <1>7, <1>8, <1>9, <1>10
  <2>3. s4[n + 3] = s3[n + 3] /\ s5[n + 3] = s4[n + 3] /\ s5[n + 4] = s4[n + 4]
    BY <1>7, <1>8, <1>9, <1>10
  <2> QED
    BY <2>1, <2>2, <2>3
<1>14. /\ DOMAIN s5 = 1 .. n + 5
       /\ \A i \in 1 .. n + 5 : \/ i \in 1 .. n
                                \/ i = n + 1 \/ i = n + 2 \/ i = n + 3 \/ i = n + 4 \/ i = n + 5
  BY <1>3, <1>8, <1>9
<1>15. ASSUME NEW i \in DOMAIN s5, NEW j \in DOMAIN s5, i < j, StopRank(s5[i]) > 0
       PROVE  StopRank(s5[i]) < StopRank(s5[j])
  <2>1. i \notin 1 .. n
    BY <1>11, <1>15
  <2>2. \A k \in DOMAIN s5 : k \notin 1 .. n => StopRank(s5[k]) = k - n /\ k \in Nat
    <3> SUFFICES ASSUME NEW k \in DOMAIN s5, k \notin 1 .. n
                 PROVE  StopRank(s5[k]) = k - n /\ k \in Nat
      OBVIOUS
    <3>1. \/ k = n + 1 /\ StopRank(s5[k]) = 1
          \/ k = n + 2 /\ StopRank(s5[k]) = 2
          \/ k = n + 3 /\ StopRank(s5[k]) = 3
          \/ k = n + 4 /\ StopRank(s5[k]) = 4
          \/ k = n + 5 /\ StopRank(s5[k]) = 5
      BY <1>2, <1>12, <1>13, <1>14
    <3>2. n \in Nat /\ k \in Nat
      BY <1>3, <1>14
    <3> QED
      BY <3>1, <3>2
  <2>3. j \notin 1 .. n
    BY <1>3, <1>14, <1>15, <2>1
  <2>4. StopRank(s5[i]) = i - n /\ StopRank(s5[j]) = j - n /\ i \in Nat /\ j \in Nat
    BY <2>1, <2>2, <2>3
  <2> QED
    BY <1>3, <1>15, <2>4
<1>16. \A i \in DOMAIN s5 : ~Reports(s5[i])
  BY <1>2, <1>11, <1>12, <1>13, <1>14
<1>17. n + 2 \in DOMAIN s5 /\ n + 3 \in DOMAIN s5 /\ n + 4 \in DOMAIN s5
  BY <1>3, <1>14
<1>18. Has(s5, 2) /\ Has(s5, 3) /\ Has(s5, 4)
  BY <1>2, <1>13, <1>17 DEF Has
<1> QED
  BY <1>1, <1>8, <1>15, <1>16, <1>18

LEMMA StopKeepsPeer == ASSUME PeerInv, StopPeer PROVE PeerInv'
<1> DEFINE b == Do("seal") \o (IF peer.chan = "none" THEN << >> ELSE Do("end"))
           ts == ((((b \o Do("shutdown")) \o Do("reset")) \o Do("join")) \o Do("finish"))
                 \o Emit("ended")
<1>1. /\ ~peer.stopping /\ ~peer.stopped /\ Clear("app") /\ heard' = heard
      /\ peer' = [peer EXCEPT !.stopping = TRUE, !.connected = FALSE]
      /\ todo' = [todo EXCEPT !["app"] = ts]
  BY DEF StopPeer, PeerCalls
<1>2. AllPlain(b)
  <2>1. AllPlain(Do("seal"))
    <3>1. Plain([op |-> "seal"])
      BY DEF Plain, StopRank, Reports
    <3> QED
      BY <3>1, PlainLists DEF Do
  <2>2. AllPlain(IF peer.chan = "none" THEN << >> ELSE Do("end"))
    BY PlainTasks, PlainLists
  <2> QED
    BY <2>1, <2>2, PlainLists
<1> HIDE DEF b
<1>3. /\ IsList(ts) /\ \A i \in DOMAIN ts : ~Reports(ts[i])
      /\ \A i, j \in DOMAIN ts : i < j /\ StopRank(ts[i]) > 0 => StopRank(ts[i]) < StopRank(ts[j])
      /\ Has(ts, 2) /\ Has(ts, 3) /\ Has(ts, 4)
  BY <1>2, StopList
<1> HIDE DEF ts
<1>4. "app" \in PeerThreads /\ "rtc" \in PeerThreads \ {"app"} /\ "worker" \in PeerThreads \ {"app"}
  BY DEF PeerThreads
<1>5. /\ DOMAIN todo' = PeerThreads /\ \A u \in PeerThreads \ {"app"} : todo'[u] = todo[u]
      /\ todo'["app"] = ts
  BY <1>1, <1>4 DEF PeerInv, PeerTypes
<1>6. /\ peer' \in PeerType /\ peer'.failed = peer.failed /\ peer'.stopping = TRUE
      /\ peer'.stopped = peer.stopped /\ peer'.shutdown = peer.shutdown
      /\ peer'.workerDone = peer.workerDone
      /\ peer'.sealed = peer.sealed /\ peer'.detached = peer.detached
  BY <1>1 DEF PeerInv, PeerTypes, PeerType
<1>7. PeerTypes'
  <2>1. \A u \in PeerThreads : IsList(todo'[u])
    BY <1>3, <1>5 DEF PeerInv, PeerTypes
  <2> QED
    BY <2>1, <1>1, <1>5, <1>6 DEF PeerInv, PeerTypes
<1>8. StopInOrder'
  <2>1. \A u \in PeerThreads \ {"app"} : \A i \in DOMAIN todo'[u] : StopRank(todo'[u][i]) = 0
    BY <1>5 DEF PeerInv, StopInOrder
  <2> QED
    BY <2>1, <1>3, <1>5, <1>6 DEF StopInOrder
<1>9. EndIsQuiet'
  <2>1. ~heard.ended
    BY <1>1 DEF PeerInv, EndIsQuiet
  <2>2. todo'["rtc"] = todo["rtc"] /\ todo'["worker"] = todo["worker"]
    BY <1>4, <1>5
  <2> QED
    BY <1>1, <1>6, <2>1, <2>2 DEF PeerInv, EndIsQuiet, Clear
<1>10. FailureOnce'
  <2>1. \A u \in PeerThreads : \A i \in DOMAIN todo'[u] : Reports(todo'[u][i]) =>
          todo'[u] = todo[u] /\ i \in DOMAIN todo[u] /\ Reports(todo[u][i])
    BY <1>3, <1>5
  <2> QED
    BY <2>1, <1>1, <1>6, FailuresStay
<1> QED
  BY <1>7, <1>8, <1>9, <1>10 DEF PeerInv

LEMMA PeerInvInit == PeerInit => PeerInv
<1> SUFFICES ASSUME PeerInit PROVE PeerInv
  OBVIOUS
<1>1. IsList(<< >>) /\ DOMAIN << >> = {}
  BY EmptySeq DEF IsList
<1>2. DOMAIN todo = PeerThreads /\ \A t \in PeerThreads : todo[t] = << >>
  BY DEF PeerInit
<1>3. "app" \in PeerThreads /\ "rtc" \in PeerThreads /\ "worker" \in PeerThreads
  BY DEF PeerThreads
<1>4. PeerTypes
  BY <1>1, <1>2 DEF PeerInit, PeerTypes, PeerType
<1>5. StopInOrder
  BY <1>1, <1>2, <1>3 DEF StopInOrder, Has
<1>6. EndIsQuiet
  BY DEF PeerInit, EndIsQuiet
<1>7. FailureOnce
  BY <1>1, <1>2 DEF PeerInit, FailureOnce
<1> QED
  BY <1>4, <1>5, <1>6, <1>7 DEF PeerInv

LEMMA PeerInvStep == PeerInv /\ [PeerNext]_peerVars => PeerInv'
<1> SUFFICES ASSUME PeerInv, [PeerNext]_peerVars PROVE PeerInv'
  OBVIOUS
<1>1. CASE \E t \in PeerThreads : Step(t)
  BY <1>1, FailKeepsPeer, SealKeepsPeer, EmitKeepsPeer, SendKeepsPeer, ApplyKeepsPeer,
     CloseKeepsPeer DEF Step
<1>2. CASE AppStep
  BY <1>2, OfferKeepsPeer, StopTasks DEF AppStep
<1>3. CASE AcceptOffer \/ AddRemoteCandidate \/ SendAccessUnit
  BY <1>3, AppCalls
<1>4. CASE \/ Connected \/ Disconnected \/ PeerFault \/ TrackOpens \/ Feedback
           \/ AttachControl \/ ControlOpened \/ ControlReceived \/ ControlClosed
  BY <1>4, RtcCalls
<1>5. CASE WorkerClock
  BY <1>5, WorkerCalls
<1>6. CASE WorkerExits
  BY <1>6, WorkerLeaves
<1>7. CASE StopPeer
  BY <1>7, StopKeepsPeer
<1>8. CASE PeerReceiver \/ UNCHANGED peerVars
  BY <1>8 DEF PeerReceiver, peerVars, PeerInv, PeerTypes, StopInOrder, EndIsQuiet, FailureOnce,
              Clear
<1> QED
  BY <1>1, <1>2, <1>3, <1>4, <1>5, <1>6, <1>7, <1>8 DEF PeerNext

LEMMA PeerInvEnds == PeerInv => PeerEndIsLast
<1> SUFFICES ASSUME PeerInv PROVE PeerEndIsLast
  OBVIOUS
<1>1. PeerTypeOK
  BY DEF PeerInv, PeerTypes, PeerType, PeerTypeOK
<1>2. heard.failed <= 1
  BY DEF PeerInv, FailureOnce
<1>3. heard.ended => ~heard.late /\ Clear("rtc") /\ Clear("worker")
  BY DEF PeerInv, EndIsQuiet
<1> QED
  BY <1>1, <1>2, <1>3 DEF PeerEndIsLast, PeerInv, FailureOnce

(* A peer's failure is heard at most once and only with the media sealed,  *)
(* and nothing is heard after its end, when no thread is left in it: for   *)
(* any bounds of the control protocol.                                     *)
THEOREM EndOfPeerIsLast == PeerSpec => []PeerEndIsLast
<1>1. PeerInit => PeerInv
  BY PeerInvInit
<1>2. PeerInv /\ [PeerNext]_peerVars => PeerInv'
  BY PeerInvStep
<1>3. PeerInv => PeerEndIsLast
  BY PeerInvEnds
<1> QED
  BY <1>1, <1>2, <1>3, PTL DEF PeerSpec

-----------------------------------------------------------------------------
(* The clock correlation: ClockCorrelation.                                *)

(* A strict order on a finite set has a minimal element.                   *)
LEMMA FiniteMinimal ==
  ASSUME NEW D, IsFiniteSet(D), D # {}, NEW R,
         \A i \in D : <<i, i>> \notin R,
         \A i, j, k \in D : <<i, j>> \in R /\ <<j, k>> \in R => <<i, k>> \in R
  PROVE  \E i \in D : \A j \in D : <<j, i>> \notin R
<1> DEFINE Below(i) == {j \in D : <<j, i>> \in R}
           All == {Below(i) : i \in D}
<1>1. IsWellFoundedOn(StrictSubsetOrdering(D), SUBSET D)
  BY FS_StrictSubsetOrderingWellFounded, FS_FiniteSubsetsOfFinite
<1>2. All \subseteq SUBSET D /\ All # {}
  <2>1. PICK d \in D : TRUE
    OBVIOUS
  <2>2. Below(d) \in All
    OBVIOUS
  <2>3. \A i \in D : Below(i) \in SUBSET D
    OBVIOUS
  <2> HIDE DEF Below
  <2> QED
    BY <2>2, <2>3
<1>3. PICK b \in All : \A c \in All : <<c, b>> \notin StrictSubsetOrdering(D)
  <2> HIDE DEF All
  <2> QED
    BY <1>1, <1>2, WFMin
<1>4. PICK i \in D : b = Below(i)
  OBVIOUS
<1>5. ASSUME NEW j \in D, <<j, i>> \in R PROVE FALSE
  <2>1. Below(j) \subseteq Below(i) /\ j \in Below(i) /\ j \notin Below(j)
    BY <1>5
  <2>2. <<Below(j), b>> \in StrictSubsetOrdering(D)
    BY <2>1, <1>4 DEF StrictSubsetOrdering
  <2> QED
    BY <2>2, <1>3
<1> QED
  BY <1>5

(* A finite set of numbers has a least and a greatest element, which Min   *)
(* and Max name.                                                           *)
LEMMA Extremes ==
  ASSUME NEW S, S \subseteq Int, IsFiniteSet(S), S # {}
  PROVE  /\ Min(S) \in S /\ Max(S) \in S
         /\ \A x \in S : Min(S) <= x /\ x <= Max(S)
<1>1. PICK lo \in S : \A y \in S : lo <= y
  <2> DEFINE R == {p \in S \X S : p[1] < p[2]}
  <2>1. \A i \in S : <<i, i>> \notin R
    OBVIOUS
  <2>2. \A i, j, k \in S : <<i, j>> \in R /\ <<j, k>> \in R => <<i, k>> \in R
    OBVIOUS
  <2>3. PICK i \in S : \A j \in S : <<j, i>> \notin R
    <3> HIDE DEF R
    <3> QED
      BY <2>1, <2>2, FiniteMinimal
  <2>4. ASSUME NEW j \in S PROVE i <= j
    <3>1. <<j, i>> \in S \X S /\ <<j, i>>[1] = j /\ <<j, i>>[2] = i
      OBVIOUS
    <3>2. ~(j < i)
      BY <2>3, <3>1
    <3>3. i \in Int /\ j \in Int
      OBVIOUS
    <3> QED
      BY <3>2, <3>3
  <2> QED
    BY <2>4
<1>2. PICK hi \in S : \A y \in S : hi >= y
  <2> DEFINE R == {p \in S \X S : p[1] > p[2]}
  <2>1. \A i \in S : <<i, i>> \notin R
    OBVIOUS
  <2>2. \A i, j, k \in S : <<i, j>> \in R /\ <<j, k>> \in R => <<i, k>> \in R
    OBVIOUS
  <2>3. PICK i \in S : \A j \in S : <<j, i>> \notin R
    <3> HIDE DEF R
    <3> QED
      BY <2>1, <2>2, FiniteMinimal
  <2>4. ASSUME NEW j \in S PROVE i >= j
    <3>1. <<j, i>> \in S \X S /\ <<j, i>>[1] = j /\ <<j, i>>[2] = i
      OBVIOUS
    <3>2. ~(j > i)
      BY <2>3, <3>1
    <3>3. i \in Int /\ j \in Int
      OBVIOUS
    <3> QED
      BY <3>2, <3>3
  <2> QED
    BY <2>4
<1>3. Min(S) \in S /\ \A y \in S : Min(S) <= y
  BY <1>1 DEF Min
<1>4. Max(S) \in S /\ \A y \in S : Max(S) >= y
  BY <1>2 DEF Max
<1> QED
  BY <1>3, <1>4

Samples == [delay : Nat, offset : Int]

LEMMA SampleFields ==
  ASSUME NEW s \in Seq(Samples), NEW i \in DOMAIN s
  PROVE  s[i].delay \in Nat /\ s[i].offset \in Int /\ i \in Nat
<1>1. s[i] \in Samples
  BY ElementOfSeq
<1> QED
  BY <1>1 DEF Samples

(* The best sample of a sequence exists, and is among those that vary.     *)
Best(s) == CHOOSE i \in DOMAIN s : Rank(s, i) = 0

Varied(s) == {s[i].offset : i \in {j \in DOMAIN s : Rank(s, j) < ClkVariation}}

LEMMA BestExists ==
  ASSUME NEW s \in Seq(Samples), s # << >>
  PROVE  Best(s) \in DOMAIN s /\ Rank(s, Best(s)) = 0
<1> DEFINE D == DOMAIN s
           R == {p \in D \X D : Before(s, p[1], p[2])}
<1>1. D = 1 .. Len(s) /\ D # {} /\ IsFiniteSet(D)
  <2>1. Len(s) \in Nat /\ Len(s) # 0 /\ D = 1 .. Len(s)
    BY EmptySeq
  <2>2. 1 \in D
    BY <2>1
  <2>3. IsFiniteSet(1 .. Len(s))
    BY <2>1, FS_Interval
  <2> QED
    BY <2>1, <2>2, <2>3
<1>2. \A i \in D : s[i].delay \in Nat /\ i \in Nat
  BY SampleFields
<1>3. \A i \in D : <<i, i>> \notin R
  BY <1>2 DEF Before
<1>4. \A i, j, k \in D : <<i, j>> \in R /\ <<j, k>> \in R => <<i, k>> \in R
  BY <1>2 DEF Before
<1>5. PICK i \in D : \A j \in D : <<j, i>> \notin R
  <2> DEFINE E == D
             Q == R
  <2>1. IsFiniteSet(E) /\ E # {} /\ (\A i \in E : <<i, i>> \notin Q)
        /\ \A i, j, k \in E : <<i, j>> \in Q /\ <<j, k>> \in Q => <<i, k>> \in Q
    BY <1>1, <1>3, <1>4
  <2> HIDE DEF E, Q
  <2>2. \E i \in E : \A j \in E : <<j, i>> \notin Q
    BY <2>1, FiniteMinimal
  <2> QED
    BY <2>2 DEF E, Q
<1>6. {j \in DOMAIN s : Before(s, j, i)} = {}
  BY <1>5
<1>7. Rank(s, i) = 0
  BY <1>6, FS_EmptySet DEF Rank
<1> QED
  BY <1>7 DEF Best

LEMMA VariedSpan ==
  ASSUME NEW s \in Seq(Samples), s # << >>
  PROVE  Max(Varied(s)) - Min(Varied(s)) \in Nat
<1>1. Best(s) \in DOMAIN s /\ Rank(s, Best(s)) = 0
  BY BestExists
<1>2. \A i \in DOMAIN s : s[i].offset \in Int
  BY SampleFields
<1>3. Varied(s) \subseteq Int
  BY <1>2 DEF Varied
<1>4. s[Best(s)].offset \in Varied(s)
  BY <1>1, ClkAssumption DEF Varied
<1>5. IsFiniteSet(Varied(s))
  <2>1. IsFiniteSet(DOMAIN s)
    BY FS_Interval
  <2>2. IsFiniteSet({s[i].offset : i \in DOMAIN s})
    <3> DEFINE T == {s[i].offset : i \in DOMAIN s}
               f == [i \in DOMAIN s |-> s[i].offset]
    <3>1. f \in Surjection(DOMAIN s, T)
      BY DEF Surjection
    <3> HIDE DEF f, T
    <3>3. IsFiniteSet(T)
      BY <3>1, <2>1, FS_Surjection
    <3> QED
      BY <3>3 DEF T
  <2>3. Varied(s) \in SUBSET {s[i].offset : i \in DOMAIN s}
    BY DEF Varied
  <2> QED
    BY <2>2, <2>3, FS_Subset
<1>6. Min(Varied(s)) \in Int /\ Max(Varied(s)) \in Int /\ Min(Varied(s)) <= Max(Varied(s))
  BY <1>3, <1>4, <1>5, Extremes
<1> QED
  BY <1>6

(* What refresh makes of the samples: the offset of the best, and at least *)
(* its delay for the uncertainty.                                          *)
LEMMA RefreshResult ==
  ASSUME NEW s \in Seq(Samples), s # << >>
  PROVE  /\ Refresh(s).valid = TRUE /\ Refresh(s).samples = s
         /\ Refresh(s).offset = s[Best(s)].offset
         /\ Refresh(s).uncertainty \in Nat
         /\ Refresh(s).uncertainty >= s[Best(s)].delay
<1>1. Best(s) \in DOMAIN s
  BY BestExists
<1>2. s[Best(s)].delay \in Nat
  BY <1>1, SampleFields
<1>3. Max(Varied(s)) - Min(Varied(s)) \in Nat
  BY VariedSpan
<1>4. Refresh(s) = [valid |-> TRUE, samples |-> s, offset |-> s[Best(s)].offset,
                    uncertainty |-> s[Best(s)].delay + Max(Varied(s)) - Min(Varied(s))]
  BY DEF Refresh, Best, Varied
<1> DEFINE span == Max(Varied(s)) - Min(Varied(s))
<1> QED
  <2>1. Refresh(s).uncertainty = s[Best(s)].delay + Max(Varied(s)) - Min(Varied(s))
    BY <1>4
  <2> QED
  BY <1>2, <1>3, <1>4, <2>1

(* The inductive invariant: the estimate is what refresh makes of its      *)
(* samples, and unless the clock stepped since the last reset every one of *)
(* them is off by no more than its delay.                                  *)
Truthful(s) == \A i \in DOMAIN s : Distance(s[i].offset, 2 * lead) <= s[i].delay

ClkInv ==
  /\ lead \in ClkLeads /\ fooled \in BOOLEAN
  /\ snapshot.samples \in Seq(Samples) /\ Len(snapshot.samples) <= ClkSamples
  /\ \/ snapshot = NoSnapshot
     \/ snapshot.samples # << >> /\ snapshot = Refresh(snapshot.samples)
  /\ ~fooled => Truthful(snapshot.samples)

LEMMA NoSamplesFit ==
  /\ NoSnapshot.samples \in Seq(Samples) /\ Len(NoSnapshot.samples) <= ClkSamples
  /\ Truthful(NoSnapshot.samples)
<1>1. NoSnapshot.samples = << >> /\ << >> \in Seq(Samples) /\ Len(<< >>) = 0
  BY EmptySeq DEF NoSnapshot
<1>2. ClkSamples \in Nat
  BY ClkAssumption
<1>3. Truthful(<< >>)
  BY DEF Truthful
<1> QED
  BY <1>1, <1>2, <1>3

LEMMA ClkInvInit == ClkInit => ClkInv
BY NoSamplesFit DEF ClkInit, ClkInv

LEMMA ObserveKeeps ==
  ASSUME ClkInv, NEW there \in ClkDelays, NEW back \in ClkDelays, ObserveClock(there, back)
  PROVE  ClkInv'
<1> DEFINE offset == 2 * lead + there - back
           kept == IF Contradicts(offset) THEN << >>
                   ELSE IF Len(snapshot.samples) = ClkSamples THEN Tail(snapshot.samples)
                   ELSE snapshot.samples
           sample == [delay |-> there + back, offset |-> offset]
           now == Append(kept, sample)
<1>1. /\ snapshot' = Refresh(now) /\ lead' = lead
      /\ fooled' = (fooled /\ kept # << >>)
  BY DEF ObserveClock
<1>2. there \in Nat /\ back \in Nat /\ lead \in Int /\ ClkSamples \in Nat \ {0}
  BY ClkAssumption DEF ClkInv
<1>3. sample \in Samples /\ Distance(sample.offset, 2 * lead) <= sample.delay
  BY <1>2 DEF Samples, Distance
<1>4. snapshot.samples \in Seq(Samples) /\ Len(snapshot.samples) <= ClkSamples
  BY DEF ClkInv
<1>5. kept \in Seq(Samples) /\ Len(kept) < ClkSamples
  <2>1. CASE Contradicts(offset)
    BY <2>1, <1>2
  <2>2. CASE ~Contradicts(offset) /\ Len(snapshot.samples) = ClkSamples
    <3>1. snapshot.samples # << >>
      BY <2>2, <1>2
    <3> QED
      BY <2>2, <3>1, <1>2, <1>4, HeadTailProperties
  <2>3. CASE ~Contradicts(offset) /\ Len(snapshot.samples) # ClkSamples
    BY <2>3, <1>2, <1>4
  <2> QED
    BY <2>1, <2>2, <2>3
<1>6. Truthful(snapshot.samples) => Truthful(kept)
  <2>1. CASE Contradicts(offset)
    BY <2>1 DEF Truthful
  <2>2. CASE ~Contradicts(offset) /\ Len(snapshot.samples) = ClkSamples
    <3>1. snapshot.samples # << >>
      BY <2>2, <1>2
    <3>2. /\ DOMAIN kept = 1 .. Len(snapshot.samples) - 1
          /\ \A i \in DOMAIN kept : kept[i] = snapshot.samples[i + 1]
      BY <2>2, <3>1, <1>4, HeadTailProperties
    <3> HIDE DEF kept
    <3> QED
      BY <3>2, <1>4 DEF Truthful
  <2>3. CASE ~Contradicts(offset) /\ Len(snapshot.samples) # ClkSamples
    BY <2>3
  <2> QED
    BY <2>1, <2>2, <2>3
<1> HIDE DEF kept, sample
<1>7. /\ now \in Seq(Samples) /\ Len(now) = Len(kept) + 1
      /\ \A i \in 1 .. Len(kept) : now[i] = kept[i]
      /\ now[Len(kept) + 1] = sample
  BY <1>3, <1>5, AppendProperties
<1>8. now # << >> /\ Len(now) <= ClkSamples
  BY <1>5, <1>7, <1>2
<1>9. ~fooled' => Truthful(now)
  <2>1. SUFFICES ASSUME ~fooled' PROVE Truthful(now)
    OBVIOUS
  <2>2. kept = << >> \/ Truthful(kept)
    BY <2>1, <1>1, <1>6 DEF ClkInv
  <2>3. Truthful(kept)
    BY <2>2 DEF Truthful
  <2>4. ASSUME NEW i \in DOMAIN now PROVE Distance(now[i].offset, 2 * lead) <= now[i].delay
    <3>1. CASE i \in 1 .. Len(kept)
      BY <3>1, <2>3, <1>7, <1>5 DEF Truthful
    <3>2. CASE i = Len(kept) + 1
      BY <3>2, <1>3, <1>7
    <3> QED
      BY <3>1, <3>2, <1>7, <1>5
  <2> QED
    BY <2>4 DEF Truthful
<1> HIDE DEF now
<1>10. Refresh(now).samples = now
  BY <1>7, <1>8, RefreshResult
<1>11. fooled' \in BOOLEAN
  BY <1>1 DEF ClkInv
<1> QED
  <2>1. snapshot'.samples = now
    BY <1>1, <1>10
  <2>2. ~fooled' => Truthful(snapshot.samples)'
    BY <1>1, <1>9, <2>1 DEF Truthful, Distance
  <2> QED
    BY <1>1, <1>7, <1>8, <1>11, <2>1, <2>2 DEF ClkInv

LEMMA ClkInvStep == ClkInv /\ [ClkNext]_clkVars => ClkInv'
<1> SUFFICES ASSUME ClkInv, [ClkNext]_clkVars PROVE ClkInv'
  OBVIOUS
<1>1. CASE RejectClock
  <2>1. Truthful(snapshot.samples)'
    BY <1>1, NoSamplesFit DEF RejectClock, Truthful, Distance
  <2> QED
    BY <1>1, <2>1, NoSamplesFit DEF RejectClock, ClkInv
<1>2. CASE ClockSteps
  <2>1. CASE snapshot = NoSnapshot
    BY <1>2, <2>1 DEF ClockSteps, ClkInv, NoSnapshot, Truthful
  <2>2. CASE snapshot # NoSnapshot
    <3>1. snapshot.samples \in Seq(Samples) /\ snapshot.samples # << >>
      BY <2>2 DEF ClkInv
    <3>2. Refresh(snapshot.samples).valid = TRUE
      BY <3>1, RefreshResult
    <3>3. snapshot.valid = TRUE
      BY <3>2, <2>2 DEF ClkInv
    <3> QED
      BY <1>2, <3>3 DEF ClockSteps, ClkInv
  <2> QED
    BY <2>1, <2>2
<1>3. CASE \E there, back \in ClkDelays : ObserveClock(there, back)
  BY <1>3, ObserveKeeps
<1>4. CASE UNCHANGED clkVars
  BY <1>4 DEF clkVars, ClkInv, Truthful, Distance
<1> QED
  BY <1>1, <1>2, <1>3, <1>4 DEF ClkNext

LEMMA ClkInvSound == ClkInv => ClockSound
<1> SUFFICES ASSUME ClkInv PROVE ClockSound
  OBVIOUS
<1>1. CASE snapshot = NoSnapshot
  BY <1>1 DEF ClkInv, ClockSound, ClkTypeOK, NoSnapshot
<1>2. CASE snapshot # NoSnapshot
  <2> DEFINE s == snapshot.samples
  <2>1. s \in Seq(Samples) /\ s # << >> /\ snapshot = Refresh(s)
    BY <1>2 DEF ClkInv
  <2> HIDE DEF s
  <2>2. /\ snapshot.valid = TRUE /\ snapshot.offset = s[Best(s)].offset
        /\ snapshot.uncertainty \in Nat /\ snapshot.uncertainty >= s[Best(s)].delay
    BY <2>1, RefreshResult
  <2>3. Best(s) \in DOMAIN s
    BY <2>1, BestExists
  <2>4. s[Best(s)].delay \in Nat
    BY <2>1, <2>3, SampleFields
  <2>5. ClkTypeOK
    BY <2>1, <2>2 DEF ClkTypeOK, ClkInv, s
  <2>6. ~fooled => Distance(snapshot.offset, 2 * lead) <= snapshot.uncertainty
    <3>1. SUFFICES ASSUME ~fooled
                   PROVE  Distance(snapshot.offset, 2 * lead) <= snapshot.uncertainty
      OBVIOUS
    <3>2. Distance(s[Best(s)].offset, 2 * lead) <= s[Best(s)].delay
      BY <3>1, <2>3 DEF ClkInv, Truthful, s
    <3>3. s[Best(s)].offset \in Int /\ lead \in Int
      BY <2>1, <2>3, SampleFields, ClkAssumption DEF ClkInv
    <3>4. Distance(s[Best(s)].offset, 2 * lead) \in Int
      BY <3>3 DEF Distance
    <3> QED
      BY <3>2, <3>4, <2>2, <2>4
  <2> QED
    BY <2>5, <2>6 DEF ClockSound
<1> QED
  BY <1>1, <1>2

(* The estimate of the receiver's clock is off by no more than it admits,  *)
(* whatever the delays, until the receiver's clock is set: for any bounds  *)
(* on the samples and any delays.                                          *)
THEOREM ClockStaysSound == ClkSpec => []ClockSound
<1>1. ClkInit => ClkInv
  BY ClkInvInit
<1>2. ClkInv /\ [ClkNext]_clkVars => ClkInv'
  BY ClkInvStep
<1>3. ClkInv => ClockSound
  BY ClkInvSound
<1> QED
  BY <1>1, <1>2, <1>3, PTL DEF ClkSpec

-----------------------------------------------------------------------------
(* The protected-region controller: RegionController.                      *)

HistStep == [knob : KnobSet, age : 0 .. RegReversal]

RegActions == {"none", "request_recovery_idr", "stop_unusable_link", "restore"} \cup KnobSet

RegType ==
  [state : RegStates, level : [KnobSet -> Nat], hist : Seq(HistStep), pressure : 0 .. 3,
   compliant : Never .. RegReturn, stable : Never .. RegReturn, unusable : Never .. RegUnusable,
   acted : 0 .. RegAction, restored : 0 .. RegReversal, action : RegActions]

(* The knobs' places in the order of degradation. *)
Place == [k \in KnobSet |-> CHOOSE i \in DOMAIN Knobs : Knobs[i] = k]

LEMMA KnobFacts ==
  /\ KnobSet = {"emphasis", "threshold", "payload", "profile"}
  /\ DOMAIN Knobs = 1 .. 4
  /\ \A i \in 1 .. 4 : Knobs[i] \in KnobSet /\ Place[Knobs[i]] = i
  /\ \A k \in KnobSet : Place[k] \in 1 .. 4 /\ Knobs[Place[k]] = k
  /\ Place["emphasis"] = 1 /\ Place["threshold"] = 2 /\ Place["payload"] = 3 /\ Place["profile"] = 4
<1>1. /\ Knobs[1] = "emphasis" /\ Knobs[2] = "threshold" /\ Knobs[3] = "payload"
      /\ Knobs[4] = "profile" /\ DOMAIN Knobs = {1, 2, 3, 4} /\ 1 .. 4 = {1, 2, 3, 4}
  BY DEF Knobs
<1>2. KnobSet = {"emphasis", "threshold", "payload", "profile"}
  BY <1>1 DEF KnobSet, ToSet
<1>3. /\ Place["emphasis"] = 1 /\ Place["threshold"] = 2 /\ Place["payload"] = 3
      /\ Place["profile"] = 4
  BY <1>1, <1>2 DEF Place
<1> QED
  BY <1>1, <1>2, <1>3

(* The degradations of a knob in a history. *)
Of(h, k) == {i \in DOMAIN h : h[i].knob = k}

LEMMA OfFinite ==
  ASSUME NEW h \in Seq(HistStep), NEW k
  PROVE  /\ IsFiniteSet(Of(h, k)) /\ Cardinality(Of(h, k)) \in Nat
         /\ Cardinality(Of(h, k)) = 0 <=> Of(h, k) = {}
<1>1. IsFiniteSet(DOMAIN h)
  BY FS_Interval, LenProperties
<1>2. Of(h, k) \in SUBSET DOMAIN h
  BY DEF Of
<1> QED
  BY <1>1, <1>2, FS_Subset, FS_CardinalityType, FS_EmptySet

LEMMA OfAppend ==
  ASSUME NEW h \in Seq(HistStep), NEW e \in HistStep, NEW k \in KnobSet
  PROVE  Cardinality(Of(Append(h, e), k)) = Cardinality(Of(h, k)) + IF e.knob = k THEN 1 ELSE 0
<1>1. /\ Len(Append(h, e)) = Len(h) + 1 /\ Append(h, e)[Len(h) + 1] = e
      /\ \A i \in 1 .. Len(h) : Append(h, e)[i] = h[i]
      /\ DOMAIN Append(h, e) = 1 .. Len(h) + 1 /\ DOMAIN h = 1 .. Len(h) /\ Len(h) \in Nat
  BY AppendProperties, LenProperties
<1>2. Of(Append(h, e), k) = IF e.knob = k THEN Of(h, k) \cup {Len(h) + 1} ELSE Of(h, k)
  BY <1>1 DEF Of
<1>3. Len(h) + 1 \notin Of(h, k)
  BY <1>1 DEF Of
<1>4. e.knob = k => Cardinality(Of(h, k) \cup {Len(h) + 1}) = Cardinality(Of(h, k)) + 1
  BY <1>3, OfFinite, FS_AddElement
<1> QED
  BY <1>2, <1>4, OfFinite

LEMMA FrontOfHistory ==
  ASSUME NEW h \in Seq(HistStep), h # << >>
  PROVE  /\ Front(h) \in Seq(HistStep) /\ Len(h) \in Nat \ {0} /\ Last(h) = h[Len(h)]
         /\ h[Len(h)] \in HistStep /\ DOMAIN Front(h) = 1 .. Len(h) - 1
         /\ \A i \in 1 .. Len(h) - 1 : Front(h)[i] = h[i]
<1>1. Len(h) \in Nat /\ Len(h) # 0 /\ DOMAIN h = 1 .. Len(h) /\ \A i \in 1 .. Len(h) : h[i] \in HistStep
  BY LenProperties, EmptySeq, ElementOfSeq
<1>2. /\ SubSeq(h, 1, Len(h) - 1) \in Seq(HistStep)
      /\ Len(SubSeq(h, 1, Len(h) - 1)) = IF 1 <= Len(h) - 1 THEN Len(h) - 1 ELSE 0
      /\ \A i \in 1 .. Len(h) - 1 : SubSeq(h, 1, Len(h) - 1)[i] = h[i]
  BY <1>1, SubSeqProperties
<1>3. DOMAIN SubSeq(h, 1, Len(h) - 1) = 1 .. Len(h) - 1
  BY <1>1, <1>2, LenProperties
<1> QED
  BY <1>1, <1>2, <1>3 DEF Front, Last

LEMMA OfFront ==
  ASSUME NEW h \in Seq(HistStep), h # << >>, NEW k \in KnobSet
  PROVE  Cardinality(Of(Front(h), k)) =
           Cardinality(Of(h, k)) - IF h[Len(h)].knob = k THEN 1 ELSE 0
<1>1. /\ Front(h) \in Seq(HistStep) /\ Len(h) \in Nat \ {0} /\ DOMAIN h = 1 .. Len(h)
      /\ DOMAIN Front(h) = 1 .. Len(h) - 1
      /\ \A i \in 1 .. Len(h) - 1 : Front(h)[i] = h[i]
  BY FrontOfHistory, LenProperties
<1>2. Of(h, k) = IF h[Len(h)].knob = k THEN Of(Front(h), k) \cup {Len(h)} ELSE Of(Front(h), k)
  BY <1>1 DEF Of
<1>3. Len(h) \notin Of(Front(h), k)
  BY <1>1 DEF Of
<1>4. Cardinality(Of(Front(h), k) \cup {Len(h)}) = Cardinality(Of(Front(h), k)) + 1
  BY <1>1, <1>3, OfFinite, FS_AddElement
<1> QED
  BY <1>1, <1>2, <1>4, OfFinite

(* What holds of the controller's members between and within ticks.        *)
LevelsCounted(r) == \A k \in KnobSet : r.level[k] = Cardinality(Of(r.hist, k))

Sorted(r) ==
  \A a, b \in DOMAIN r.hist : a < b => Place[r.hist[a].knob] <= Place[r.hist[b].knob]

InOrder(r) ==
  \A k, l \in KnobSet : Place[k] < Place[l] /\ r.level[l] > 0 => r.level[k] = RegTop[k]

Exhausted(r) == \A k \in KnobSet : r.level[k] = RegTop[k]

RegFits(r) ==
  /\ r \in RegType
  /\ \A k \in KnobSet : r.level[k] <= RegTop[k]
  /\ LevelsCounted(r) /\ Sorted(r) /\ InOrder(r)
  /\ r.state = "unusable" => Exhausted(r)

LEMMA TopFacts == \A k \in KnobSet : RegTop[k] \in Nat \ {0}
BY RegAssumption

LEMMA BoundFacts ==
  /\ RegAction \in Nat \ {0} /\ RegReversal \in Nat \ {0} /\ RegEntry \in Nat \ {0}
  /\ RegReturn \in Nat \ {0} /\ RegUnusable \in Nat \ {0} /\ RegFresh \in Nat \ {0}
  /\ RegPending \in Nat \ {0} /\ Never = -1
BY RegAssumption DEF Never

LEMMA OlderFits ==
  ASSUME NEW top \in Nat, NEW low \in {Never, 0}, NEW age \in low .. top
  PROVE  Older(age, top) \in low .. top
BY DEF Older, Never

(* An intermediate step that leaves the levels and the history alone.      *)
LEMMA SameLevelsFit ==
  ASSUME NEW r, RegFits(r), NEW q \in RegType, q.level = r.level, q.hist = r.hist,
         q.state = "unusable" => r.state = "unusable" \/ Exhausted(r)
  PROVE  RegFits(q)
BY DEF RegFits, LevelsCounted, Sorted, InOrder, Exhausted

LEMMA AgedFits ==
  ASSUME NEW r, RegFits(r)
  PROVE  RegFits(Aged(r)) /\ Aged(r).state = r.state
<1> DEFINE q == Aged(r)
           h == [i \in DOMAIN r.hist |-> [r.hist[i] EXCEPT !.age = Older(@, RegReversal)]]
<1>1. r \in RegType
  BY DEF RegFits
<1>2. r.hist \in Seq(HistStep) /\ Len(r.hist) \in Nat /\ DOMAIN r.hist = 1 .. Len(r.hist)
  BY <1>1, LenProperties DEF RegType
<1>3. /\ q.state = r.state /\ q.level = r.level /\ q.hist = h
      /\ q.pressure = r.pressure /\ q.action = "none"
  BY <1>1 DEF Aged, RegType
<1>4. \A i \in DOMAIN r.hist : h[i] \in HistStep /\ h[i].knob = r.hist[i].knob
  <2> TAKE i \in DOMAIN r.hist
  <2>1. r.hist[i] \in HistStep
    BY <1>2, ElementOfSeq
  <2>2. Older(r.hist[i].age, RegReversal) \in 0 .. RegReversal
    BY <2>1, BoundFacts, OlderFits DEF HistStep
  <2> QED
    BY <2>1, <2>2 DEF HistStep
<1>5. h \in Seq(HistStep) /\ DOMAIN h = DOMAIN r.hist
  <2>1. h \in [1 .. Len(r.hist) -> HistStep]
    BY <1>2, <1>4
  <2> HIDE DEF h
  <2> QED
    BY <1>2, <2>1, SeqDef
<1>6. q \in RegType
  <2>1. /\ Older(r.compliant, RegReturn) \in Never .. RegReturn
        /\ Older(r.stable, RegReturn) \in Never .. RegReturn
        /\ Older(r.unusable, RegUnusable) \in Never .. RegUnusable
        /\ Older(r.acted, RegAction) \in 0 .. RegAction
        /\ Older(r.restored, RegReversal) \in 0 .. RegReversal
    BY <1>1, BoundFacts, OlderFits DEF RegType
  <2>2. "none" \in RegActions
    BY DEF RegActions
  <2> HIDE DEF h
  <2>3. q = [r EXCEPT !.compliant = Older(@, RegReturn), !.stable = Older(@, RegReturn),
            !.unusable = Older(@, RegUnusable), !.acted = Older(@, RegAction),
            !.restored = Older(@, RegReversal), !.action = "none", !.hist = h]
    BY <1>1 DEF Aged, h, RegType
  <2> HIDE DEF q
  <2> QED
    BY <1>1, <1>5, <2>1, <2>2, <2>3 DEF RegType
<1> HIDE DEF q, h
<1>7. LevelsCounted(q)
  <2> SUFFICES ASSUME NEW k \in KnobSet PROVE q.level[k] = Cardinality(Of(q.hist, k))
    BY DEF LevelsCounted
  <2>1. Of(q.hist, k) = Of(r.hist, k)
    BY <1>3, <1>4, <1>5 DEF Of
  <2> QED
    BY <2>1, <1>3 DEF RegFits, LevelsCounted
<1>8. Sorted(q)
  BY <1>3, <1>4, <1>5 DEF RegFits, Sorted
<1>9. InOrder(q) /\ (q.state = "unusable" => Exhausted(q)) /\ \A k \in KnobSet : q.level[k] <= RegTop[k]
  BY <1>3 DEF RegFits, InOrder, Exhausted
<1> QED
  BY <1>3, <1>6, <1>7, <1>8, <1>9 DEF RegFits, q

LEMMA ObserveFits ==
  ASSUME NEW r, RegFits(r), NEW pressure \in BOOLEAN, NEW calm \in BOOLEAN
  PROVE  RegFits(Observe(r, pressure, calm))
<1> DEFINE q == Observe(r, pressure, calm)
<1>1. r \in RegType
  BY DEF RegFits
<1>2. q \in RegType
  <2> DEFINE p == IF ~pressure THEN 0 ELSE IF r.pressure = 3 THEN 3 ELSE r.pressure + 1
             c == IF ~calm THEN Never ELSE IF r.compliant = Never THEN 0 ELSE r.compliant
             t == IF calm THEN r.stable ELSE Never
  <2>1. q = [r EXCEPT !.pressure = p, !.compliant = c, !.stable = t]
    BY DEF Observe
  <2>2. p \in 0 .. 3 /\ c \in Never .. RegReturn /\ t \in Never .. RegReturn
    BY <1>1, BoundFacts DEF RegType
  <2> HIDE DEF q, p, c, t
  <2> QED
    BY <1>1, <2>1, <2>2 DEF RegType
<1>3. q.level = r.level /\ q.hist = r.hist /\ q.state = r.state
  BY <1>1 DEF Observe, RegType
<1> HIDE DEF q
<1>4. RegFits(q)
  BY <1>2, <1>3, SameLevelsFit
<1> QED
  BY <1>4 DEF q

LEMMA MoveRanges ==
  /\ {"stable", "rate_pressure", "congested", "recovery", "unusable"} \subseteq RegStates
  /\ Never \in Never .. RegReturn /\ Never \in Never .. RegUnusable /\ 0 \in 0 .. RegReversal
BY BoundFacts DEF RegStates

LEMMA MoveFits ==
  ASSUME NEW r, RegFits(r), NEW hard \in BOOLEAN
  PROVE  RegFits(Move(r, hard))
<1> DEFINE q == Move(r, hard)
<1>1. r \in RegType
  BY DEF RegFits
<1>2. /\ q \in RegType /\ q.level = r.level /\ q.hist = r.hist
      /\ q.state = "unusable" => r.state = "unusable"
  <2> USE MoveRanges
  <2>1. CASE r.state = "unusable"
    <3>1. q = r
      BY <2>1 DEF Move, Pressed
    <3> HIDE DEF q
    <3> QED
      BY <3>1, <1>1
  <2>2. CASE r.state # "unusable" /\ hard
    <3>1. q = [r EXCEPT !.state = "congested", !.stable = Never]
      BY <2>2 DEF Move
    <3> HIDE DEF q
    <3> QED
      BY <3>1, <1>1, BoundFacts DEF RegType
  <2>3. CASE r.state # "unusable" /\ ~hard
    <3>1. \/ q = r
          \/ q = [r EXCEPT !.state = "rate_pressure", !.stable = Never]
          \/ q = [r EXCEPT !.state = "recovery", !.stable = r.compliant, !.restored = 0,
                           !.action = "request_recovery_idr"]
          \/ q = [r EXCEPT !.state = "stable"]
      BY <2>3 DEF Move
    <3> HIDE DEF q
    <3>2. "request_recovery_idr" \in RegActions
      BY DEF RegActions
    <3>3. CASE q = r
      BY <3>3, <1>1
    <3>4. CASE q = [r EXCEPT !.state = "rate_pressure", !.stable = Never]
      BY <3>4, <1>1, BoundFacts DEF RegType
    <3>5. CASE q = [r EXCEPT !.state = "recovery", !.stable = r.compliant, !.restored = 0,
                             !.action = "request_recovery_idr"]
      BY <3>5, <3>2, <1>1, BoundFacts DEF RegType
    <3>6. CASE q = [r EXCEPT !.state = "stable"]
      BY <3>6, <1>1 DEF RegType
    <3> QED
      BY <3>1, <3>3, <3>4, <3>5, <3>6
  <2> QED
    BY <2>1, <2>2, <2>3
<1> HIDE DEF q
<1>3. RegFits(q)
  BY <1>2, SameLevelsFit
<1> QED
  BY <1>3 DEF q

(* The code asks for three knobs at their ends; the fourth is then at its. *)
LEMMA UnusableIsExhausted ==
  ASSUME NEW r, RegFits(r), AtUnusableLevels(r)
  PROVE  Exhausted(r)
<1>1. r.level["profile"] = RegTop["profile"] /\ r.level["emphasis"] = RegTop["emphasis"]
      /\ r.level["payload"] = RegTop["payload"]
  BY DEF AtUnusableLevels
<1>2. r.level["threshold"] = RegTop["threshold"]
  <2>1. RegTop["profile"] \in Nat \ {0}
    BY KnobFacts, TopFacts
  <2>2. r.level["profile"] > 0
    BY <1>1, <2>1
  <2> QED
    BY <2>2, KnobFacts DEF RegFits, InOrder
<1> QED
  BY <1>1, <1>2, KnobFacts DEF Exhausted

LEMMA CollapseFits ==
  ASSUME NEW r, RegFits(r), NEW hard \in BOOLEAN
  PROVE  RegFits(Collapse(r, hard))
<1> DEFINE q == Collapse(r, hard)
           since == IF r.unusable = Never THEN 0 ELSE r.unusable
<1>1. r \in RegType
  BY DEF RegFits
<1>2. since \in 0 .. RegUnusable
  BY <1>1, BoundFacts DEF RegType
<1>3. \/ q = [r EXCEPT !.unusable = Never]
      \/ AtUnusableLevels(r)
         /\ q = [r EXCEPT !.unusable = since, !.state = "unusable", !.action = "stop_unusable_link"]
      \/ q = [r EXCEPT !.unusable = since]
  BY DEF Collapse
<1> HIDE DEF q, since
<1>4. "stop_unusable_link" \in RegActions /\ "unusable" \in RegStates /\ Never \in Never .. RegUnusable
      /\ since \in Never .. RegUnusable
  BY <1>2, BoundFacts DEF RegActions, RegStates
<1>5. CASE q = [r EXCEPT !.unusable = Never]
  <2>1. q \in RegType /\ q.level = r.level /\ q.hist = r.hist /\ q.state = r.state
    BY <1>5, <1>1, <1>4 DEF RegType
  <2> QED
    BY <2>1, SameLevelsFit DEF q
<1>6. CASE AtUnusableLevels(r)
           /\ q = [r EXCEPT !.unusable = since, !.state = "unusable", !.action = "stop_unusable_link"]
  <2>1. q \in RegType /\ q.level = r.level /\ q.hist = r.hist
    BY <1>6, <1>1, <1>4 DEF RegType
  <2>2. Exhausted(r)
    BY <1>6, UnusableIsExhausted
  <2> QED
    BY <2>1, <2>2, SameLevelsFit DEF q
<1>7. CASE q = [r EXCEPT !.unusable = since]
  <2>1. q \in RegType /\ q.level = r.level /\ q.hist = r.hist /\ q.state = r.state
    BY <1>7, <1>1, <1>4 DEF RegType
  <2> QED
    BY <2>1, SameLevelsFit DEF q
<1> QED
  BY <1>3, <1>5, <1>6, <1>7

(* One more degradation, of the first knob not at its end, comes last.     *)
LEMMA DegradeFits ==
  ASSUME NEW r, RegFits(r), r.state # "unusable"
  PROVE  RegFits(Degrade(r))
<1> DEFINE able == {i \in DOMAIN Knobs : r.level[Knobs[i]] < RegTop[Knobs[i]]}
           first == CHOOSE i \in able : \A j \in able : i <= j
           knob == Knobs[first]
           step == [knob |-> knob, age |-> 0]
           q == Degrade(r)
<1>1. r \in RegType
  BY DEF RegFits
<1>2. CASE able = {}
  <2>1. Degrade(r) = r
    BY <1>2 DEF Degrade
  <2> QED
    BY <2>1
<1>3. CASE able # {}
  <2>1. able \subseteq 1 .. 4
    BY KnobFacts
  <2>2. first \in able /\ \A j \in able : first <= j
    <3>1. \E i \in able : \A j \in able : i <= j
      <4>1. able \subseteq {1, 2, 3, 4}
        BY <2>1
      <4> HIDE DEF able
      <4>2. CASE 1 \in able
        BY <4>1, <4>2
      <4>3. CASE 1 \notin able /\ 2 \in able
        BY <4>1, <4>3
      <4>4. CASE 1 \notin able /\ 2 \notin able /\ 3 \in able
        BY <4>1, <4>4
      <4>5. CASE 1 \notin able /\ 2 \notin able /\ 3 \notin able
        <5>1. able # {}
          BY <1>3
        <5>2. 4 \in able
          BY <4>1, <4>5, <5>1
        <5> QED
          BY <4>1, <4>5, <5>2
      <4> QED
        BY <4>2, <4>3, <4>4, <4>5
    <3> HIDE DEF able
    <3> QED
      BY <3>1
  <2>3. /\ knob \in KnobSet /\ Place[knob] = first /\ first \in 1 .. 4
        /\ r.level[knob] < RegTop[knob]
    <3>1. first \in 1 .. 4 /\ r.level[Knobs[first]] < RegTop[Knobs[first]]
      BY <2>1, <2>2
    <3> HIDE DEF first
    <3> QED
      BY <3>1, KnobFacts
  <2>4. \A k \in KnobSet : Place[k] < Place[knob] => r.level[k] = RegTop[k]
    <3> SUFFICES ASSUME NEW k \in KnobSet, Place[k] < Place[knob] PROVE r.level[k] = RegTop[k]
      OBVIOUS
    <3>1. Place[k] \in 1 .. 4 /\ Knobs[Place[k]] = k
      BY KnobFacts
    <3>2. Place[k] \notin able
      <4> HIDE DEF able, first
      <4> QED
        BY <2>2, <2>3, <3>1
    <3>3. ~(r.level[k] < RegTop[k])
      BY <3>1, <3>2, KnobFacts
    <3>4. r.level[k] \in Nat /\ RegTop[k] \in Nat /\ r.level[k] <= RegTop[k]
      BY <1>1, TopFacts DEF RegFits, RegType
    <3> QED
      BY <3>3, <3>4
  <2>5. \A k \in KnobSet : Place[knob] < Place[k] => r.level[k] = 0
    <3> SUFFICES ASSUME NEW k \in KnobSet, Place[knob] < Place[k] PROVE r.level[k] = 0
      OBVIOUS
    <3>1. r.level[k] > 0 => r.level[knob] = RegTop[knob]
      BY <2>3 DEF RegFits, InOrder
    <3>2. r.level[k] \in Nat /\ r.level[knob] \in Nat /\ RegTop[knob] \in Nat
      BY <1>1, <2>3, TopFacts DEF RegType
    <3> HIDE DEF knob, first, able
    <3> QED
      BY <2>3, <3>1, <3>2
  <2>6. q = [r EXCEPT !.level[knob] = @ + 1, !.acted = 0, !.action = knob,
                      !.hist = Append(@, step)]
    BY <1>3 DEF Degrade
  <2> HIDE DEF able, first, knob, q
  <2>7. step \in HistStep /\ step.knob = knob
    BY <2>3, BoundFacts DEF HistStep
  <2>8. r.hist \in Seq(HistStep) /\ r.level \in [KnobSet -> Nat]
    BY <1>1 DEF RegType
  <2> HIDE DEF step
  <2>9. /\ q.level = [r.level EXCEPT ![knob] = @ + 1] /\ q.hist = Append(r.hist, step)
        /\ q.state = r.state
    BY <2>6, <1>1 DEF RegType
  <2>10. q \in RegType
    <3>1. Append(r.hist, step) \in Seq(HistStep)
      BY <2>7, <2>8, AppendProperties
    <3>2. [r.level EXCEPT ![knob] = @ + 1] \in [KnobSet -> Nat]
      BY <2>3, <2>8
    <3>3. knob \in RegActions /\ 0 \in 0 .. RegAction
      BY <2>3, BoundFacts DEF RegActions
    <3> QED
      BY <2>6, <3>1, <3>2, <3>3, <1>1 DEF RegType
  <2>11. \A k \in KnobSet : q.level[k] = IF k = knob THEN r.level[k] + 1 ELSE r.level[k]
    BY <2>9, <2>8
  <2>12. \A k \in KnobSet : q.level[k] <= RegTop[k]
    <3> TAKE k \in KnobSet
    <3>1. r.level[k] \in Nat /\ RegTop[k] \in Nat /\ r.level[k] <= RegTop[k]
      BY <1>1, TopFacts DEF RegFits, RegType
    <3>2. CASE k = knob
      BY <3>1, <3>2, <2>11, <2>3
    <3>3. CASE k # knob
      BY <3>1, <3>3, <2>11
    <3> QED
      BY <3>2, <3>3
  <2>13. LevelsCounted(q)
    <3> SUFFICES ASSUME NEW k \in KnobSet PROVE q.level[k] = Cardinality(Of(q.hist, k))
      BY DEF LevelsCounted
    <3>1. Cardinality(Of(q.hist, k)) = Cardinality(Of(r.hist, k)) + IF knob = k THEN 1 ELSE 0
      BY <2>7, <2>8, <2>9, OfAppend
    <3>2. r.level[k] = Cardinality(Of(r.hist, k)) /\ r.level[k] \in Nat
      BY <2>8 DEF RegFits, LevelsCounted
    <3> QED
      BY <3>1, <3>2, <2>11
  <2>14. Sorted(q)
    <3> SUFFICES ASSUME NEW a \in DOMAIN q.hist, NEW b \in DOMAIN q.hist, a < b
                 PROVE  Place[q.hist[a].knob] <= Place[q.hist[b].knob]
      BY DEF Sorted
    <3>1. /\ DOMAIN q.hist = 1 .. Len(r.hist) + 1 /\ Len(r.hist) \in Nat
          /\ \A i \in 1 .. Len(r.hist) : q.hist[i] = r.hist[i]
          /\ q.hist[Len(r.hist) + 1] = step /\ DOMAIN r.hist = 1 .. Len(r.hist)
      BY <2>7, <2>8, <2>9, AppendProperties, LenProperties
    <3>2. CASE b \in 1 .. Len(r.hist)
      <4>1. a \in DOMAIN r.hist /\ b \in DOMAIN r.hist
        BY <3>1, <3>2
      <4>2. q.hist[a] = r.hist[a] /\ q.hist[b] = r.hist[b]
        BY <3>1, <4>1
      <4> QED
        BY <4>1, <4>2 DEF RegFits, Sorted
    <3>3. CASE b = Len(r.hist) + 1
      <4>1. a \in DOMAIN r.hist /\ q.hist[a] = r.hist[a] /\ q.hist[b].knob = knob
        BY <3>1, <3>3, <2>7
      <4>2. r.hist[a] \in HistStep
        BY <4>1, <2>8, ElementOfSeq
      <4>3. a \in Of(r.hist, r.hist[a].knob) /\ r.hist[a].knob \in KnobSet
        BY <4>1, <4>2 DEF Of, HistStep
      <4>4. r.level[r.hist[a].knob] # 0
        BY <4>3, <2>8, OfFinite DEF RegFits, LevelsCounted
      <4>5. ~(Place[knob] < Place[r.hist[a].knob])
        BY <4>3, <4>4, <2>5
      <4>6. Place[knob] \in 1 .. 4 /\ Place[r.hist[a].knob] \in 1 .. 4
        BY <4>3, <2>3, KnobFacts
      <4> QED
        BY <4>1, <4>5, <4>6
    <3> QED
      BY <3>1, <3>2, <3>3
  <2>15. InOrder(q)
    <3> SUFFICES ASSUME NEW k \in KnobSet, NEW l \in KnobSet, Place[k] < Place[l], q.level[l] > 0
                 PROVE  q.level[k] = RegTop[k]
      BY DEF InOrder
    <3>1. Place[k] \in 1 .. 4 /\ Place[l] \in 1 .. 4 /\ Place[knob] \in 1 .. 4 /\ k # l
      BY <2>3, KnobFacts
    <3>2. CASE l = knob
      BY <3>2, <2>4, <2>11, <3>1
    <3>3. CASE l # knob
      <4>1. r.level[l] > 0
        BY <3>3, <2>11
      <4>2. ~(Place[knob] < Place[l])
        BY <4>1, <2>5
      <4>3. r.level[k] = RegTop[k]
        BY <4>1 DEF RegFits, InOrder
      <4>4. k # knob
        BY <4>2
      <4> QED
        BY <4>3, <4>4, <2>11
    <3> QED
      BY <3>2, <3>3
  <2> QED
    BY <2>9, <2>10, <2>12, <2>13, <2>14, <2>15 DEF RegFits, q
<1> QED
  BY <1>2, <1>3

(* The last degradation undone is of the furthest knob.                    *)
LEMMA RestoreFits ==
  ASSUME NEW r, RegFits(r), r.state # "unusable"
  PROVE  RegFits(Restore(r))
<1> DEFINE h == r.hist
           knob == h[Len(h)].knob
           q == Restore(r)
<1>1. r \in RegType
  BY DEF RegFits
<1>2. CASE ~RestorationDue(r)
  <2>1. Restore(r) = r
    BY <1>2 DEF Restore
  <2> QED
    BY <2>1
<1>3. CASE RestorationDue(r)
  <2>1. h \in Seq(HistStep) /\ h # << >> /\ r.level \in [KnobSet -> Nat]
    BY <1>1, <1>3 DEF RestorationDue, RegType
  <2>2. /\ Front(h) \in Seq(HistStep) /\ Len(h) \in Nat \ {0} /\ Last(h) = h[Len(h)]
        /\ h[Len(h)] \in HistStep /\ DOMAIN Front(h) = 1 .. Len(h) - 1
        /\ DOMAIN h = 1 .. Len(h) /\ \A i \in 1 .. Len(h) - 1 : Front(h)[i] = h[i]
    <3> HIDE DEF h
    <3> QED
      BY <2>1, FrontOfHistory, LenProperties
  <2>3. knob \in KnobSet
    BY <2>2 DEF HistStep
  <2>4. q = [r EXCEPT !.level[knob] = @ - 1, !.hist = Front(h), !.acted = 0, !.restored = 0,
                      !.action = "restore"]
    BY <1>1, <1>3, <2>2 DEF Restore, RegType
  <2> HIDE DEF q, knob
  <2>5. Len(h) \in Of(h, knob)
    BY <2>2 DEF Of, knob
  <2>6. r.level[knob] \in Nat \ {0}
    <3>1. r.level[knob] = Cardinality(Of(h, knob))
      BY <2>3 DEF RegFits, LevelsCounted
    <3> HIDE DEF h
    <3> QED
      BY <3>1, <2>1, <2>5, OfFinite
  <2>7. \A k \in KnobSet : Place[knob] < Place[k] => r.level[k] = 0
    <3> SUFFICES ASSUME NEW k \in KnobSet, Place[knob] < Place[k] PROVE r.level[k] = 0
      OBVIOUS
    <3>1. r.level[k] = Cardinality(Of(h, k))
      BY DEF RegFits, LevelsCounted
    <3>2. Of(h, k) = {}
      <4> SUFFICES ASSUME NEW i \in Of(h, k) PROVE FALSE
        OBVIOUS
      <4>1. i \in DOMAIN h /\ h[i].knob = k
        BY DEF Of
      <4>2. k # knob /\ Place[k] \in 1 .. 4 /\ Place[knob] \in 1 .. 4
        BY <2>3, KnobFacts
      <4>3. i < Len(h)
        BY <4>1, <4>2, <2>2 DEF knob
      <4>4. Place[h[i].knob] <= Place[h[Len(h)].knob]
        BY <4>1, <4>3, <2>2 DEF RegFits, Sorted
      <4> QED
        BY <4>1, <4>2, <4>4 DEF knob
    <3> HIDE DEF h
    <3> QED
      BY <3>1, <3>2, <2>1, OfFinite
  <2>8. /\ q.level = [r.level EXCEPT ![knob] = @ - 1] /\ q.hist = Front(h) /\ q.state = r.state
    <3> HIDE DEF h
    <3> QED
      BY <2>4, <1>1 DEF RegType
  <2>9. q \in RegType
    <3>1. [r.level EXCEPT ![knob] = @ - 1] \in [KnobSet -> Nat]
      BY <2>1, <2>3, <2>6
    <3>2. "restore" \in RegActions /\ 0 \in 0 .. RegAction /\ 0 \in 0 .. RegReversal
      BY BoundFacts DEF RegActions
    <3> HIDE DEF h
    <3> QED
      BY <2>2, <2>4, <3>1, <3>2, <1>1 DEF RegType
  <2>10. \A k \in KnobSet : q.level[k] = IF k = knob THEN r.level[k] - 1 ELSE r.level[k]
    BY <2>8, <2>1
  <2>11. \A k \in KnobSet : q.level[k] <= RegTop[k]
    <3> TAKE k \in KnobSet
    <3>1. r.level[k] \in Nat /\ RegTop[k] \in Nat /\ r.level[k] <= RegTop[k]
      BY <1>1, TopFacts DEF RegFits, RegType
    <3> QED
      BY <3>1, <2>10
  <2>12. LevelsCounted(q)
    <3> SUFFICES ASSUME NEW k \in KnobSet PROVE q.level[k] = Cardinality(Of(q.hist, k))
      BY DEF LevelsCounted
    <3>1. r.level[k] = Cardinality(Of(h, k)) /\ r.level[k] \in Nat
      BY <2>1 DEF RegFits, LevelsCounted
    <3>2. Cardinality(Of(q.hist, k)) = Cardinality(Of(h, k)) - IF knob = k THEN 1 ELSE 0
      <4> HIDE DEF h
      <4> QED
        BY <2>1, <2>8, OfFront DEF knob
    <3> QED
      BY <3>1, <3>2, <2>10
  <2>13. Sorted(q)
    <3> SUFFICES ASSUME NEW a \in DOMAIN q.hist, NEW b \in DOMAIN q.hist, a < b
                 PROVE  Place[q.hist[a].knob] <= Place[q.hist[b].knob]
      BY DEF Sorted
    <3>1. a \in 1 .. Len(h) - 1 /\ b \in 1 .. Len(h) - 1
      BY <2>2, <2>8
    <3>2. a \in DOMAIN h /\ b \in DOMAIN h /\ q.hist[a] = h[a] /\ q.hist[b] = h[b]
      BY <2>2, <2>8, <3>1
    <3> QED
      BY <3>2 DEF RegFits, Sorted
  <2>14. InOrder(q)
    <3> SUFFICES ASSUME NEW k \in KnobSet, NEW l \in KnobSet, Place[k] < Place[l], q.level[l] > 0
                 PROVE  q.level[k] = RegTop[k]
      BY DEF InOrder
    <3>1. Place[k] \in 1 .. 4 /\ Place[l] \in 1 .. 4 /\ Place[knob] \in 1 .. 4 /\ k # l
      BY <2>3, KnobFacts
    <3>2. r.level[l] \in Nat /\ r.level[l] > 0
      BY <2>1, <2>6, <2>10
    <3>3. ~(Place[knob] < Place[l])
      BY <3>2, <2>7
    <3>4. k # knob
      BY <3>1, <3>3
    <3>5. r.level[k] = RegTop[k]
      BY <3>2 DEF RegFits, InOrder
    <3> QED
      BY <3>4, <3>5, <2>10
  <2> QED
    BY <2>8, <2>9, <2>11, <2>12, <2>13, <2>14 DEF RegFits, q
<1> QED
  BY <1>2, <1>3

LEMMA ActFits ==
  ASSUME NEW r, RegFits(r), NEW calm \in BOOLEAN
  PROVE  RegFits(Act(r, calm))
<1>1. CASE r.action = "none" /\ Pressed(r) /\ r.acted >= RegAction
  <2>1. Act(r, calm) = Degrade(r) /\ r.state # "unusable"
    BY <1>1 DEF Act, Pressed
  <2> QED
    BY <2>1, DegradeFits
<1>2. CASE /\ ~(r.action = "none" /\ Pressed(r) /\ r.acted >= RegAction)
           /\ r.action = "none" /\ calm /\ r.state \in {"recovery", "stable"}
  <2>1. Act(r, calm) = Restore(r) /\ r.state # "unusable"
    BY <1>2 DEF Act, Pressed
  <2> QED
    BY <2>1, RestoreFits
<1>3. CASE /\ ~(r.action = "none" /\ Pressed(r) /\ r.acted >= RegAction)
           /\ ~(r.action = "none" /\ calm /\ r.state \in {"recovery", "stable"})
  <2>1. Act(r, calm) = r
    BY <1>3 DEF Act
  <2> QED
    BY <2>1
<1> QED
  BY <1>1, <1>2, <1>3

(* What push_feedback keeps. *)
Feedbacks == [wait : {0, 1}, high : BOOLEAN]

LEMMA ConsumedFits ==
  ASSUME pending \in Seq(Feedbacks)
  PROVE  Consumed \in 0 .. Len(pending)
<1>1. Len(pending) \in Nat /\ DOMAIN pending = 1 .. Len(pending)
  BY LenProperties
<1> DEFINE P(n) == /\ \A i \in 1 .. n : Arrived(pending[i])
                   /\ n < Len(pending) => ~Arrived(pending[n + 1])
           waiting == {i \in 1 .. Len(pending) : ~Arrived(pending[i])}
<1>2. CASE waiting = {}
  <2>1. P(Len(pending))
    BY <1>1, <1>2
  <2> QED
    BY <2>1, <1>1 DEF Consumed
<1>3. CASE waiting # {}
  <2> DEFINE R == {p \in waiting \X waiting : p[1] < p[2]}
  <2>1. IsFiniteSet(waiting)
    <3>1. IsFiniteSet(1 .. Len(pending))
      BY <1>1, FS_Interval
    <3> QED
      BY <3>1, FS_Subset
  <2>2. \A i \in waiting : <<i, i>> \notin R
    OBVIOUS
  <2>3. \A i, j, k \in waiting : <<i, j>> \in R /\ <<j, k>> \in R => <<i, k>> \in R
    BY <1>1
  <2>4. PICK i \in waiting : \A j \in waiting : <<j, i>> \notin R
    <3> HIDE DEF waiting, R
    <3> QED
      BY <1>3, <2>1, <2>2, <2>3, FiniteMinimal
  <2>5. \A j \in waiting : ~(j < i)
    <3> TAKE j \in waiting
    <3>1. <<j, i>> \in waiting \X waiting /\ <<j, i>>[1] = j /\ <<j, i>>[2] = i
      OBVIOUS
    <3> QED
      BY <2>4, <3>1
  <2>6. i \in 1 .. Len(pending) /\ ~Arrived(pending[i])
    OBVIOUS
  <2>7. P(i - 1) /\ i - 1 \in 0 .. Len(pending)
    BY <1>1, <2>5, <2>6
  <2> QED
    BY <2>7 DEF Consumed
<1> QED
  BY <1>2, <1>3

RegInv ==
  /\ RegFits(reg)
  /\ pending \in Seq(Feedbacks) /\ Len(pending) <= RegPending
  /\ loss \in [high : BOOLEAN, age : 0 .. RegFresh + 1]
  /\ seen \in [hard : BOOLEAN, calm : 0 .. RegReturn + 1]

LEMMA RegInvInit == RegInit => RegInv
<1> SUFFICES ASSUME RegInit PROVE RegInv
  OBVIOUS
<1>1. << >> \in Seq(HistStep) /\ << >> \in Seq(Feedbacks) /\ Len(<< >>) = 0 /\ DOMAIN << >> = {}
  BY EmptySeq
<1>2. reg \in RegType /\ reg.hist = << >> /\ reg.level = [k \in KnobSet |-> 0] /\ reg.state = "stable"
  <2>1. "none" \in RegActions
    BY DEF RegActions
  <2> QED
    BY <1>1, <2>1, BoundFacts DEF RegInit, RegType, RegStates
<1>3. \A k \in KnobSet : Of(reg.hist, k) = {}
  BY <1>1, <1>2 DEF Of
<1>4. LevelsCounted(reg)
  BY <1>2, <1>3, FS_EmptySet DEF LevelsCounted
<1>5. Sorted(reg) /\ InOrder(reg)
  BY <1>1, <1>2 DEF Sorted, InOrder
<1>6. \A k \in KnobSet : reg.level[k] <= RegTop[k]
  BY <1>2, TopFacts
<1>7. RegFits(reg)
  BY <1>2, <1>4, <1>5, <1>6 DEF RegFits
<1> QED
  BY <1>1, <1>7, BoundFacts DEF RegInit, RegInv

LEMMA TickKeeps ==
  ASSUME RegInv, NEW pressed \in BOOLEAN, NEW hard \in BOOLEAN, NEW quiet \in BOOLEAN,
         RegTick(pressed, hard, quiet)
  PROVE  RegInv'
<1>1. PICK l \in LossAfter :
        LET high == LossAvailable(l) /\ l.high
            calm == quiet /\ ~high
        IN  /\ \E aged \in {Aged(reg)} :
              \E observed \in {Observe(aged, pressed \/ high, calm)} :
              \E moved \in {Move(observed, hard)} :
              \E r \in {Collapse(moved, hard)} : reg' = Act(r, calm)
            /\ loss' = l
            /\ pending' = Remaining
            /\ seen' = [hard |-> hard, calm |-> IF calm /\ ~hard /\ ~pressed
                                                THEN Older(seen.calm, RegReturn + 1) ELSE 0]
  BY DEF RegTick
<1> DEFINE high == LossAvailable(l) /\ l.high
           calm == quiet /\ ~high
           aged == Aged(reg)
           observed == Observe(aged, pressed \/ high, calm)
           moved == Move(observed, hard)
           r == Collapse(moved, hard)
<1>2. /\ reg' = Act(r, calm) /\ loss' = l /\ pending' = Remaining
      /\ seen' = [hard |-> hard, calm |-> IF calm /\ ~hard /\ ~pressed
                                          THEN Older(seen.calm, RegReturn + 1) ELSE 0]
  BY <1>1
<1>3. pending \in Seq(Feedbacks) /\ Consumed \in 0 .. Len(pending) /\ Len(pending) \in Nat
      /\ DOMAIN pending = 1 .. Len(pending)
  BY ConsumedFits, LenProperties DEF RegInv
<1>4. l \in [high : BOOLEAN, age : 0 .. RegFresh + 1]
  <2>1. loss \in [high : BOOLEAN, age : 0 .. RegFresh + 1] /\ RegFresh + 1 \in Nat
    BY BoundFacts DEF RegInv
  <2>2. Older(loss.age, RegFresh + 1) \in 0 .. RegFresh + 1
    BY <2>1, OlderFits
  <2>3. CASE Consumed = 0
    <3>1. l = [loss EXCEPT !.age = Older(loss.age, RegFresh + 1)]
      BY <2>1, <2>3 DEF LossAfter
    <3> QED
      BY <3>1, <2>1, <2>2
  <2>4. CASE Consumed # 0
    <3>1. PICK h \in {loss.high} \cup {pending[i].high : i \in 1 .. Consumed} :
             l = [high |-> h, age |-> 0]
      BY <2>4 DEF LossAfter
    <3>2. \A i \in 1 .. Consumed : pending[i] \in Feedbacks
      BY <1>3, ElementOfSeq
    <3>3. h \in BOOLEAN
      BY <3>2, <2>1 DEF Feedbacks
    <3> QED
      BY <3>1, <3>3, <2>1
  <2> QED
    BY <2>3, <2>4
<1>5. high \in BOOLEAN /\ calm \in BOOLEAN /\ (pressed \/ high) \in BOOLEAN
  BY <1>4 DEF LossAvailable
<1>6. RegFits(aged)
  BY AgedFits DEF RegInv
<1> HIDE DEF aged
<1>7. RegFits(observed)
  <2> HIDE DEF high, calm
  <2> QED
    BY <1>5, <1>6, ObserveFits
<1> HIDE DEF observed
<1>8. RegFits(moved)
  BY <1>7, MoveFits
<1> HIDE DEF moved
<1>9. RegFits(r)
  BY <1>8, CollapseFits
<1> HIDE DEF r
<1>10. RegFits(reg')
  <2> HIDE DEF high, calm
  <2> QED
    BY <1>2, <1>5, <1>9, ActFits
<1>11. pending' \in Seq(Feedbacks) /\ Len(pending') <= RegPending
  <2> DEFINE rest == SubSeq(pending, Consumed + 1, Len(pending))
             now == [i \in DOMAIN rest |-> [rest[i] EXCEPT !.wait = 0]]
  <2>1. \A i \in Consumed + 1 .. Len(pending) : pending[i] \in Feedbacks
    BY <1>3, ElementOfSeq
  <2>2. /\ rest \in Seq(Feedbacks)
        /\ Len(rest) = IF Consumed + 1 <= Len(pending) THEN Len(pending) - Consumed ELSE 0
    BY <1>3, <2>1, SubSeqProperties
  <2>3. Len(rest) \in Nat /\ DOMAIN rest = 1 .. Len(rest) /\ Len(rest) <= Len(pending)
    <3>1. Len(rest) <= Len(pending)
      BY <1>3, <2>2
    <3> HIDE DEF rest
    <3> QED
      BY <3>1, <2>2, LenProperties
  <2> HIDE DEF rest
  <2>4. \A i \in DOMAIN rest : now[i] \in Feedbacks
    <3> TAKE i \in DOMAIN rest
    <3>1. rest[i] \in Feedbacks
      BY <2>2, ElementOfSeq
    <3> QED
      BY <3>1 DEF Feedbacks
  <2>5. now \in [1 .. Len(rest) -> Feedbacks]
    BY <2>3, <2>4
  <2>6. pending' = now
    BY <1>2 DEF Remaining, rest
  <2> HIDE DEF now
  <2>7. now \in Seq(Feedbacks) /\ Len(now) = Len(rest)
    BY <2>3, <2>5, SeqDef, LenProperties
  <2> QED
    BY <2>3, <2>6, <2>7, <1>3, BoundFacts DEF RegInv
<1>12. seen' \in [hard : BOOLEAN, calm : 0 .. RegReturn + 1]
  <2>1. Older(seen.calm, RegReturn + 1) \in 0 .. RegReturn + 1
    <3>1. seen.calm \in 0 .. RegReturn + 1 /\ RegReturn + 1 \in Nat
      BY BoundFacts DEF RegInv
    <3> QED
      BY <3>1, OlderFits
  <2>2. 0 \in 0 .. RegReturn + 1
    BY BoundFacts
  <2> HIDE DEF high, calm
  <2> QED
    BY <1>2, <2>1, <2>2
<1> QED
  BY <1>2, <1>4, <1>10, <1>11, <1>12 DEF RegInv

LEMMA PushKeeps ==
  ASSUME RegInv, PushFeedback
  PROVE  RegInv'
<1>1. PICK wait \in {0, 1}, high \in BOOLEAN :
        pending' = Append(pending, [wait |-> wait, high |-> high])
  BY DEF PushFeedback
<1>2. [wait |-> wait, high |-> high] \in Feedbacks
  BY DEF Feedbacks
<1>3. /\ pending' \in Seq(Feedbacks) /\ Len(pending') = Len(pending) + 1
      /\ Len(pending) \in Nat
  BY <1>1, <1>2, AppendProperties, LenProperties DEF RegInv
<1>4. Len(pending) < RegPending /\ UNCHANGED <<reg, loss, seen>>
  BY DEF PushFeedback
<1> QED
  BY <1>3, <1>4, BoundFacts DEF RegInv

LEMMA RegInvStep == RegInv /\ [RegNext]_regVars => RegInv'
<1> SUFFICES ASSUME RegInv, [RegNext]_regVars PROVE RegInv'
  OBVIOUS
<1>1. CASE PushFeedback
  BY <1>1, PushKeeps
<1>2. CASE RegTicks
  BY <1>2, TickKeeps DEF RegTicks
<1>3. CASE UNCHANGED regVars
  BY <1>3 DEF regVars, RegInv
<1> QED
  BY <1>1, <1>2, <1>3 DEF RegNext

LEMMA RegInvFollows == RegInv => LevelsFollowHistory
<1> SUFFICES ASSUME RegInv PROVE LevelsFollowHistory
  OBVIOUS
<1>1. RegFits(reg) /\ reg \in RegType
  BY DEF RegInv, RegFits
<1>2. reg.hist \in Seq(HistStep) /\ reg.level \in [KnobSet -> Nat]
  BY <1>1 DEF RegType
<1>3. RegTypeOK
  <2>1. \A k \in KnobSet : reg.level[k] \in 0 .. RegTop[k]
    <3> TAKE k \in KnobSet
    <3>1. reg.level[k] \in Nat /\ RegTop[k] \in Nat /\ reg.level[k] <= RegTop[k]
      BY <1>1, <1>2, TopFacts DEF RegFits
    <3> QED
      BY <3>1
  <2>2. \A i \in DOMAIN reg.hist : reg.hist[i].knob \in KnobSet
                                   /\ reg.hist[i].age \in 0 .. RegReversal
    <3> TAKE i \in DOMAIN reg.hist
    <3>1. reg.hist[i] \in HistStep
      BY <1>2, ElementOfSeq
    <3> QED
      BY <3>1 DEF HistStep
  <2>3. /\ reg.state \in RegStates /\ reg.pressure \in 0 .. 3
        /\ reg.compliant \in Never .. RegReturn /\ reg.stable \in Never .. RegReturn
        /\ reg.unusable \in Never .. RegUnusable
        /\ reg.acted \in 0 .. RegAction /\ reg.restored \in 0 .. RegReversal
    BY <1>1 DEF RegType
  <2>4. /\ Len(pending) <= RegPending
        /\ loss.high \in BOOLEAN /\ loss.age \in 0 .. RegFresh + 1
        /\ seen.hard \in BOOLEAN /\ seen.calm \in 0 .. RegReturn + 1
    BY DEF RegInv
  <2> QED
    BY <2>1, <2>2, <2>3, <2>4 DEF RegTypeOK
<1>4. \A k \in KnobSet :
        reg.level[k] = Cardinality({i \in DOMAIN reg.hist : reg.hist[i].knob = k})
  BY <1>1 DEF RegFits, LevelsCounted, Of
<1>5. \A i, j \in DOMAIN Knobs :
        i < j /\ reg.level[Knobs[j]] > 0 => reg.level[Knobs[i]] = RegTop[Knobs[i]]
  BY <1>1, KnobFacts DEF RegFits, InOrder
<1>6. reg.state = "unusable" => \A k \in KnobSet : reg.level[k] = RegTop[k]
  BY <1>1 DEF RegFits, Exhausted
<1> QED
  BY <1>3, <1>4, <1>5, <1>6 DEF LevelsFollowHistory

(* The levels are what the history of degradations says, in the order of   *)
(* the knobs, and an unusable link has every knob at its end: for any      *)
(* levels, intervals and feedback.                                         *)
THEOREM LevelsStayWithHistory == RegSpec => []LevelsFollowHistory
<1>1. RegInit => RegInv
  BY RegInvInit
<1>2. RegInv /\ [RegNext]_regVars => RegInv'
  BY RegInvStep
<1>3. RegInv => LevelsFollowHistory
  BY RegInvFollows
<1> QED
  BY <1>1, <1>2, <1>3, PTL DEF RegSpec
============================================================================
