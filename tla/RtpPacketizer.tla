---------------------------- MODULE RtpPacketizer ----------------------------
(***************************************************************************)
(* H264RtpPacketizer and RtpClock90k (transport/rtp_transport.cpp): access *)
(* units are cut into RTP packets of bounded payload, numbered by an       *)
(* extended sequence number whose low bits go on the wire and stamped by a *)
(* clock of RtpRate ticks a second.  What is made of the packets again is  *)
(* written from RFC 6184 (single NAL unit packets and FU-A), as a receiver *)
(* does it.  A NAL unit is a sequence of bytes whose header is the pair of *)
(* its reference indicator and its type.                                   *)
(***************************************************************************)
EXTENDS Integers, FiniteSets, Sequences, SequencesExt, FiniteSetsExt

CONSTANTS RtpPayloadMax,   \* kMaximumRtpPayloadBytes
          RtpRate,         \* kRtpClockRate
          RtpSecond,       \* nanoseconds in a second
          RtpWord,         \* the largest 64-bit number
          RtpWire,         \* one more than the largest wire sequence number
          RtpTimes,        \* dequeue times, in nanoseconds
          RtpNals          \* NAL units of the access units under test

(* The two headers of a fragment leave room for data.                      *)
ASSUME RtpAssumption ==
  /\ RtpPayloadMax \in Nat /\ RtpPayloadMax > 2
  /\ RtpRate \in Nat \ {0} /\ RtpSecond \in Nat \ {0} /\ RtpWord \in Nat

VARIABLE rtp   \* the packetizer and what it made of its last access unit

(* next and last are next_extended_sequence_ and the clock's last stamp,   *)
(* from and was their values before the access unit, now its dequeue time. *)

NoStamp == -1
FuA == 28

Header(nal) == nal[1]

PacketRole(type) ==
  CASE type = 7 -> "sequence_parameter_set"
    [] type = 8 -> "picture_parameter_set"
    [] type = 5 -> "idr"
    [] type = 1 -> "inter"
    [] OTHER -> "supplemental"

(* The first IDR slice comes before every other slice, and after an SPS    *)
(* with a PPS behind it; without an IDR slice nothing is asked.            *)
IdrHasParameterSets(units) ==
  LET type(k) == Header(units[k]).type
      idrs == {k \in DOMAIN units : type(k) = 5}
  IN  idrs # {} =>
        /\ \A k \in 1..(Min(idrs) - 1) : type(k) \notin 1..4
        /\ \E i, k \in 1..(Min(idrs) - 1) : i < k /\ type(i) = 7 /\ type(k) = 8

(* The fragment of a unit that begins after its first from bytes. *)
Fragment(nal, from) ==
  LET chunk == Min({Len(nal) - from, RtpPayloadMax - 2})
  IN  <<[nri |-> Header(nal).nri, type |-> FuA],
        [start |-> from = 1, end |-> chunk = Len(nal) - from, type |-> Header(nal).type]>>
      \o SubSeq(nal, from + 1, from + chunk)

FragmentUnit(nal) ==
  IF Len(nal) <= RtpPayloadMax THEN <<nal>>
  ELSE LET data == RtpPayloadMax - 2
           count == (Len(nal) - 1 + data - 1) \div data
       IN  [k \in 1..count |-> Fragment(nal, 1 + (k - 1) * data)]

Payloads(units) ==
  FoldLeft(LAMBDA out, nal : out \o [k \in DOMAIN FragmentUnit(nal) |->
                                       [bytes |-> FragmentUnit(nal)[k], role |-> PacketRole(Header(nal).type)]],
           <<>>, units)

(* RtpClock90k::map: whole and fractional seconds apart, each sum checked. *)
ClockMap(p, now) ==
  LET delta == now - p.base
      whole == delta \div RtpSecond
      ticks == whole * RtpRate
      part  == ((delta % RtpSecond) * RtpRate) \div RtpSecond
      stamp == p.baseStamp + ticks + part
  IN  IF \/ now < p.base
         \/ whole > RtpWord \div RtpRate
         \/ part > RtpWord - ticks
         \/ ticks + part > RtpWord - p.baseStamp
         \/ p.last # NoStamp /\ stamp <= p.last
        THEN NoStamp ELSE stamp

MakePacket(payload, marker, sequence, stamp) ==
  [bytes |-> payload.bytes, role |-> payload.role, marker |-> marker, sequence |-> sequence,
   wire |-> sequence % RtpWire, stamp |-> stamp]

(* packetize of an access unit that was parsed: all of it or nothing. *)
Packetized(p, units, now) ==
  LET payloads == Payloads(units)
      stamp == ClockMap(p, now)
      tried == [p EXCEPT !.from = p.next, !.was = p.last, !.now = now]
  IN  IF ~IdrHasParameterSets(units) \/ Len(payloads) > RtpWord - p.next \/ stamp = NoStamp
        THEN [tried EXCEPT !.units = <<>>, !.packets = <<>>]
        ELSE [tried EXCEPT !.next = p.next + Len(payloads), !.last = stamp, !.units = units,
                           !.packets = [k \in DOMAIN payloads |->
                               MakePacket(payloads[k], k = Len(payloads), p.next + k - 1, stamp)]]

(* What the pacer asks of a batch of packets before it queues it           *)
(* (transport/media_pacer.cpp), and which batches it takes for an IDR that *)
(* needs nothing before it.                                                *)
ValidateBatchIdentity(packets) ==
  /\ packets # <<>>
  /\ \A k \in DOMAIN packets :
       /\ packets[k].bytes # <<>>
       /\ packets[k].sequence = packets[1].sequence + k - 1
       /\ packets[k].marker = (k = Len(packets))

IsRecoveryAccessUnit(packets) ==
  LET step(saw, p) ==
        CASE p.role = "sequence_parameter_set" -> [saw EXCEPT !.sps = TRUE]
          [] p.role = "picture_parameter_set" -> [saw EXCEPT !.pps = saw.sps]
          [] p.role = "idr" -> [saw EXCEPT !.idr = saw.sps /\ saw.pps]
          [] OTHER -> saw
  IN  FoldLeft(step, [sps |-> FALSE, pps |-> FALSE, idr |-> FALSE], packets).idr

(* expand_generic_nack: a field names a packet and, with its bits, some of *)
(* the packets after it; every identifier is listed once.                  *)
ExpandGenericNack(fields) ==
  LET named(f) == <<f.id>> \o [k \in 1..Cardinality(f.bits) |->
                     (f.id + SetToSortSeq(f.bits, <)[k] + 1) % RtpWire]
      add(ids, id) == IF Contains(ids, id) THEN ids ELSE Append(ids, id)
  IN  FoldLeft(LAMBDA ids, f : FoldLeft(add, ids, named(f)), <<>>, fields)

(* A packetizer starts at any sequence number, time and timestamp. *)
RtpInit ==
  rtp \in [next : {RtpWire - 2, RtpWord - 3}, last : {NoStamp}, base : {0, 2}, baseStamp : {0, RtpWord - 2},
           units : {<<>>}, packets : {<<>>}, from : {0}, was : {NoStamp}, now : {0}]

(* What the Annex B parser accepts holds a slice. *)
HasSlice(units) == \E k \in DOMAIN units : Header(units[k]).type \in 1..5

RtpNext ==
  \E n \in 1..3, now \in RtpTimes : \E units \in [1..n -> RtpNals] :
    HasSlice(units) /\ rtp' = Packetized(rtp, units, now)

-----------------------------------------------------------------------------
(* A receiver: fragments are joined from a start to an end of one type,    *)
(* anything else is a unit of its own; a fragment out of place spoils all. *)
Depacketized(packets) ==
  LET open(s) == s.nal # <<>>
      step(s, p) ==
        IF s.bad \/ Header(p.bytes).type # FuA
          THEN [s EXCEPT !.bad = @ \/ open(s), !.units = Append(@, p.bytes)]
          ELSE LET fu == p.bytes[2]
                   head == [nri |-> Header(p.bytes).nri, type |-> fu.type]
                   nal == (IF fu.start THEN <<head>> ELSE s.nal) \o SubSeq(p.bytes, 3, Len(p.bytes))
               IN  IF fu.start = open(s) \/ Header(nal) # head THEN [s EXCEPT !.bad = TRUE]
                   ELSE IF fu.end THEN [s EXCEPT !.units = Append(@, nal), !.nal = <<>>]
                   ELSE [s EXCEPT !.nal = nal]
      end == FoldLeft(step, [bad |-> FALSE, nal |-> <<>>, units |-> <<>>], packets)
  IN  IF end.bad \/ open(end) THEN <<"spoilt">> ELSE end.units

(* The receiver gets the units back that were sent, byte for byte, in      *)
(* packets within the limit, numbered without a gap also where the wire    *)
(* number wraps, with one stamp, later than any before it and exact to the *)
(* tick; an IDR slice never leaves without its parameter sets.  The pacer  *)
(* accepts every batch, knows the recovery points among them, and a NACK   *)
(* for lost packets asks for just those, also across the wrap.             *)
PacketsFaithful ==
  LET packets == rtp.packets
      sent(role, k) == {i \in 1..k : packets[i].role = role}
  IN  IF packets = <<>> THEN rtp.units = <<>>
      ELSE /\ Depacketized(packets) = rtp.units
           /\ rtp.next = rtp.from + Len(packets) /\ rtp.next <= RtpWord
           /\ ValidateBatchIdentity(packets)
           /\ IsRecoveryAccessUnit(packets) = (\E k \in DOMAIN rtp.units : Header(rtp.units[k]).type = 5)
           /\ \A lost \in SUBSET (DOMAIN packets \ {1}) :
                LET field == [id |-> packets[1].wire, bits |-> {k - 2 : k \in lost}]
                    ids == ExpandGenericNack(<<field, [field EXCEPT !.bits = {}]>>)
                IN  /\ ToSet(ids) = {packets[k].wire : k \in lost \cup {1}}
                    /\ IsInjective(ids)
           /\ rtp.last > rtp.was /\ rtp.last <= RtpWord
           /\ \A k \in DOMAIN packets :
                /\ Len(packets[k].bytes) <= RtpPayloadMax
                /\ k > 1 => packets[k].wire = (packets[k - 1].wire + 1) % RtpWire
                /\ packets[k].stamp = rtp.baseStamp + ((rtp.now - rtp.base) * RtpRate) \div RtpSecond
                /\ packets[k].role = "idr" =>
                     \E i \in sent("sequence_parameter_set", k), j \in sent("picture_parameter_set", k) : i < j
=============================================================================
