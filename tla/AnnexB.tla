------------------------------- MODULE AnnexB -------------------------------
(***************************************************************************)
(* The access unit parser (media/annex_b.cpp) and the checks that           *)
(* OpenH264Encoder::encode makes on what it parsed, as functions of a byte *)
(* string, compared with the byte stream format they have to undo: the     *)
(* encapsulation of H.264 Annex B, written here from the standard.         *)
(***************************************************************************)
EXTENDS Integers, FiniteSets, Sequences, SequencesExt, FiniteSetsExt

CONSTANTS AbAlphabet,   \* bytes the raw strings are made of
          AbLength,     \* longest raw string
          AbHeaders,    \* NAL headers of the written streams
          AbMaxUnits,   \* kMaximumNalUnits
          AbMaxNal      \* kMaximumNalBytes

VARIABLE stream   \* the byte string under test, and the units it was written from

Rejected == <<>>

Strings(set, n) == UNION {[1..k -> set] : k \in 0..n}

(* The length of the start code at index i: 00 00 01 or 00 00 00 01. *)
StartCodeAt(s, i) ==
  IF i + 2 > Len(s) \/ s[i] # 0 \/ s[i + 1] # 0 THEN 0
  ELSE IF s[i + 2] = 1 THEN 3
  ELSE IF i + 3 <= Len(s) /\ s[i + 2] = 0 /\ s[i + 3] = 1 THEN 4 ELSE 0

FindStartCode(s, from) ==
  LET found == {i \in from..Len(s) : StartCodeAt(s, i) # 0}
  IN  IF found = {} THEN [offset |-> Len(s) + 1, size |-> 0]
      ELSE [offset |-> Min(found), size |-> StartCodeAt(s, Min(found))]

(* The zeros that precede each byte of a payload, the header not counted;  *)
(* a 3 after two zeros ends a run like any other byte.                     *)
ZerosBefore(p, i) ==
  i - 1 - Max({k \in 1..(i - 1) : k = 1 \/ p[k] # 0})

ValidEbsp(p) ==
  /\ Len(p) > 1
  /\ \A i \in 2..Len(p) : ZerosBefore(p, i) >= 2 =>
       p[i] > 2 /\ (p[i] = 3 => i < Len(p) /\ p[i + 1] <= 3)

NalType(header) == header % 32

ValidHeader(header) == header < 128 /\ NalType(header) \in 1..23

(* The end of the unit that starts at begin: trailing zeros are not its. *)
PayloadEnd(s, begin, next) ==
  Max({begin - 1} \cup {i \in begin..(next - 1) : s[i] # 0})

RECURSIVE ParseUnits(_, _, _)
ParseUnits(s, code, units) ==
  IF code.size = 0 THEN units
  ELSE LET begin == code.offset + code.size
           next == FindStartCode(s, begin)
           end == PayloadEnd(s, begin, next.offset)
           payload == SubSeq(s, begin, end)
       IN  IF \/ Len(units) >= AbMaxUnits \/ payload = <<>> \/ Len(payload) > AbMaxNal
              \/ ~ValidHeader(payload[1]) \/ ~ValidEbsp(payload)
             THEN Rejected
             ELSE ParseUnits(s, next, Append(units, [start |-> code.offset, size |-> code.size,
                                                     begin |-> begin, end |-> end]))

TypeOf(s, unit) == NalType(s[unit.begin])
Payload(s, unit) == SubSeq(s, unit.begin, unit.end)
HasType(s, units, type) == \E k \in DOMAIN units : TypeOf(s, units[k]) = type

(* The units of an access unit, or Rejected: an access unit begins with    *)
(* zeros and a start code and has a slice in it.                           *)
ParseAccessUnit(s) ==
  LET first == FindStartCode(s, 1)
      units == ParseUnits(s, first, <<>>)
  IN  IF \/ first.size = 0 \/ \E i \in 1..(first.offset - 1) : s[i] # 0
         \/ ~\E type \in 1..5 : HasType(s, units, type)
        THEN Rejected ELSE units

(* annex_b_nal_to_rbsp: the header and the prevention bytes are dropped. *)
ToRbsp(p) ==
  LET kept == {i \in 2..Len(p) : ~(ZerosBefore(p, i) >= 2 /\ p[i] = 3)}
  IN  [n \in 1..Cardinality(kept) |-> p[CHOOSE i \in kept : Cardinality(kept \cap 2..i) = n]]

StartsWithParameterSetsAndIdr(types) ==
  LET vcl == {k \in DOMAIN types : types[k] \in 1..5}
      sps == {k \in DOMAIN types : types[k] = 7}
  IN  /\ vcl # {} /\ types[Min(vcl)] = 5
      /\ \E k \in 1..(Min(vcl) - 1) : types[k] = 8 /\ \E j \in sps : j < k

(* What encode returns as an access unit: the first one, and every one     *)
(* with an IDR slice, must start with its parameter sets.                  *)
EncodeAccepts(index, s, units) ==
  /\ units # Rejected
  /\ index = 0 \/ HasType(s, units, 5) =>
       StartsWithParameterSetsAndIdr([k \in DOMAIN units |-> TypeOf(s, units[k])])

-----------------------------------------------------------------------------
(* The standard's encapsulation: a prevention byte before any byte up to 3 *)
(* that follows two zeros of the payload written so far.                   *)
Escape(rbsp) ==
  LET put(out, b) ==
        LET z == Len(out) >= 2 /\ out[Len(out)] = 0 /\ out[Len(out) - 1] = 0
        IN  IF z /\ b <= 3 THEN out \o <<3, b>> ELSE Append(out, b)
  IN  FoldLeft(put, <<>>, rbsp)

Written(units) ==
  FoldLeft(LAMBDA out, u : out \o (IF u.long THEN <<0, 0, 0, 1>> ELSE <<0, 0, 1>>)
                               \o <<u.header>> \o Escape(u.rbsp), <<>>, units)

(* A unit as an encoder makes it: its rbsp ends in a byte that is not 0. *)
Units == [header : AbHeaders, long : BOOLEAN, rbsp : {<<0, 0, 1>>, <<0, 0, 0, 2>>, <<0, 0, 3, 9>>}]

StreamInit ==
  \/ \E head \in {<<>>, <<0, 0, 1, 1>>}, s \in Strings(AbAlphabet, AbLength) :
       stream = [bytes |-> head \o s, units |-> <<>>]
  \/ \E k \in 1..3 : \E us \in [1..k -> Units] : stream = [bytes |-> Written(us), units |-> us]

(* What the parser accepts it has understood: everything outside the units *)
(* is start codes and zeros, no unit holds a start code, and stripping the *)
(* prevention bytes loses nothing, for writing the payload again gives the *)
(* same bytes.                                                             *)
Understood(s, units) ==
  /\ \A i \in DOMAIN s :
       \/ \E k \in DOMAIN units : i \in units[k].start..units[k].end
       \/ s[i] = 0
  /\ \A k \in DOMAIN units :
       LET p == Payload(s, units[k])
       IN  /\ FindStartCode(p, 1).size = 0
           /\ Escape(ToRbsp(p)) = Tail(p)
           /\ k > 1 => units[k - 1].end < units[k].start

(* And what the standard writes it reads back, unit by unit. *)
ReadBack(s, units, us) ==
  /\ Len(units) = Len(us)
  /\ \A k \in DOMAIN us : /\ TypeOf(s, units[k]) = NalType(us[k].header)
                          /\ ToRbsp(Payload(s, units[k])) = us[k].rbsp

Writable(us) ==
  Len(us) <= AbMaxUnits /\ \E k \in DOMAIN us : NalType(us[k].header) \in 1..5

AnnexBRoundTrip ==
  \E units \in {ParseAccessUnit(stream.bytes)} :
    /\ units # Rejected => Understood(stream.bytes, units)
    /\ stream.units # <<>> /\ Writable(stream.units) => ReadBack(stream.bytes, units, stream.units)

(* An access unit that encode lets out as the first, or as a keyframe, can *)
(* be decoded from nothing: a decoder that reads it unit by unit has seen  *)
(* an SPS and then a PPS when it meets the first slice, an IDR slice.      *)
Decodable(types) ==
  \E i, j, k \in DOMAIN types :
    /\ i < j /\ j < k /\ types[i] = 7 /\ types[j] = 8 /\ types[k] = 5
    /\ \A m \in 1..(k - 1) : types[m] \notin 1..5

KeyframesDecodable ==
  \E units \in {ParseAccessUnit(stream.bytes)} :
    \A index \in 0..1 :
      LET types == [k \in DOMAIN stream.units |-> NalType(stream.units[k].header)]
      IN  stream.units # <<>> /\ EncodeAccepts(index, stream.bytes, units) =>
            \/ Decodable(types)
            \/ index # 0 /\ 5 \notin ToSet(types)
=============================================================================
