------------------------------- MODULE H264Sps -------------------------------
(***************************************************************************)
(* The sequence parameter set parser (media/h264_sps.cpp) and the profile  *)
(* checks on what it finds (media/recording_profile.cpp), as functions of  *)
(* a bit string.  The parser is a table of the fields in the order the     *)
(* code reads them, each with its width, its bound and the condition under *)
(* which it is there; the bit strings are written by the syntax of the     *)
(* standard (7.3.2.1.1 and Annex E), which the table has to invert.        *)
(***************************************************************************)
EXTENDS Integers, FiniteSets, Sequences, SequencesExt, FiniteSetsExt

VARIABLE sps   \* the fields of a parameter set, and how many bits are cut off

-----------------------------------------------------------------------------
(* BitReader *)

NumberOf(bits) == FoldLeft(LAMBDA n, b : 2 * n + b, 0, bits)

Failed(r) == [r EXCEPT !.ok = FALSE]

ReadBits(r, n) ==
  IF ~r.ok \/ r.at + n - 1 > Len(r.bits) THEN Failed(r)
  ELSE [r EXCEPT !.at = @ + n, !.value = IF n > 16 THEN 0 ELSE NumberOf(SubSeq(r.bits, r.at, r.at + n - 1))]

ReadUe(r) ==
  LET ones == {i \in r.at..Min({Len(r.bits), r.at + 31}) : r.bits[i] = 1}
      zeros == Min(ones) - r.at
      s == ReadBits([r EXCEPT !.at = @ + zeros + 1], zeros)
  IN  IF ~r.ok \/ ones = {} THEN Failed(r)
      ELSE IF zeros >= 31 \/ ~s.ok THEN Failed(r)
      ELSE [s EXCEPT !.value = 2 ^ zeros - 1 + (IF zeros = 0 THEN 0 ELSE s.value)]

ReadSe(r) ==
  LET u == ReadUe(r)
  IN  [u EXCEPT !.value = IF @ % 2 = 1 THEN (@ + 1) \div 2 ELSE -((@ + 1) \div 2)]

RECURSIVE Repeat(_, _, _)
Repeat(Op(_, _), r, n) == IF n = 0 THEN r ELSE Op(Repeat(Op, r, n - 1), n)

(* skip_scaling_list: deltas are read until a scale becomes 0. *)
RECURSIVE SkipScalingList(_, _, _)
SkipScalingList(r, count, last) ==
  IF count = 0 \/ ~r.ok THEN r
  ELSE LET d == ReadSe(r)
           scale == (last + d.value + 256) % 256
       IN  IF scale = 0 THEN d ELSE SkipScalingList(d, count - 1, scale)

SkipScalingLists(r, count) ==
  Repeat(LAMBDA q, k : LET flag == ReadBits(q, 1)
                       IN  IF flag.ok /\ flag.value = 1
                             THEN SkipScalingList(flag, IF k <= 6 THEN 16 ELSE 64, 8) ELSE flag,
         r, count)

SkipHrd(r) ==
  LET cpb == ReadUe(r)
      body == Repeat(LAMBDA q, k : ReadBits(ReadUe(ReadUe(q)), 1), ReadBits(cpb, 8), cpb.value + 1)
  IN  IF ~cpb.ok \/ cpb.value > 31 THEN Failed(cpb) ELSE ReadBits(body, 20)

-----------------------------------------------------------------------------
(* parse_h264_sps, parse_high_profile_fields and parse_vui *)

HighProfiles == {100, 110, 122, 244, 44, 83, 86, 118, 128, 138, 139, 134, 135}

(* Name, reader, width of a u, greatest legal value (-1: any). *)
HeaderFields ==
  << <<"profile", "u", 8, -1>>, <<"iop", "u", 8, -1>>, <<"level", "u", 8, -1>>, <<"id", "ue", 0, 31>> >>

HighFields ==
  << <<"chroma", "ue", 0, 3>>, <<"separate", "u", 1, -1>>, <<"depth", "ue", 0, 6>>, <<"depth2", "ue", 0, 6>>,
     <<"bypass", "u", 1, -1>>, <<"scaling", "u", 1, -1>>, <<"lists", "lists", 0, -1>> >>

OrderFields ==
  << <<"frame_num", "ue", 0, 12>>, <<"poc", "ue", 0, 2>>, <<"poc_lsb", "ue", 0, 12>>, <<"poc_zero", "u", 1, -1>>,
     <<"poc_a", "se", 0, -1>>, <<"poc_b", "se", 0, -1>>, <<"cycle", "ue", 0, 255>>, <<"cycles", "cycles", 0, -1>>,
     <<"refs", "ue", 0, 16>>, <<"gaps", "u", 1, -1>> >>

GeometryFields ==
  << <<"width", "ue", 0, 1023>>, <<"height", "ue", 0, 1023>>, <<"progressive", "u", 1, -1>>, <<"mbaff", "u", 1, -1>>,
     <<"direct", "u", 1, -1>>, <<"cropping", "u", 1, -1>>, <<"left", "ue", 0, -1>>, <<"right", "ue", 0, -1>>,
     <<"top", "ue", 0, -1>>, <<"bottom", "ue", 0, -1>>, <<"vui", "u", 1, -1>> >>

VuiFields ==
  << <<"aspect", "u", 1, -1>>, <<"aspect_idc", "u", 8, -1>>, <<"sar", "u", 32, -1>>, <<"overscan", "u", 1, -1>>,
     <<"overscan_ok", "u", 1, -1>>, <<"signal", "u", 1, -1>>, <<"format", "u", 3, -1>>, <<"full", "u", 1, -1>>,
     <<"colour", "u", 1, -1>>, <<"primaries", "u", 8, -1>>, <<"transfer", "u", 8, -1>>, <<"matrix", "u", 8, -1>>,
     <<"location", "u", 1, -1>>, <<"location_a", "ue", 0, -1>>, <<"location_b", "ue", 0, -1>>,
     <<"timing", "u", 1, -1>>, <<"ticks", "u", 65, -1>>, <<"nal_hrd", "u", 1, -1>>, <<"nal", "hrd", 0, -1>>,
     <<"vcl_hrd", "u", 1, -1>>, <<"vcl", "hrd", 0, -1>>, <<"low_delay", "u", 1, -1>>, <<"struct", "u", 1, -1>>,
     <<"restriction", "u", 1, -1>>, <<"restrictions", "restrictions", 0, -1>> >>

SpsFields == HeaderFields \o HighFields \o OrderFields \o GeometryFields \o VuiFields

FieldNames == {SpsFields[k][1] : k \in DOMAIN SpsFields}
NamesOf(fields) == {fields[k][1] : k \in DOMAIN fields}
HighNames == NamesOf(HighFields)
VuiNames == NamesOf(VuiFields)

HighWanted(v, name) ==
  /\ v["profile"] \in HighProfiles
  /\ name = "separate" => v["chroma"] = 3
  /\ name = "lists" => v["scaling"] = 1

VuiWanted(v, name) ==
  /\ v["vui"] = 1
  /\ name = "aspect_idc" => v["aspect"] = 1
  /\ name = "sar" => v["aspect"] = 1 /\ v["aspect_idc"] = 255
  /\ name = "overscan_ok" => v["overscan"] = 1
  /\ name \in {"format", "full", "colour"} => v["signal"] = 1
  /\ name \in {"primaries", "transfer", "matrix"} => v["signal"] = 1 /\ v["colour"] = 1
  /\ name \in {"location_a", "location_b"} => v["location"] = 1
  /\ name = "ticks" => v["timing"] = 1
  /\ name = "nal" => v["nal_hrd"] = 1
  /\ name = "vcl" => v["vcl_hrd"] = 1
  /\ name = "low_delay" => v["nal_hrd"] = 1 \/ v["vcl_hrd"] = 1
  /\ name = "restrictions" => v["restriction"] = 1

Wanted(v, name) ==
  /\ name \in HighNames => HighWanted(v, name)
  /\ name \in VuiNames => VuiWanted(v, name)
  /\ name = "poc_lsb" => v["poc"] = 0
  /\ name \in {"poc_zero", "poc_a", "poc_b", "cycle", "cycles"} => v["poc"] = 1
  /\ name = "mbaff" => v["progressive"] = 0
  /\ name \in {"left", "right", "top", "bottom"} => v["cropping"] = 1

ReadField(r, v, field) ==
  CASE field[2] = "u" -> ReadBits(r, field[3])
    [] field[2] = "ue" -> ReadUe(r)
    [] field[2] = "se" -> ReadSe(r)
    [] field[2] = "lists" -> SkipScalingLists(r, IF v["chroma"] = 3 THEN 12 ELSE 8)
    [] field[2] = "cycles" -> Repeat(LAMBDA q, k : ReadSe(q), r, v["cycle"])
    [] field[2] = "hrd" -> SkipHrd(r)
    [] OTHER -> Repeat(LAMBDA q, k : ReadUe(q), ReadBits(r, 1), 6)

(* What a field defaults to when it is not there. *)
Defaults == [name \in FieldNames |-> IF name = "chroma" THEN 1 ELSE 0]

ParseField(st, field) ==
  IF ~st.r.ok \/ ~Wanted(st.v, field[1]) THEN st
  ELSE LET r == ReadField(st.r, st.v, field)
           bad == \/ field[4] # -1 /\ r.value > field[4]
                  \/ field[1] = "iop" /\ r.value % 4 # 0
       IN  IF ~r.ok \/ bad THEN [st EXCEPT !.r = Failed(r)]
           ELSE [r |-> r, v |-> [st.v EXCEPT ![field[1]] = r.value]]

Parsed(bits) ==
  FoldLeft(ParseField, [r |-> [bits |-> bits, at |-> 1, ok |-> TRUE, value |-> 0], v |-> Defaults], SpsFields)

CodedWidth(v) == (v["width"] + 1) * 16
CodedHeight(v) == (v["height"] + 1) * 16 * (2 - v["progressive"])

(* Mutant: a field's rows are taken for a frame's. *)
CropUnitsFrame(v) ==
  LET type == IF v["separate"] = 1 THEN 0 ELSE v["chroma"]
  IN  [x |-> IF type \in {0, 3} THEN 1 ELSE 2, y |-> IF type = 1 THEN 2 ELSE 1]

(* The crop offsets count chroma samples, and rows of a frame or a field. *)
CropUnits(v) ==
  LET type == IF v["separate"] = 1 THEN 0 ELSE v["chroma"]
  IN  [x |-> IF type \in {0, 3} THEN 1 ELSE 2,
       y |-> (IF type = 1 THEN 2 ELSE 1) * (2 - v["progressive"])]

Cropped(v) == [x |-> (v["left"] + v["right"]) * CropUnits(v).x,
               y |-> (v["top"] + v["bottom"]) * CropUnits(v).y]

SpsPasses(st) ==
  st.r.ok /\ Cropped(st.v).x < CodedWidth(st.v) /\ Cropped(st.v).y < CodedHeight(st.v)

Visible(v) == <<CodedWidth(v) - Cropped(v).x, CodedHeight(v) - Cropped(v).y>>

(* classify_h264_profile, as far as the checks tell families apart: the    *)
(* reserved bits are 0 and the profile's constraint flags are set.         *)
ConstrainedBaseline(v) ==
  /\ v["iop"] % 16 = 0
  /\ \/ v["profile"] = 66 /\ (v["iop"] \div 64) % 2 = 1
     \/ v["profile"] = 77 /\ v["iop"] >= 128
     \/ v["profile"] = 88 /\ v["iop"] >= 192

Presentations == {[size |-> <<1920, 1080>>, level |-> 40], [size |-> <<1280, 720>>, level |-> 31]}

RecordingProfileAccepts(v, size) ==
  /\ ConstrainedBaseline(v)
  /\ \E p \in Presentations : p.size = size /\ v["level"] >= p.level
  /\ v["level"] <= 40
  /\ Visible(v) = size
  /\ v["progressive"] = 1
  /\ v["vui"] = 1 /\ v["signal"] = 1 /\ v["colour"] = 1
  /\ v["full"] = 0 /\ v["primaries"] = 1 /\ v["transfer"] = 1 /\ v["matrix"] = 1

-----------------------------------------------------------------------------
(* The standard's syntax: the bits of a parameter set with fields v. *)

U(n, x) == [k \in 1..n |-> (x \div 2 ^ (n - k)) % 2]
Ue(x) == LET z == Max({k \in 0..12 : 2 ^ k <= x + 1}) IN [k \in 1..z |-> 0] \o U(z + 1, x + 1)
Se(x) == Ue(IF x > 0 THEN 2 * x - 1 ELSE -2 * x)
Zeros(n) == [k \in 1..n |-> 0]
When(c, bits) == IF c THEN bits ELSE <<>>
Times(n, bits) == FlattenSeq([k \in 1..n |-> bits])

(* The first list ends at its first scale, the second holds all its        *)
(* sixteen, the seventh ends at its second.                                *)
WriteScalingLists(n) ==
  <<1>> \o Se(-8) \o <<1>> \o Times(16, Se(0)) \o Zeros(4) \o <<1>> \o Se(3) \o Se(-11) \o Zeros(n - 7)

WriteHrd(v) == Ue(1) \o Zeros(8) \o Times(2, Ue(5) \o Ue(6) \o <<1>>) \o U(20, 77)

WriteVui(v) ==
  <<v.aspect>> \o When(v.aspect = 1, U(8, v.aspect_idc) \o When(v.aspect_idc = 255, U(16, 3) \o U(16, 2)))
  \o <<v.overscan>> \o When(v.overscan = 1, <<0>>)
  \o <<v.signal>> \o When(v.signal = 1, U(3, 5) \o <<v.full, v.colour>>
                                        \o When(v.colour = 1, U(8, v.primaries) \o U(8, 1) \o U(8, 1)))
  \o <<v.location>> \o When(v.location = 1, Ue(2) \o Ue(3))
  \o <<v.timing>> \o When(v.timing = 1, Zeros(31) \o <<1>> \o Zeros(26) \o U(6, 60) \o <<1>>)
  \o <<v.nal_hrd>> \o When(v.nal_hrd = 1, WriteHrd(v)) \o <<v.vcl_hrd>> \o When(v.vcl_hrd = 1, WriteHrd(v))
  \o When(v.nal_hrd + v.vcl_hrd > 0, <<0>>) \o <<1, v.restriction>>
  \o When(v.restriction = 1, <<1>> \o Times(6, Ue(4)))

WriteSps(v) ==
  U(8, v.profile) \o U(8, v.iop) \o U(8, v.level) \o Ue(0)
  \o When(v.profile \in HighProfiles,
          Ue(v.chroma) \o When(v.chroma = 3, <<v.separate>>) \o Ue(0) \o Ue(0) \o <<0, v.scaling>>
          \o When(v.scaling = 1, WriteScalingLists(IF v.chroma = 3 THEN 12 ELSE 8)))
  \o Ue(0) \o Ue(v.poc) \o When(v.poc = 0, Ue(2))
  \o When(v.poc = 1, <<0>> \o Se(-2) \o Se(1) \o Ue(3) \o Se(1) \o Se(-1) \o Se(0))
  \o Ue(1) \o <<0>> \o Ue(v.width) \o Ue(v.height) \o <<v.progressive>> \o When(v.progressive = 0, <<1>>)
  \o <<1, v.cropping>> \o When(v.cropping = 1, Ue(v.left) \o Ue(0) \o Ue(0) \o Ue(v.bottom))
  \o <<v.vui>> \o When(v.vui = 1, WriteVui(v))

Plain == [profile |-> 66, iop |-> 64, level |-> 40, chroma |-> 1, separate |-> 0, scaling |-> 0, poc |-> 2,
          width |-> 119, height |-> 67, progressive |-> 1, cropping |-> 1, left |-> 0, bottom |-> 4,
          vui |-> 1, aspect |-> 1, aspect_idc |-> 1, overscan |-> 0, signal |-> 1, full |-> 0, colour |-> 1,
          primaries |-> 1, location |-> 0, timing |-> 1, nal_hrd |-> 0, vcl_hrd |-> 0, restriction |-> 1]

Bit == {0, 1}

(* Parameter sets of every profile family, order type and picture shape,   *)
(* and of every combination of the parts of the VUI.                       *)
Shapes ==
  {[Plain EXCEPT !.profile = p, !.iop = i, !.chroma = c, !.separate = s, !.scaling = m, !.poc = o,
                 !.progressive = g, !.cropping = k, !.left = l] :
     p \in {66, 77, 100}, i \in {64, 128}, c \in 0..3, s \in Bit, m \in Bit, o \in 0..2,
     g \in Bit, k \in Bit, l \in {0, 960}}

Vuis ==
  {[Plain EXCEPT !.vui = v, !.aspect_idc = a, !.overscan = o, !.signal = s, !.full = f, !.colour = c,
                 !.location = l, !.nal_hrd = n, !.vcl_hrd = h, !.restriction = r] :
     v \in Bit, a \in {1, 255}, o \in Bit, s \in Bit, f \in Bit, c \in Bit, l \in Bit, n \in Bit, h \in Bit,
     r \in Bit}

(* A field that is not written keeps its default. *)
Normal(v) ==
  /\ v.profile # 100 => v.chroma = 1 /\ v.scaling = 0
  /\ v.chroma # 3 => v.separate = 0
  /\ v.cropping = 0 => v.left = 0
  /\ v.vui = 0 => v.signal + v.overscan + v.location + v.nal_hrd + v.vcl_hrd + v.restriction = 0
  /\ v.signal = 0 => v.full + v.colour = 0

Cuts == {0, 1}

SpsInit ==
  \E v \in {w \in Shapes \cup Vuis : Normal(w)}, cut \in Cuts : sps = [v |-> v, cut |-> cut]

(* The picture that the standard's equations (7-13 to 7-22) say is shown.  *)
StandardVisible(v) ==
  LET frames == IF v.progressive = 1 THEN 1 ELSE 2
      subw == CASE v.chroma \in {1, 2} -> 2 [] OTHER -> 1
      subh == IF v.chroma = 1 THEN 2 ELSE 1
      unit == IF v.separate = 1 \/ v.chroma = 0 THEN <<1, frames>> ELSE <<subw, subh * frames>>
      crop == IF v.cropping = 1 THEN <<v.left * unit[1], v.bottom * unit[2]>> ELSE <<0, 0>>
  IN  <<16 * (v.width + 1) - crop[1], 16 * (v.height + 1) * frames - crop[2]>>

Agrees(v, w) ==
  /\ \A name \in {"profile", "iop", "level", "chroma", "separate", "progressive", "vui", "signal",
                 "full", "colour"} : v[name] = w[name]
  /\ w.colour = 1 => v["primaries"] = w.primaries

(* Every parameter set the standard can write is read back with the fields *)
(* and the visible size it was written with, down to its last bit, unless  *)
(* its crop leaves nothing; one that ends early is refused; and the        *)
(* recording profile takes it only if a constrained baseline decoder of    *)
(* the presentation's level shows exactly that presentation in BT.709.     *)
SpsReadBack ==
  \E bits \in {WriteSps(sps.v)} :
    \E st \in {Parsed(SubSeq(bits, 1, Len(bits) - sps.cut))} :
      /\ sps.cut > 0 => ~st.r.ok
      /\ sps.cut = 0 =>
           /\ st.r.ok /\ st.r.at = Len(bits) + 1
           /\ Agrees(st.v, sps.v)
           /\ SpsPasses(st) <=> StandardVisible(sps.v)[1] > 0 /\ StandardVisible(sps.v)[2] > 0
           /\ SpsPasses(st) => Visible(st.v) = StandardVisible(sps.v)
           /\ RecordingProfileAccepts(st.v, <<1920, 1080>>) =>
                /\ StandardVisible(sps.v) = <<1920, 1080>> /\ sps.v.progressive = 1
                /\ <<sps.v.profile, sps.v.iop>> \in {<<66, 64>>, <<77, 128>>}
                /\ sps.v.vui * sps.v.signal * sps.v.colour = 1 /\ sps.v.full = 0
=============================================================================
