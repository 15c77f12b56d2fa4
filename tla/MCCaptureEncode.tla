--------------------------- MODULE MCCaptureEncode ---------------------------
(***************************************************************************)
(* From the captured window to the access unit, part by part: a behaviour  *)
(* is one of the record command with its capture, or of the NVENC encoder, *)
(* or of the RTP packetizer, or of the corrections and emphasis maps, or   *)
(* one captured buffer, byte stream or parameter set read.  They share no  *)
(* state.                                                                  *)
(***************************************************************************)
EXTENDS RecordCommand, NvencEncoder, CaptureGeometry, AnnexB, H264Sps, RtpPacketizer,
        Saliency

VARIABLE part

formatVars == <<shot, stream, sps>>
mcVars == <<part, recVars, encVars, formatVars, rtp, sal>>

(* A parameter set of each kind, and slices about the payload limit. *)
Nal(nri, type, length) ==
  <<[nri |-> nri, type |-> type]>> \o [k \in 1..(length - 1) |-> k]

MCRtpNals ==
  {Nal(3, 7, 2), Nal(3, 8, RtpPayloadMax), Nal(3, 5, RtpPayloadMax + 1),
   Nal(2, 1, 2 * RtpPayloadMax - 2)}

(* Sides that end inside a tile, a picture one tile wide; corrections that *)
(* overlap, one that wraps.                                                *)
MCSalSizes == {<<2, 4>>, <<5, 3>>}
MCSalRectangles == {<<0, 0, 3, 3>>, <<1, 1, 1, 2>>, <<4, 1, 14, 1>>}
MCSalHalos == {{<<1, 3, 15, 15>>}}

MCInit ==
  /\ CommandInit /\ EncInit
  /\ part \in {"record", "encoder", "shot", "stream", "sps", "rtp", "saliency"}
  /\ IF part = "shot" THEN ShotInit ELSE shot = 0
  /\ IF part = "stream" THEN StreamInit ELSE stream = 0
  /\ IF part = "sps" THEN SpsInit ELSE sps = 0
  /\ IF part = "rtp" THEN RtpInit ELSE rtp = 0
  /\ SalInit /\ (part = "saliency" \/ sal.cor.size = <<5, 3>>)
  /\ part = "encoder" \/ enc.open

MCNext ==
  /\ UNCHANGED <<part, formatVars>>
  /\ \/ part = "record" /\ RecNext /\ UNCHANGED <<encVars, rtp, sal>>
     \/ part = "encoder" /\ EncNext /\ UNCHANGED <<recVars, rtp, sal>>
     \/ part = "rtp" /\ RtpNext /\ UNCHANGED <<recVars, encVars, sal>>
     \/ part = "saliency" /\ SalNext /\ UNCHANGED <<recVars, encVars, rtp>>

MCSpec ==
  /\ MCInit /\ [][MCNext]_mcVars
  /\ WF_recVars(part = "record" /\ CommandStep)
  /\ WF_recVars(part = "record" /\ ((LoopStep /\ job.at # "idle") \/ FailStep))
  /\ WF_encVars(part = "encoder" /\ WorkerNext)
  /\ WF_encVars(part = "encoder" /\ OwnerEnds)

(* What the readers of captured buffers and coded streams conclude is what *)
(* their input says: turned pictures and damage agree, no row is read past *)
(* its buffer, access units and parameter sets are read back as written,   *)
(* and a receiver puts the packets together again to what was sent.        *)
FormatsFaithful ==
  /\ part = "shot" => TurnsAgree /\ ReadsInBounds
  /\ part = "stream" => AnnexBRoundTrip /\ KeyframesDecodable
  /\ part = "sps" => SpsReadBack
  /\ part = "rtp" => PacketsFaithful
=============================================================================
