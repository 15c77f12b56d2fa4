------------------------------ MODULE MediaEgressGate ------------------------------
(***************************************************************************)
(* src/transport/media_egress.cpp: the last check before a UDP datagram    *)
(* leaves the host.  Sender threads run send_final, other threads close    *)
(* and resume media admission.  A std::shared_mutex (gate_) is the only    *)
(* thing that orders them: a media sender holds it shared from before the  *)
(* epoch check until after the native send has been counted, a boundary    *)
(* holds it exclusively.  Control datagrams never touch it.                *)
(***************************************************************************)
EXTENDS Integers, FiniteSets

CONSTANTS
  Senders,        \* threads that call send_final
  Closers,        \* threads that call close_media
  Datagrams,      \* the datagrams the threads submit (metadata and length)
  MaxEpoch,       \* stands for std::numeric_limits<std::uint64_t>::max() of an epoch
  MaxCount,       \* stands for the same limit of the egress counters
  MaxSends,       \* bound: send_final calls of one behaviour
  MaxBoundaries   \* bound: close_media calls of one behaviour

Classes     == {"media", "control"}
Paths       == {"direct_udp", "turn_udp"}
Families    == {"ipv4", "ipv6"}
Provenances == {"untrusted", "libdatachannel_media", "libdatachannel_control",
                "libjuice_generated_control"}
Protocols   == {"unknown_control", "srtp", "srtcp", "dtls", "stun",
                "turn_channel_data", "turn_send_indication", "turn_control"}
Reasons     == {"stop", "pause", "screen_lock", "capture_revoked", "permission_lost"}

(* FinalDatagramMetadata with the UDP payload length.  `ip_header` is one  *)
(* of the four header flags that make the wire size unverifiable, or       *)
(* "plain".                                                                *)
DatagramType ==
  [classification : Classes, path : Paths, ip_family : Families,
   provenance : Provenances, protocol : Protocols,
   ip_header : {"plain", "ipv4_options", "ipv6_extension_headers", "fragmented", "non_udp"},
   payload : Nat]

kMaximumUdpPayloadBytes == 65507

ASSUME DatagramsAssumption == Datagrams \subseteq DatagramType /\ Datagrams # {}
ASSUME EpochAssumption     == MaxEpoch \in Nat \ {0}
ASSUME CountAssumption     == MaxCount \in Nat
ASSUME BoundsAssumption    == MaxSends \in Nat /\ MaxBoundaries \in Nat

(* validate_metadata: the empty string of the code is TRUE here, any       *)
(* reason is FALSE.                                                        *)
ZeroControlInterrupt(d) ==
  /\ d.payload = 0
  /\ d.classification = "control"
  /\ d.path = "direct_udp"
  /\ d.provenance = "libjuice_generated_control"
  /\ d.protocol = "unknown_control"

TurnData == {"turn_channel_data", "turn_send_indication"}

(* Mutant: the class of an SRTP packet is not checked.                     *)
ValidMetadataNoSrtpCheck(d) ==
  /\ d.payload > 0 \/ ZeroControlInterrupt(d)
  /\ d.provenance # "untrusted"
  /\ d.provenance = "libdatachannel_media" => d.classification = "media"

ValidMetadata(d) ==
  /\ d.payload > 0 \/ ZeroControlInterrupt(d)
  /\ d.payload <= kMaximumUdpPayloadBytes
  /\ d.ip_header = "plain"
  /\ d.provenance # "untrusted"
  /\ d.provenance = "libjuice_generated_control" => d.classification = "control"
  /\ d.provenance = "libdatachannel_media"       => d.classification = "media"
  /\ d.provenance = "libdatachannel_control"     => d.classification = "control"
  /\ IF d.classification = "media"
       THEN d.protocol = "srtp" \/ (d.path = "turn_udp" /\ d.protocol \in TurnData)
       ELSE d.protocol # "srtp"
  /\ d.path = "direct_udp" => d.protocol \notin TurnData \cup {"turn_control"}

(* ip_total_bytes: UDP payload, 8 bytes of UDP header and the base header. *)
IpTotalBytes(d) == d.payload + IF d.ip_family = "ipv4" THEN 28 ELSE 48
----------------------------------------------------------------------------
VARIABLES
  media_open, active_epoch, last_closed_epoch, terminally_closed,  \* guarded by gate_
  pc,          \* where a sender is in send_final
  dgram,       \* the datagram it was called with
  media_epoch, \* the epoch in that datagram's metadata
  closing,     \* [Closers -> the reason it waits to close with, or "none"]
  snapshot,    \* DatagramEgressCounter: [Fields -> Nat]
  overflowed,  \* its sticky overflow flag
  wire,        \* history: media datagrams handed to the network, by epoch
  wire_bytes,  \* history: IP bytes of every complete native send
  retired,     \* history: epochs a returned boundary has closed
  sends,       \* number of send_final calls so far
  boundaries   \* number of close_media calls so far

gateVars    == <<media_open, active_epoch, last_closed_epoch, terminally_closed>>
senderVars  == <<pc, dgram, media_epoch>>
historyVars == <<wire, wire_bytes, retired>>
counterVars == <<snapshot, overflowed>>
vars == <<gateVars, senderVars, closing, counterVars, historyVars, sends, boundaries>>

Locations == {"idle", "admitting", "sending", "sent", "failed", "short"}

(* The counting fields of DatagramEgressSnapshot.                          *)
SumFields   == {"datagrams", "udp_payload_bytes", "ip_total_bytes",
                "media_ip_total_bytes", "control_ip_total_bytes",
                "direct_ip_total_bytes", "turn_ip_total_bytes"}
Fields      == SumFields \cup {"rejected_datagrams", "failed_datagrams", "short_datagrams"}

TypeOK ==
  /\ media_open \in BOOLEAN
  /\ active_epoch \in 1..MaxEpoch
  /\ last_closed_epoch \in 0..MaxEpoch
  /\ terminally_closed \in BOOLEAN
  /\ pc \in [Senders -> Locations]
  /\ dgram \in [Senders -> Datagrams]
  /\ media_epoch \in [Senders -> 0..MaxEpoch]
  /\ closing \in [Closers -> Reasons \cup {"none"}]
  /\ snapshot \in [Fields -> 0..MaxCount]
  /\ overflowed \in BOOLEAN
  /\ wire \in [0..MaxEpoch -> Nat]
  /\ wire_bytes \in Nat
  /\ retired \subseteq 1..MaxEpoch
  /\ sends \in Nat
  /\ boundaries \in Nat

Init ==
  /\ media_open = TRUE
  /\ active_epoch \in 1..MaxEpoch          \* the constructor refuses epoch zero
  /\ last_closed_epoch = 0
  /\ terminally_closed = FALSE
  /\ pc = [s \in Senders |-> "idle"]
  /\ dgram = [s \in Senders |-> CHOOSE d \in Datagrams : TRUE]
  /\ media_epoch = [s \in Senders |-> 0]
  /\ closing = [c \in Closers |-> "none"]
  /\ snapshot = [f \in Fields |-> 0]
  /\ overflowed = FALSE
  /\ wire = [e \in 0..MaxEpoch |-> 0]
  /\ wire_bytes = 0
  /\ retired = {}
  /\ sends = 0
  /\ boundaries = 0
----------------------------------------------------------------------------
(* DatagramEgressCounter.  Every method runs under the counter's own mutex,*)
(* so it is one step; a counter that would pass its limit is left alone    *)
(* and the sticky overflow flag is set.                                    *)
Count(field) ==
  IF snapshot[field] = MaxCount
    THEN overflowed' = TRUE /\ UNCHANGED snapshot
    ELSE snapshot' = [snapshot EXCEPT ![field] = @ + 1] /\ UNCHANGED overflowed

RecordRejected == Count("rejected_datagrams")

RecordFailed(short_send) ==
  Count(IF short_send THEN "short_datagrams" ELSE "failed_datagrams")

(* What a completed datagram adds to each field.                           *)
Increment(d, f) ==
  CASE f = "datagrams"              -> 1
    [] f = "udp_payload_bytes"      -> d.payload
    [] f = "ip_total_bytes"         -> IpTotalBytes(d)
    [] f = "media_ip_total_bytes"   -> IF d.classification = "media" THEN IpTotalBytes(d) ELSE 0
    [] f = "control_ip_total_bytes" -> IF d.classification = "media" THEN 0 ELSE IpTotalBytes(d)
    [] f = "direct_ip_total_bytes"  -> IF d.path = "direct_udp" THEN IpTotalBytes(d) ELSE 0
    [] f = "turn_ip_total_bytes"    -> IF d.path = "direct_udp" THEN 0 ELSE IpTotalBytes(d)
    [] OTHER                        -> 0

(* Mutant: each sum is saved as it is computed, so that an overflow leaves *)
(* the sums that still fitted already changed.                             *)
RecordSuccessPartially(d) ==
  /\ snapshot' = [f \in Fields |-> IF snapshot[f] + Increment(d, f) <= MaxCount
                                     THEN snapshot[f] + Increment(d, f) ELSE snapshot[f]]
  /\ overflowed' = (overflowed \/ \E f \in Fields : snapshot[f] + Increment(d, f) > MaxCount)

RecordSuccess(d) ==
  IF \A f \in SumFields : snapshot[f] + Increment(d, f) <= MaxCount
    THEN /\ snapshot' = [f \in Fields |-> snapshot[f] + Increment(d, f)]
         /\ UNCHANGED overflowed
    ELSE overflowed' = TRUE /\ UNCHANGED snapshot
----------------------------------------------------------------------------
(* The threads that hold gate_ shared.                                     *)

(* Mutant: the permit is released as soon as the epoch has been checked.   *)
NoPermitHolders == {}

PermitHolders ==
  {s \in Senders : /\ pc[s] \in {"sending", "sent", "failed", "short"}
                   /\ dgram[s].classification = "media"}

(* send_final is called: metadata is validated before any lock is taken,   *)
(* and a control datagram goes straight to the native send.                *)
SendFinal(s, d, e) ==
  /\ pc[s] = "idle"
  /\ sends < MaxSends
  /\ sends' = sends + 1
  /\ \/ /\ ~ValidMetadata(d)
        /\ RecordRejected
        /\ UNCHANGED senderVars
     \/ /\ ValidMetadata(d)
        /\ dgram' = [dgram EXCEPT ![s] = d]
        /\ media_epoch' = [media_epoch EXCEPT ![s] = e]
        /\ pc' = [pc EXCEPT ![s] = IF d.classification = "control"
                                     THEN "sending" ELSE "admitting"]
        /\ UNCHANGED counterVars
  /\ UNCHANGED <<gateVars, closing, historyVars, boundaries>>

(* Mutant: only the open flag is tested, as if epochs did not matter.      *)
OpenAdmits(s) == media_open

Admits(s) == media_open /\ media_epoch[s] = active_epoch

(* The shared lock is taken and the epoch checked.  The exclusive sections *)
(* are single steps, so the lock is never found held exclusively.          *)
AdmitMedia(s) ==
  /\ pc[s] = "admitting"
  /\ \/ /\ Admits(s)
        /\ pc' = [pc EXCEPT ![s] = "sending"]
        /\ UNCHANGED counterVars
     \/ /\ ~Admits(s)
        /\ pc' = [pc EXCEPT ![s] = "idle"]
        /\ RecordRejected
  /\ UNCHANGED <<gateVars, dgram, media_epoch, closing, historyVars, sends, boundaries>>

(* send_after_validation up to the return of the native send: it hands the *)
(* datagram to the network and reports all, some or none of it sent.       *)
NativeSend(s) ==
  /\ pc[s] = "sending"
  /\ \E result \in {"sent", "failed", "short"} :
       /\ pc' = [pc EXCEPT ![s] = result]
       /\ wire_bytes' = IF result = "sent"
                          THEN wire_bytes + IpTotalBytes(dgram[s]) ELSE wire_bytes
  /\ wire' = IF dgram[s].classification = "media"
               THEN [wire EXCEPT ![media_epoch[s]] = @ + 1] ELSE wire
  /\ UNCHANGED <<gateVars, dgram, media_epoch, closing, counterVars, retired, sends, boundaries>>

(* The rest of send_after_validation, and the release of the permit.       *)
RecordSend(s) ==
  /\ \/ pc[s] = "sent"   /\ RecordSuccess(dgram[s])
     \/ pc[s] = "failed" /\ RecordFailed(FALSE)
     \/ pc[s] = "short"  /\ RecordFailed(TRUE)
  /\ pc' = [pc EXCEPT ![s] = "idle"]
  /\ UNCHANGED <<gateVars, dgram, media_epoch, closing, historyVars, sends, boundaries>>
----------------------------------------------------------------------------
(* close_media is called and waits for the exclusive lock.                 *)
RequestClose(c, reason) ==
  /\ closing[c] = "none"
  /\ boundaries < MaxBoundaries
  /\ boundaries' = boundaries + 1
  /\ closing' = [closing EXCEPT ![c] = reason]
  /\ UNCHANGED <<gateVars, senderVars, counterVars, historyVars, sends>>

NextEpoch == IF active_epoch # MaxEpoch THEN active_epoch + 1 ELSE active_epoch

CloseMedia(c) ==
  /\ closing[c] # "none"
  /\ PermitHolders = {}
  /\ closing' = [closing EXCEPT ![c] = "none"]
  /\ media_open' = FALSE
  /\ last_closed_epoch' = IF media_open THEN active_epoch ELSE last_closed_epoch
  /\ active_epoch' = IF media_open THEN NextEpoch ELSE active_epoch
  /\ terminally_closed' = (terminally_closed \/ closing[c] # "pause")
  /\ retired' = IF media_open THEN retired \cup {active_epoch} ELSE retired
  /\ UNCHANGED <<senderVars, counterVars, wire, wire_bytes, sends, boundaries>>

Resumable == ~terminally_closed /\ active_epoch # MaxEpoch

ResumeMedia ==
  /\ PermitHolders = {}
  /\ Resumable
  /\ media_open' = TRUE
  /\ UNCHANGED <<active_epoch, last_closed_epoch, terminally_closed, senderVars, closing,
                 counterVars, historyVars, sends, boundaries>>

Next ==
  \/ \E s \in Senders, d \in Datagrams, e \in 0..MaxEpoch : SendFinal(s, d, e)
  \/ \E s \in Senders : AdmitMedia(s) \/ NativeSend(s) \/ RecordSend(s)
  \/ \E c \in Closers, reason \in Reasons : RequestClose(c, reason)
  \/ \E c \in Closers : CloseMedia(c)
  \/ ResumeMedia

Spec == Init /\ [][Next]_vars
----------------------------------------------------------------------------
(* No media datagram of a retired epoch, and none at all once a terminal   *)
(* boundary has returned, is handed to the network: close_media waits for  *)
(* every admitted native send and send_final re-checks under the permit.   *)
NoSendAfterBoundary ==
  [][/\ \A e \in retired : wire'[e] = wire[e]
     /\ terminally_closed => wire' = wire]_vars

(* SRTP cannot slip past a closed gate by being labelled control: whenever *)
(* a native send of an SRTP packet or of a media-provenance datagram is    *)
(* about to happen, its epoch is the admitted one.                         *)
MediaOnlyInItsEpoch ==
  \A s \in Senders :
    /\ pc[s] = "sending"
    /\ \/ dgram[s].protocol = "srtp"
       \/ dgram[s].provenance = "libdatachannel_media"
    => media_open /\ media_epoch[s] = active_epoch

(* The media byte total is final when a boundary returns: it only moves    *)
(* while admission is open, because the permit outlives the count.         *)
MediaTotalFinalAtBoundary ==
  [][snapshot'.media_ip_total_bytes # snapshot.media_ip_total_bytes => media_open]_vars

(* A returned close_media is a boundary: nothing of the closed epoch is    *)
(* sent after it, and the byte total that it reports no longer moves.      *)
BoundaryIsFinal == NoSendAfterBoundary /\ MediaTotalFinalAtBoundary

(* The counter never loses or invents a byte: unless it reports overflow,  *)
(* what it has counted and what completed sends have yet to count is what  *)
(* went out, and its two breakdowns always add up to the same total.       *)
ExactAccounting ==
  /\ snapshot.ip_total_bytes =
       snapshot.media_ip_total_bytes + snapshot.control_ip_total_bytes
  /\ snapshot.ip_total_bytes =
       snapshot.direct_ip_total_bytes + snapshot.turn_ip_total_bytes
  /\ snapshot.ip_total_bytes <= wire_bytes
  /\ (\A s \in Senders : pc[s] # "sent") /\ ~overflowed
       => snapshot.ip_total_bytes = wire_bytes

(* The gate and its senders hold values of the code's types, no counter    *)
(* leaves its width, and the accounts are exact.                           *)
AccountsSound == TypeOK /\ ExactAccounting

(* The strengthening that makes NoSendAfterBoundary inductive: a permit    *)
(* holder pins the admitted epoch, and a retired epoch lies below the      *)
(* admitted one, or is the last epoch and admission stays closed.          *)
PermitPinsEpoch ==
  \A s \in PermitHolders : media_open /\ media_epoch[s] = active_epoch

ControlIsValidated ==
  \A s \in Senders : pc[s] # "idle" => ValidMetadata(dgram[s])

RetiredBelowActive ==
  \A e \in retired : e < active_epoch \/ (e = active_epoch /\ e = MaxEpoch /\ ~media_open)

BoundaryInv ==
  /\ PermitPinsEpoch
  /\ ControlIsValidated
  /\ RetiredBelowActive
  /\ terminally_closed => ~media_open
  /\ \A s \in Senders : pc[s] = "admitting" => dgram[s].classification = "media"

(* The gate implements the thread-free promise: the native send is the     *)
(* instant at which a datagram is emitted, in the epoch admitted then.     *)
Boundary == INSTANCE EgressBoundary
              WITH open <- media_open, epoch <- active_epoch, terminal <- terminally_closed
BoundarySpec == Boundary!Spec
====================================================================================
