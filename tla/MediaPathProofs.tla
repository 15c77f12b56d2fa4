--------------------------- MODULE MediaPathProofs ---------------------------
(***************************************************************************)
(* The two ends of the media path, for every value of the constants.       *)
(*                                                                         *)
(* The egress gate, for any number of threads, any datagrams and any limit *)
(* of the counters: it is type correct, no media leaves after its          *)
(* boundary, the media total is final at the boundary, the gate implements *)
(* EgressBoundary, and the counters account for every byte.                *)
(*                                                                         *)
(* The encoded fanout: what the peer takes from the transport queue is     *)
(* decodable.  The inductive invariant says how the queue, the unit        *)
(* published last and the unit taken last hang together; purges keep it    *)
(* because they also await recovery.  Beside it, the queue stays within    *)
(* its limits: the sum of its units' sizes is reasoned about through the   *)
(* function that adds them up.                                             *)
(***************************************************************************)
EXTENDS MediaEgressGate, EncodedFanout, WellFoundedInduction, TLAPS

-----------------------------------------------------------------------------
(* The egress gate. *)

(* The counters stay below their limit whatever is counted: Count is the   *)
(* body of record_rejected and record_failed.                              *)
LEMMA CountType ==
  ASSUME snapshot \in [Fields -> 0..MaxCount], overflowed \in BOOLEAN,
         NEW f \in Fields, Count(f)
  PROVE  snapshot' \in [Fields -> 0..MaxCount] /\ overflowed' \in BOOLEAN
<1>1. CASE snapshot[f] = MaxCount
  BY <1>1 DEF Count
<1>2. CASE snapshot[f] # MaxCount
  <2>1. snapshot[f] + 1 \in 0..MaxCount
    BY <1>2, CountAssumption
  <2>2. snapshot' = [snapshot EXCEPT ![f] = snapshot[f] + 1] /\ overflowed' = overflowed
    BY <1>2 DEF Count
  <2> QED
    BY <2>1, <2>2
<1> QED
  BY <1>1, <1>2

(* What a datagram adds to a counter is a natural number, and nothing is   *)
(* added to the counters of datagrams that were not sent.                  *)
LEMMA IncrementType ==
  ASSUME NEW d \in DatagramType, NEW f \in Fields
  PROVE  /\ Increment(d, f) \in Nat
         /\ f \notin SumFields => Increment(d, f) = 0
  BY DEF Increment, IpTotalBytes, DatagramType, Fields, SumFields

(* record_success either fits every sum or changes none of them.           *)
LEMMA RecordSuccessType ==
  ASSUME snapshot \in [Fields -> 0..MaxCount], overflowed \in BOOLEAN,
         NEW d \in DatagramType, RecordSuccess(d)
  PROVE  snapshot' \in [Fields -> 0..MaxCount] /\ overflowed' \in BOOLEAN
<1>1. \A f \in Fields : /\ Increment(d, f) \in Nat
                        /\ f \notin SumFields => Increment(d, f) = 0
  BY IncrementType
<1>2. CASE \A f \in SumFields : snapshot[f] + Increment(d, f) <= MaxCount
  <2>1. \A f \in Fields : snapshot[f] + Increment(d, f) \in 0..MaxCount
    BY <1>1, <1>2, CountAssumption
  <2> QED
    BY <1>2, <2>1 DEF RecordSuccess
<1>3. CASE ~\A f \in SumFields : snapshot[f] + Increment(d, f) <= MaxCount
  BY <1>3 DEF RecordSuccess
<1> QED
  BY <1>2, <1>3

(* Type correctness of the gate, its threads and its counters.             *)
THEOREM TypeCorrect == Spec => []TypeOK
<1>1. Init => TypeOK
  <2>1. (CHOOSE d \in Datagrams : TRUE) \in Datagrams
    BY DatagramsAssumption
  <2>2. Init => dgram \in [Senders -> Datagrams]
    BY <2>1 DEF Init
  <2>3. Init => snapshot \in [Fields -> 0..MaxCount]
    BY CountAssumption DEF Init
  <2>4. Init => pc \in [Senders -> Locations] /\ closing \in [Closers -> Reasons \cup {"none"}]
    BY DEF Init, Locations
  <2>5. Init => wire \in [0..MaxEpoch -> Nat] /\ media_epoch \in [Senders -> 0..MaxEpoch]
    BY EpochAssumption DEF Init
  <2>6. Init => last_closed_epoch \in 0..MaxEpoch
    BY EpochAssumption DEF Init
  <2>7. Init => wire_bytes \in Nat /\ sends \in Nat /\ boundaries \in Nat
    BY DEF Init
  <2>8. Init => /\ media_open \in BOOLEAN /\ terminally_closed \in BOOLEAN
                /\ overflowed \in BOOLEAN /\ active_epoch \in 1..MaxEpoch
                /\ retired \subseteq 1..MaxEpoch
    BY DEF Init
  <2> QED
    BY <2>2, <2>3, <2>4, <2>5, <2>6, <2>7, <2>8 DEF TypeOK
<1>2. ASSUME TypeOK, [Next]_vars
      PROVE  TypeOK'
  <2> USE <1>2 DEF TypeOK
  <2>0. \A s \in Senders : dgram[s] \in DatagramType
    BY DatagramsAssumption
  <2>1. ASSUME NEW s \in Senders, NEW d \in Datagrams, NEW e \in 0..MaxEpoch,
               SendFinal(s, d, e)
        PROVE  TypeOK'
    <3>1. snapshot' \in [Fields -> 0..MaxCount] /\ overflowed' \in BOOLEAN
      BY <2>1, CountType DEF SendFinal, RecordRejected, counterVars, Fields
    <3>2. CASE ~ValidMetadata(d)
      BY <2>1, <3>1, <3>2, BoundsAssumption DEF SendFinal, gateVars, senderVars, historyVars
    <3>3. CASE ValidMetadata(d)
      <4>1. pc' \in [Senders -> Locations]
        BY <2>1, <3>3 DEF SendFinal, Locations
      <4>2. dgram' \in [Senders -> Datagrams] /\ media_epoch' \in [Senders -> 0..MaxEpoch]
        BY <2>1, <3>3 DEF SendFinal
      <4> QED
        BY <2>1, <3>1, <4>1, <4>2, BoundsAssumption DEF SendFinal, gateVars, historyVars
    <3> QED
      BY <3>2, <3>3
  <2>2. ASSUME NEW s \in Senders, AdmitMedia(s)
        PROVE  TypeOK'
    <3>1. snapshot' \in [Fields -> 0..MaxCount] /\ overflowed' \in BOOLEAN
      BY <2>2, CountType DEF AdmitMedia, RecordRejected, counterVars, Fields
    <3> QED
      BY <2>2, <3>1 DEF AdmitMedia, gateVars, historyVars, Locations
  <2>3. ASSUME NEW s \in Senders, NativeSend(s)
        PROVE  TypeOK'
    <3>1. IpTotalBytes(dgram[s]) \in Nat
      BY <2>0 DEF IpTotalBytes, DatagramType
    <3>2. pc' \in [Senders -> Locations]
      BY <2>3 DEF NativeSend, Locations
    <3>3. wire_bytes' \in Nat
      BY <2>3, <3>1 DEF NativeSend
    <3>4. wire' \in [0..MaxEpoch -> Nat]
      BY <2>3 DEF NativeSend
    <3> QED
      BY <2>3, <3>2, <3>3, <3>4 DEF NativeSend, gateVars, counterVars
  <2>4. ASSUME NEW s \in Senders, RecordSend(s)
        PROVE  TypeOK'
    <3>1. snapshot' \in [Fields -> 0..MaxCount] /\ overflowed' \in BOOLEAN
      BY <2>0, <2>4, CountType, RecordSuccessType DEF RecordSend, RecordFailed, Fields
    <3> QED
      BY <2>4, <3>1 DEF RecordSend, gateVars, historyVars, Locations
  <2>5. ASSUME NEW c \in Closers, NEW reason \in Reasons, RequestClose(c, reason)
        PROVE  TypeOK'
    BY <2>5 DEF RequestClose, gateVars, senderVars, counterVars, historyVars
  <2>6. ASSUME NEW c \in Closers, CloseMedia(c)
        PROVE  TypeOK'
    <3>1. terminally_closed' \in BOOLEAN
      BY <2>6, Zenon DEF CloseMedia
    <3>2. active_epoch' \in 1..MaxEpoch /\ last_closed_epoch' \in 0..MaxEpoch
      BY <2>6, EpochAssumption DEF CloseMedia, NextEpoch
    <3>3. retired' \subseteq 1..MaxEpoch /\ closing' \in [Closers -> Reasons \cup {"none"}]
      BY <2>6 DEF CloseMedia
    <3> QED
      BY <2>6, <3>1, <3>2, <3>3 DEF CloseMedia, senderVars, counterVars
  <2>7. CASE ResumeMedia
    BY <2>7 DEF ResumeMedia, senderVars, counterVars, historyVars
  <2>8. CASE UNCHANGED vars
    BY <2>8 DEF vars, gateVars, senderVars, counterVars, historyVars
  <2> QED
    BY <2>1, <2>2, <2>3, <2>4, <2>5, <2>6, <2>7, <2>8 DEF Next
<1> QED
  BY <1>1, <1>2, PTL DEF Spec

----------------------------------------------------------------------------
(* The boundary invariant is inductive: nothing disturbs a permit holder's *)
(* epoch, because close_media and resume_media need the lock exclusively.  *)
LEMMA BoundaryInvInductive ==
  ASSUME TypeOK, BoundaryInv, [Next]_vars
  PROVE  BoundaryInv'
<1> USE DEF TypeOK, BoundaryInv, PermitPinsEpoch, ControlIsValidated, RetiredBelowActive
<1>1. ASSUME NEW s \in Senders, NEW d \in Datagrams, NEW e \in 0..MaxEpoch,
             SendFinal(s, d, e)
      PROVE  BoundaryInv'
  <2>0. d \in DatagramType
    BY DatagramsAssumption
  <2>1. CASE ~ValidMetadata(d)
    BY <1>1, <2>1 DEF SendFinal, PermitHolders, gateVars, senderVars, historyVars
  <2>2. CASE ValidMetadata(d)
    <3>1. PermitHolders' \subseteq PermitHolders
      BY <1>1, <2>0, <2>2 DEF SendFinal, PermitHolders, DatagramType, Classes
    <3>2. \A t \in PermitHolders' : media_epoch'[t] = media_epoch[t]
      BY <1>1, <2>0, <2>2 DEF SendFinal, PermitHolders, DatagramType, Classes
    <3>3. PermitPinsEpoch'
      BY <1>1, <3>1, <3>2 DEF SendFinal, gateVars
    <3>4. ControlIsValidated'
      BY <1>1, <2>2 DEF SendFinal
    <3>5. \A t \in Senders : pc'[t] = "admitting" => dgram'[t].classification = "media"
      BY <1>1, <2>0, <2>2 DEF SendFinal, DatagramType, Classes
    <3> QED
      BY <1>1, <3>3, <3>4, <3>5 DEF SendFinal, gateVars, historyVars
  <2> QED
    BY <2>1, <2>2
<1>2. ASSUME NEW s \in Senders, AdmitMedia(s)
      PROVE  BoundaryInv'
  <2>1. PermitPinsEpoch'
    BY <1>2 DEF AdmitMedia, Admits, PermitHolders, gateVars
  <2> QED
    BY <1>2, <2>1 DEF AdmitMedia, gateVars, historyVars
<1>3. ASSUME NEW s \in Senders, NativeSend(s)
      PROVE  BoundaryInv'
  <2>1. PermitHolders' = PermitHolders
    BY <1>3 DEF NativeSend, PermitHolders
  <2>2. \A t \in Senders : pc'[t] # "idle" => pc[t] # "idle"
    BY <1>3 DEF NativeSend
  <2>3. \A t \in Senders : pc'[t] = "admitting" => pc[t] = "admitting"
    BY <1>3 DEF NativeSend
  <2> QED
    BY <1>3, <2>1, <2>2, <2>3 DEF NativeSend, gateVars
<1>4. ASSUME NEW s \in Senders, RecordSend(s)
      PROVE  BoundaryInv'
  <2>1. PermitHolders' \subseteq PermitHolders
    BY <1>4 DEF RecordSend, PermitHolders
  <2>2. \A t \in Senders : pc'[t] # "idle" => pc[t] # "idle"
    BY <1>4 DEF RecordSend
  <2>3. \A t \in Senders : pc'[t] = "admitting" => pc[t] = "admitting"
    BY <1>4 DEF RecordSend
  <2> QED
    BY <1>4, <2>1, <2>2, <2>3 DEF RecordSend, gateVars, historyVars
<1>5. ASSUME NEW c \in Closers, NEW reason \in Reasons, RequestClose(c, reason)
      PROVE  BoundaryInv'
  BY <1>5 DEF RequestClose, PermitHolders, gateVars, senderVars, historyVars
<1>6. ASSUME NEW c \in Closers, CloseMedia(c)
      PROVE  BoundaryInv'
  <2>1. PermitHolders' = {}
    BY <1>6 DEF CloseMedia, PermitHolders, senderVars
  <2>2. RetiredBelowActive'
    BY <1>6, EpochAssumption DEF CloseMedia, NextEpoch
  <2>3. ~media_open'
    BY <1>6 DEF CloseMedia
  <2> QED
    BY <1>6, <2>1, <2>2, <2>3 DEF CloseMedia, senderVars
<1>7. CASE ResumeMedia
  <2>1. PermitHolders' = {}
    BY <1>7 DEF ResumeMedia, PermitHolders, senderVars
  <2>2. RetiredBelowActive'
    BY <1>7, EpochAssumption DEF ResumeMedia, Resumable, historyVars
  <2>3. ~terminally_closed'
    BY <1>7 DEF ResumeMedia, Resumable
  <2> QED
    BY <1>7, <2>1, <2>2, <2>3 DEF ResumeMedia, senderVars
<1>8. CASE UNCHANGED vars
  BY <1>8 DEF vars, PermitHolders, gateVars, senderVars, historyVars
<1> QED
  BY <1>1, <1>2, <1>3, <1>4, <1>5, <1>6, <1>7, <1>8 DEF Next

(* BoundaryInv holds in every reachable state. *)
LEMMA BoundaryInvariant == Spec => []BoundaryInv
<1>1. Init => BoundaryInv
  BY DEF Init, BoundaryInv, PermitPinsEpoch, PermitHolders, ControlIsValidated,
         RetiredBelowActive
<1> QED
  BY <1>1, TypeCorrect, BoundaryInvInductive, PTL DEF Spec

(* No native send of a retired epoch, or of any epoch after a terminal     *)
(* boundary, starts once close_media has returned.                         *)
THEOREM NoMediaAfterBoundary == Spec => NoSendAfterBoundary
<1>1. ASSUME TypeOK, BoundaryInv, [Next]_vars
      PROVE  [/\ \A e \in retired : wire'[e] = wire[e]
              /\ terminally_closed => wire' = wire]_vars
  <2> SUFFICES ASSUME wire' # wire
               PROVE  /\ \A e \in retired : wire'[e] = wire[e]
                      /\ ~terminally_closed
    OBVIOUS
  <2>1. PICK s \in Senders : NativeSend(s)
    BY <1>1 DEF Next, SendFinal, AdmitMedia, RecordSend, RequestClose, CloseMedia,
                ResumeMedia, vars, historyVars
  <2>2. dgram[s].classification = "media"
    BY <2>1 DEF NativeSend
  <2>3. media_open /\ media_epoch[s] = active_epoch
    BY <1>1, <2>1, <2>2 DEF NativeSend, BoundaryInv, PermitPinsEpoch, PermitHolders
  <2>4. active_epoch \notin retired
    BY <1>1, <2>3 DEF BoundaryInv, RetiredBelowActive, TypeOK
  <2>5. wire' = [wire EXCEPT ![active_epoch] = @ + 1]
    BY <2>1, <2>2, <2>3 DEF NativeSend
  <2>6. \A e \in retired : wire'[e] = wire[e]
    BY <1>1, <2>4, <2>5 DEF TypeOK
  <2> QED
    BY <1>1, <2>3, <2>6 DEF BoundaryInv
<1> QED
  BY <1>1, TypeCorrect, BoundaryInvariant, PTL DEF Spec, NoSendAfterBoundary

(* SRTP and media-provenance datagrams are only ever handed to the network *)
(* in the admitted epoch: validate_metadata forces them through the gate.  *)
THEOREM MediaNeedsPermit == Spec => []MediaOnlyInItsEpoch
<1>1. TypeOK /\ BoundaryInv => MediaOnlyInItsEpoch
  <2> SUFFICES ASSUME TypeOK, BoundaryInv, NEW s \in Senders, pc[s] = "sending",
                      \/ dgram[s].protocol = "srtp"
                      \/ dgram[s].provenance = "libdatachannel_media"
               PROVE  media_open /\ media_epoch[s] = active_epoch
    BY DEF MediaOnlyInItsEpoch
  <2>1. ValidMetadata(dgram[s])
    BY DEF BoundaryInv, ControlIsValidated
  <2>2. dgram[s].classification = "media"
    BY <2>1 DEF ValidMetadata
  <2> QED
    BY <2>2 DEF BoundaryInv, PermitPinsEpoch, PermitHolders
<1> QED
  BY <1>1, TypeCorrect, BoundaryInvariant, PTL

(* The media byte total moves only while admission is open, so that the    *)
(* total read after a boundary is final.                                   *)
THEOREM MediaTotalIsFinal == Spec => MediaTotalFinalAtBoundary
<1>1. ASSUME TypeOK, BoundaryInv, [Next]_vars
      PROVE  [snapshot'.media_ip_total_bytes # snapshot.media_ip_total_bytes
                => media_open]_vars
  <2> SUFFICES ASSUME snapshot'.media_ip_total_bytes # snapshot.media_ip_total_bytes
               PROVE  media_open
    OBVIOUS
  <2>1. "media_ip_total_bytes" \in Fields
    BY DEF Fields, SumFields
  <2>2. ASSUME NEW f \in Fields, f # "media_ip_total_bytes", Count(f)
        PROVE  FALSE
    BY <1>1, <2>1, <2>2 DEF Count, TypeOK
  <2>3. PICK s \in Senders : RecordSend(s)
    BY <1>1, <2>2 DEF Next, SendFinal, AdmitMedia, NativeSend, RequestClose, CloseMedia,
                ResumeMedia, vars, counterVars, RecordRejected, Fields
  <2>4. pc[s] = "sent" /\ RecordSuccess(dgram[s])
    BY <2>2, <2>3 DEF RecordSend, RecordFailed, Fields
  <2>5. dgram[s].classification = "media"
    <3>1. dgram[s] \in DatagramType
      BY <1>1, DatagramsAssumption DEF TypeOK
    <3>2. Increment(dgram[s], "media_ip_total_bytes") # 0
      BY <1>1, <2>1, <2>4 DEF RecordSuccess, TypeOK
    <3> QED
      BY <3>2 DEF Increment
  <2> QED
    BY <1>1, <2>4, <2>5 DEF BoundaryInv, PermitPinsEpoch, PermitHolders
<1> QED
  BY <1>1, TypeCorrect, BoundaryInvariant, PTL DEF Spec, MediaTotalFinalAtBoundary

(* The boundary that close_media draws is final: no media of the closed    *)
(* epoch is sent after it and the media byte total stands still.           *)
THEOREM BoundaryStaysFinal == Spec => BoundaryIsFinal
  BY NoMediaAfterBoundary, MediaTotalIsFinal DEF BoundaryIsFinal

(* The threaded gate implements the thread-free promise.                   *)
THEOREM ImplementsBoundary == Spec => BoundarySpec
<1>1. Init => Boundary!Init
  BY DEF Init, Boundary!Init
<1>2. ASSUME TypeOK, BoundaryInv, [Next]_vars
      PROVE  [Boundary!Next]_(Boundary!vars)
  <2> USE DEF Boundary!vars
  <2>1. ASSUME NEW s \in Senders, NEW d \in Datagrams, NEW e \in 0..MaxEpoch,
               SendFinal(s, d, e)
        PROVE  UNCHANGED Boundary!vars
    BY <2>1 DEF SendFinal, gateVars, historyVars
  <2>2. ASSUME NEW s \in Senders, AdmitMedia(s) \/ RecordSend(s)
        PROVE  UNCHANGED Boundary!vars
    BY <2>2 DEF AdmitMedia, RecordSend, gateVars, historyVars
  <2>3. ASSUME NEW s \in Senders, NativeSend(s)
        PROVE  [Boundary!Next]_(Boundary!vars)
    <3>1. CASE dgram[s].classification = "media"
      <4>1. media_open /\ media_epoch[s] = active_epoch
        BY <1>2, <2>3, <3>1 DEF NativeSend, BoundaryInv, PermitPinsEpoch, PermitHolders
      <4>2. Boundary!Emit
        BY <2>3, <3>1, <4>1 DEF NativeSend, gateVars, Boundary!Emit
      <4> QED
        BY <4>2 DEF Boundary!Next
    <3>2. CASE dgram[s].classification # "media"
      BY <2>3, <3>2 DEF NativeSend, gateVars
    <3> QED
      BY <3>1, <3>2
  <2>4. ASSUME NEW c \in Closers, NEW reason \in Reasons, RequestClose(c, reason)
        PROVE  UNCHANGED Boundary!vars
    BY <2>4 DEF RequestClose, gateVars, historyVars
  <2>5. ASSUME NEW c \in Closers, CloseMedia(c)
        PROVE  Boundary!Next
    <3>1. Boundary!Close(closing[c] # "pause")
      BY <1>2, <2>5 DEF CloseMedia, NextEpoch, Boundary!Close
    <3>2. (closing[c] # "pause") \in BOOLEAN
      OBVIOUS
    <3> QED
      BY <3>1, <3>2 DEF Boundary!Next
  <2>6. CASE ResumeMedia
    BY <2>6 DEF ResumeMedia, Resumable, historyVars, Boundary!Next, Boundary!Resume
  <2>7. CASE UNCHANGED vars
    BY <2>7 DEF vars, gateVars, historyVars
  <2> QED
    BY <1>2, <2>1, <2>2, <2>3, <2>4, <2>5, <2>6, <2>7 DEF Next
<1> QED
  BY <1>1, <1>2, TypeCorrect, BoundaryInvariant, PTL DEF Spec, BoundarySpec, Boundary!Spec
----------------------------------------------------------------------------
(* The accounts.  Adds(S, cost, total): the senders of S can be listed     *)
(* once each so that their costs add up to the total; `owed` is what they  *)
(* cost so far.                                                            *)
Lists(S, cost, n, order, owed) ==
  /\ n \in Nat /\ order \in [1..n -> S] /\ owed \in [0..n -> Nat]
  /\ owed[0] = 0
  /\ \A i \in 1..n : owed[i] = owed[i - 1] + cost[order[i]]
  /\ \A i, j \in 0..n : i <= j => owed[i] <= owed[j]
  /\ \A i, j \in 1..n : order[i] = order[j] => i = j
  /\ \A s \in S : \E i \in 1..n : order[i] = s

Adds(S, cost, total) ==
  \E n \in Nat : \E order \in [1..n -> S], owed \in [0..n -> Nat] :
     Lists(S, cost, n, order, owed) /\ owed[n] = total

(* Nobody owes nothing, and nothing else. *)
LEMMA NobodyOwes ==
  ASSUME NEW cost
  PROVE  /\ Adds({}, cost, 0)
         /\ \A total : Adds({}, cost, total) => total = 0
<1>1. Lists({}, cost, 0, [i \in 1..0 |-> 0], [i \in 0..0 |-> 0])
  BY DEF Lists
<1>2. Adds({}, cost, 0)
  <2>1. [i \in 1..0 |-> 0] \in [1..0 -> {}] /\ [i \in 0..0 |-> 0] \in [0..0 -> Nat]
    OBVIOUS
  <2>2. [i \in 0..0 |-> 0][0] = 0 /\ 0 \in Nat
    OBVIOUS
  <2> QED
    BY <1>1, <2>1, <2>2 DEF Adds
<1>3. ASSUME NEW total, Adds({}, cost, total)
      PROVE  total = 0
  <2>1. PICK n, order, owed :
             /\ n \in Nat /\ order \in [1..n -> {}] /\ owed \in [0..n -> Nat]
             /\ Lists({}, cost, n, order, owed) /\ owed[n] = total
    BY <1>3 DEF Adds
  <2>2. n = 0
    <3>1. SUFFICES ASSUME n # 0 PROVE FALSE
      OBVIOUS
    <3>2. n \in Nat /\ order \in [1..n -> {}]
      BY <2>1
    <3>3. 1 \in 1..n
      BY <3>1, <3>2
    <3> QED
      BY <3>2, <3>3
  <2> QED
    BY <2>1, <2>2 DEF Lists
<1> QED
  BY <1>2, <1>3

(* Only the costs of those who owe count. *)
LEMMA OthersDoNotCount ==
  ASSUME NEW S, NEW cost, NEW after, NEW total, Adds(S, cost, total),
         \A s \in S : after[s] = cost[s]
  PROVE  Adds(S, after, total)
<1>1. PICK n, order, owed :
           /\ n \in Nat /\ order \in [1..n -> S] /\ owed \in [0..n -> Nat]
           /\ Lists(S, cost, n, order, owed) /\ owed[n] = total
  BY DEF Adds
<1>2. Lists(S, after, n, order, owed)
  BY <1>1 DEF Lists
<1> QED
  BY <1>1, <1>2 DEF Adds

(* A sender whose datagram is complete owes its bytes too. *)
LEMMA OneMoreOwes ==
  ASSUME NEW S, NEW cost, NEW total, Adds(S, cost, total),
         NEW s, s \notin S, cost[s] \in Nat
  PROVE  Adds(S \cup {s}, cost, total + cost[s])
<1>1. PICK n, order, owed :
           /\ n \in Nat /\ order \in [1..n -> S] /\ owed \in [0..n -> Nat]
           /\ Lists(S, cost, n, order, owed) /\ owed[n] = total
  BY DEF Adds
<1>0. /\ n \in Nat /\ order \in [1..n -> S] /\ owed \in [0..n -> Nat]
      /\ \A i \in 1..n : order[i] \in S
      /\ \A i \in 0..n : owed[i] \in Nat
  BY <1>1
<1> USE <1>0
<1> DEFINE order2 == [i \in 1..(n + 1) |-> IF i = n + 1 THEN s ELSE order[i]]
           owed2 == [i \in 0..(n + 1) |-> IF i = n + 1 THEN total + cost[s] ELSE owed[i]]
<1>2. order2 \in [1..(n + 1) -> S \cup {s}] /\ owed2 \in [0..(n + 1) -> Nat] /\ n + 1 \in Nat
  <2>1. \A i \in 1..(n + 1) : i # n + 1 => i \in 1..n
    OBVIOUS
  <2>2. \A i \in 0..(n + 1) : i # n + 1 => i \in 0..n
    OBVIOUS
  <2>3. total + cost[s] \in Nat
    BY <1>1
  <2>4. \A i \in 1..(n + 1) : (IF i = n + 1 THEN s ELSE order[i]) \in S \cup {s}
    BY <2>1
  <2>5. \A i \in 0..(n + 1) : (IF i = n + 1 THEN total + cost[s] ELSE owed[i]) \in Nat
    BY <2>2, <2>3
  <2> QED
    BY <2>4, <2>5
<1>3. /\ order2[n + 1] = s /\ owed2[n + 1] = total + cost[s]
      /\ \A i \in 1..n : order2[i] = order[i]
      /\ \A i \in 0..n : owed2[i] = owed[i]
  OBVIOUS
<1> HIDE DEF order2, owed2
<1>4. owed2[0] = 0
  BY <1>1, <1>3 DEF Lists
<1>5. \A i \in 1..(n + 1) : owed2[i] = owed2[i - 1] + cost[order2[i]]
  <2> SUFFICES ASSUME NEW i \in 1..(n + 1)
               PROVE  owed2[i] = owed2[i - 1] + cost[order2[i]]
    OBVIOUS
  <2>1. CASE i = n + 1
    BY <1>1, <1>3, <2>1
  <2>2. CASE i # n + 1
    <3>1. i \in 1..n /\ i \in 0..n /\ i - 1 \in 0..n
      BY <2>2
    <3> QED
      BY <1>1, <1>3, <3>1 DEF Lists
  <2> QED
    BY <2>1, <2>2
<1>6. \A i, j \in 0..(n + 1) : i <= j => owed2[i] <= owed2[j]
  <2> SUFFICES ASSUME NEW i \in 0..(n + 1), NEW j \in 0..(n + 1), i <= j
               PROVE  owed2[i] <= owed2[j]
    OBVIOUS
  <2>1. CASE j # n + 1
    <3>1. i \in 0..n /\ j \in 0..n
      BY <2>1
    <3> QED
      BY <1>1, <1>3, <3>1 DEF Lists
  <2>2. CASE j = n + 1 /\ i = n + 1
    BY <1>1, <1>3, <2>2
  <2>3. CASE j = n + 1 /\ i # n + 1
    <3>1. i \in 0..n /\ n \in 0..n /\ i <= n
      BY <2>3
    <3>2. owed[i] <= owed[n] /\ owed[i] \in Nat
      BY <1>1, <3>1 DEF Lists
    <3> QED
      BY <1>1, <1>3, <2>3, <3>1, <3>2
  <2> QED
    BY <2>1, <2>2, <2>3
<1>7. \A i, j \in 1..(n + 1) : order2[i] = order2[j] => i = j
  <2> SUFFICES ASSUME NEW i \in 1..(n + 1), NEW j \in 1..(n + 1), order2[i] = order2[j]
               PROVE  i = j
    OBVIOUS
  <2>1. \A k \in 1..(n + 1) : k # n + 1 => k \in 1..n /\ order2[k] \in S
    BY <1>3
  <2>2. CASE i # n + 1 /\ j # n + 1
    <3>1. i \in 1..n /\ j \in 1..n /\ order[i] = order[j]
      BY <1>3, <2>1, <2>2
    <3> QED
      BY <1>1, <3>1 DEF Lists
  <2>3. CASE i = n + 1 \/ j = n + 1
    BY <1>3, <2>1, <2>3
  <2> QED
    BY <2>2, <2>3
<1>8. \A t \in S \cup {s} : \E i \in 1..(n + 1) : order2[i] = t
  <2> SUFFICES ASSUME NEW t \in S \cup {s}
               PROVE  \E i \in 1..(n + 1) : order2[i] = t
    OBVIOUS
  <2>1. CASE t = s
    BY <1>3, <2>1
  <2>2. CASE t \in S
    <3>1. PICK i \in 1..n : order[i] = t
      BY <1>1, <2>2 DEF Lists
    <3>2. i \in 1..(n + 1)
      OBVIOUS
    <3> QED
      BY <1>3, <3>1, <3>2
  <2> QED
    BY <2>1, <2>2
<1>9. Lists(S \cup {s}, cost, n + 1, order2, owed2)
  BY <1>2, <1>4, <1>5, <1>6, <1>7, <1>8 DEF Lists
<1> QED
  BY <1>2, <1>3, <1>9 DEF Adds

(* A sender whose bytes are counted no longer owes them; the others still  *)
(* do, and it was one of those that made up the total.                     *)
LEMMA OneLessOwes ==
  ASSUME NEW S, NEW cost, NEW total \in Nat, Adds(S, cost, total),
         NEW s \in S, \A t \in S : cost[t] \in Nat
  PROVE  total - cost[s] \in Nat /\ Adds(S \ {s}, cost, total - cost[s])
<1>1. PICK n, order, owed :
           /\ n \in Nat /\ order \in [1..n -> S] /\ owed \in [0..n -> Nat]
           /\ Lists(S, cost, n, order, owed) /\ owed[n] = total
  BY DEF Adds
<1>0. /\ n \in Nat /\ order \in [1..n -> S] /\ owed \in [0..n -> Nat]
      /\ \A i \in 1..n : order[i] \in S
      /\ \A i \in 0..n : owed[i] \in Nat
  BY <1>1
<1> USE <1>0
<1>2. PICK k \in 1..n : order[k] = s
  BY <1>1 DEF Lists
<1>3. k - 1 \in 0..n /\ k \in 0..n /\ n \in 0..n /\ n - 1 \in Nat /\ k <= n
  OBVIOUS
<1>4. owed[k] = owed[k - 1] + cost[s] /\ owed[k - 1] \in Nat /\ owed[k] <= owed[n]
  BY <1>1, <1>2, <1>3 DEF Lists
<1>5. \A j \in 0..n : k <= j => owed[j] - cost[s] \in Nat /\ owed[j] - cost[s] >= owed[k - 1]
  <2> SUFFICES ASSUME NEW j \in 0..n, k <= j
               PROVE  owed[j] - cost[s] \in Nat /\ owed[j] - cost[s] >= owed[k - 1]
    OBVIOUS
  <2>1. owed[k] <= owed[j] /\ owed[j] \in Nat
    BY <1>1, <1>3 DEF Lists
  <2> QED
    BY <1>4, <2>1
<1>6. total - cost[s] \in Nat
  BY <1>1, <1>3, <1>5
<1> DEFINE order2 == [i \in 1..(n - 1) |-> IF i < k THEN order[i] ELSE order[i + 1]]
           owed2 == [i \in 0..(n - 1) |-> IF i < k THEN owed[i] ELSE owed[i + 1] - cost[s]]
<1>7. /\ \A i \in 1..(n - 1) : i < k => i \in 1..n /\ order2[i] = order[i]
      /\ \A i \in 1..(n - 1) : i >= k => i + 1 \in 1..n /\ order2[i] = order[i + 1]
  OBVIOUS
<1>8. /\ \A i \in 0..(n - 1) : i < k => i \in 0..n /\ owed2[i] = owed[i]
      /\ \A i \in 0..(n - 1) : i >= k => i + 1 \in 0..n /\ owed2[i] = owed[i + 1] - cost[s]
  OBVIOUS
<1>9. order2 \in [1..(n - 1) -> S \ {s}]
  <2>1. \A i \in 1..(n - 1) : order2[i] \in S \ {s}
    <3> SUFFICES ASSUME NEW i \in 1..(n - 1)
                 PROVE  order2[i] \in S \ {s}
      OBVIOUS
    <3>1. CASE i < k
      <4>1. i \in 1..n /\ order2[i] = order[i] /\ i # k
        BY <1>7, <3>1
      <4>2. order[i] # order[k]
        BY <1>1, <4>1 DEF Lists
      <4> QED
        BY <1>2, <4>1, <4>2
    <3>2. CASE i >= k
      <4>1. i + 1 \in 1..n /\ order2[i] = order[i + 1] /\ i + 1 # k
        BY <1>7, <3>2
      <4> QED
        BY <1>1, <1>2, <4>1 DEF Lists
    <3> QED
      BY <3>1, <3>2
  <2> QED
    BY <2>1
<1>10. owed2 \in [0..(n - 1) -> Nat]
  <2>1. \A i \in 0..(n - 1) : owed2[i] \in Nat
    <3> SUFFICES ASSUME NEW i \in 0..(n - 1)
                 PROVE  owed2[i] \in Nat
      OBVIOUS
    <3>1. CASE i < k
      BY <1>8, <3>1
    <3>2. CASE i >= k
      <4>1. i + 1 \in 0..n /\ k <= i + 1 /\ owed2[i] = owed[i + 1] - cost[s]
        BY <1>8, <3>2
      <4> QED
        BY <1>5, <4>1
    <3> QED
      BY <3>1, <3>2
  <2> QED
    BY <2>1
<1> HIDE DEF order2, owed2
<1>11. owed2[0] = 0
  <2>1. 0 \in 0..(n - 1) /\ 0 < k
    OBVIOUS
  <2> QED
    BY <1>1, <1>8, <2>1 DEF Lists
<1>12. \A i \in 1..(n - 1) : owed2[i] = owed2[i - 1] + cost[order2[i]]
  <2> SUFFICES ASSUME NEW i \in 1..(n - 1)
               PROVE  owed2[i] = owed2[i - 1] + cost[order2[i]]
    OBVIOUS
  <2>0. i \in 0..(n - 1) /\ i - 1 \in 0..(n - 1)
    OBVIOUS
  <2>1. CASE i < k
    <3>1. owed2[i] = owed[i] /\ owed2[i - 1] = owed[i - 1] /\ order2[i] = order[i] /\ i \in 1..n
      BY <1>7, <1>8, <2>0, <2>1
    <3> QED
      BY <1>1, <3>1 DEF Lists
  <2>2. CASE i >= k
    <3>1. owed2[i] = owed[i + 1] - cost[s] /\ order2[i] = order[i + 1] /\ i + 1 \in 1..n
      BY <1>7, <1>8, <2>0, <2>2
    <3>2. owed[i + 1] = owed[i] + cost[order[i + 1]] /\ i \in 0..n
      BY <1>1, <3>1 DEF Lists
    <3>3. order[i + 1] \in S
      BY <1>1, <3>1
    <3>4. owed2[i - 1] = owed[i] - cost[s]
      <4>1. CASE i = k
        BY <1>4, <1>8, <2>0, <4>1
      <4>2. CASE i > k
        BY <1>8, <2>0, <4>2
      <4> QED
        BY <2>2, <4>1, <4>2
    <3>5. owed[i] \in Nat /\ cost[s] \in Nat /\ cost[order[i + 1]] \in Nat
      BY <3>2, <3>3
    <3> QED
      BY <3>1, <3>2, <3>4, <3>5
  <2> QED
    BY <2>1, <2>2
<1>13. \A i, j \in 0..(n - 1) : i <= j => owed2[i] <= owed2[j]
  <2> SUFFICES ASSUME NEW i \in 0..(n - 1), NEW j \in 0..(n - 1), i <= j
               PROVE  owed2[i] <= owed2[j]
    OBVIOUS
  <2>1. CASE j < k
    <3>1. owed2[i] = owed[i] /\ owed2[j] = owed[j] /\ i \in 0..n /\ j \in 0..n
      BY <1>8, <2>1
    <3> QED
      BY <1>1, <3>1 DEF Lists
  <2>2. CASE i >= k
    <3>1. /\ owed2[i] = owed[i + 1] - cost[s] /\ owed2[j] = owed[j + 1] - cost[s]
          /\ i + 1 \in 0..n /\ j + 1 \in 0..n /\ i + 1 <= j + 1
      BY <1>8, <2>2
    <3>2. owed[i + 1] <= owed[j + 1] /\ owed[i + 1] \in Nat /\ owed[j + 1] \in Nat
      BY <1>1, <3>1 DEF Lists
    <3>3. cost[s] \in Nat
      OBVIOUS
    <3> QED
      BY <3>1, <3>2, <3>3
  <2>3. CASE i < k /\ j >= k
    <3>1. owed2[i] = owed[i] /\ i \in 0..n /\ i <= k - 1
      BY <1>8, <2>3
    <3>2. owed[i] <= owed[k - 1] /\ owed[i] \in Nat
      BY <1>1, <1>3, <3>1 DEF Lists
    <3>3. owed2[j] = owed[j + 1] - cost[s] /\ j + 1 \in 0..n /\ k <= j + 1
      BY <1>8, <2>3
    <3>4. owed2[j] >= owed[k - 1] /\ owed2[j] \in Nat
      BY <1>5, <3>3
    <3> QED
      BY <1>4, <3>1, <3>2, <3>4
  <2> QED
    BY <2>1, <2>2, <2>3
<1>14. \A i, j \in 1..(n - 1) : order2[i] = order2[j] => i = j
  <2> SUFFICES ASSUME NEW i \in 1..(n - 1), NEW j \in 1..(n - 1), order2[i] = order2[j]
               PROVE  i = j
    OBVIOUS
  <2>1. CASE i < k /\ j < k
    BY <1>1, <1>7, <2>1 DEF Lists
  <2>2. CASE i >= k /\ j >= k
    <3>1. order[i + 1] = order[j + 1] /\ i + 1 \in 1..n /\ j + 1 \in 1..n
      BY <1>7, <2>2
    <3>2. i + 1 = j + 1
      BY <1>1, <3>1 DEF Lists
    <3> QED
      BY <3>2
  <2>3. CASE i < k /\ j >= k
    <3>1. order[i] = order[j + 1] /\ i \in 1..n /\ j + 1 \in 1..n
      BY <1>7, <2>3
    <3>2. i = j + 1
      BY <1>1, <3>1 DEF Lists
    <3> QED
      BY <2>3, <3>2
  <2>4. CASE i >= k /\ j < k
    <3>1. order[i + 1] = order[j] /\ i + 1 \in 1..n /\ j \in 1..n
      BY <1>7, <2>4
    <3>2. i + 1 = j
      BY <1>1, <3>1 DEF Lists
    <3> QED
      BY <2>4, <3>2
  <2> QED
    BY <2>1, <2>2, <2>3, <2>4
<1>15. \A t \in S \ {s} : \E i \in 1..(n - 1) : order2[i] = t
  <2> SUFFICES ASSUME NEW t \in S \ {s}
               PROVE  \E i \in 1..(n - 1) : order2[i] = t
    OBVIOUS
  <2>1. PICK i \in 1..n : order[i] = t
    BY <1>1 DEF Lists
  <2>2. i # k
    BY <1>2, <2>1
  <2>3. CASE i < k
    <3>1. i \in 1..(n - 1)
      BY <2>3
    <3> QED
      BY <1>7, <2>1, <2>3, <3>1
  <2>4. CASE i > k
    <3>1. i - 1 \in 1..(n - 1) /\ i - 1 >= k /\ (i - 1) + 1 = i
      BY <2>4
    <3>2. order2[i - 1] = order[i]
      BY <1>7, <3>1
    <3> QED
      BY <2>1, <3>1, <3>2
  <2> QED
    BY <2>2, <2>3, <2>4
<1>16. owed2[n - 1] = total - cost[s]
  <2>1. CASE n - 1 < k
    <3>1. n = k
      BY <2>1
    <3> QED
      BY <1>1, <1>4, <1>8, <2>1, <3>1
  <2>2. CASE n - 1 >= k
    BY <1>1, <1>8, <2>2
  <2> QED
    BY <2>1, <2>2
<1>17. Lists(S \ {s}, cost, n - 1, order2, owed2)
  BY <1>3, <1>9, <1>10, <1>11, <1>12, <1>13, <1>14, <1>15 DEF Lists
<1>18. Adds(S \ {s}, cost, total - cost[s])
  BY <1>3, <1>9, <1>10, <1>16, <1>17 DEF Adds
<1> QED
  BY <1>6, <1>18

(* What a completed send owes the counter until it is recorded. *)
Cost   == [s \in Senders |-> IpTotalBytes(dgram[s])]
Owing  == {s \in Senders : pc[s] = "sent"}

Breakdowns ==
  /\ snapshot.ip_total_bytes =
       snapshot.media_ip_total_bytes + snapshot.control_ip_total_bytes
  /\ snapshot.ip_total_bytes =
       snapshot.direct_ip_total_bytes + snapshot.turn_ip_total_bytes

AccountInv ==
  /\ Breakdowns
  /\ \E owed \in Nat :
       /\ Adds(Owing, Cost, owed)
       /\ snapshot.ip_total_bytes + owed <= wire_bytes
       /\ ~overflowed => snapshot.ip_total_bytes + owed = wire_bytes

(* Both breakdowns of a datagram's bytes add up to its total. *)
LEMMA IncrementsAddUp ==
  ASSUME NEW d \in DatagramType
  PROVE  /\ Increment(d, "ip_total_bytes") = IpTotalBytes(d) /\ IpTotalBytes(d) \in Nat
         /\ Increment(d, "ip_total_bytes") =
              Increment(d, "media_ip_total_bytes") + Increment(d, "control_ip_total_bytes")
         /\ Increment(d, "ip_total_bytes") =
              Increment(d, "direct_ip_total_bytes") + Increment(d, "turn_ip_total_bytes")
<1>1. IpTotalBytes(d) \in Nat
  BY DEF IpTotalBytes, DatagramType
<1> QED
  BY <1>1 DEF Increment

(* Counting a rejected, failed or short datagram leaves the byte sums. *)
LEMMA CountKeepsSums ==
  ASSUME snapshot \in [Fields -> 0..MaxCount], NEW f \in Fields \ SumFields, Count(f)
  PROVE  /\ \A g \in SumFields : snapshot'[g] = snapshot[g]
         /\ overflowed' = TRUE \/ overflowed' = overflowed
<1>1. CASE snapshot[f] = MaxCount
  BY <1>1 DEF Count
<1>2. CASE snapshot[f] # MaxCount
  BY <1>2 DEF Count, Fields
<1> QED
  BY <1>1, <1>2

(* A step that counts no bytes and leaves alone who owes what. *)
LEMMA AccountsStand ==
  ASSUME TypeOK, AccountInv,
         Owing' = Owing, \A s \in Owing : Cost'[s] = Cost[s], wire_bytes' = wire_bytes,
         \A g \in SumFields : snapshot'[g] = snapshot[g],
         overflowed' = TRUE \/ overflowed' = overflowed
  PROVE  AccountInv'
<1>1. PICK owed \in Nat :
           /\ Adds(Owing, Cost, owed)
           /\ snapshot.ip_total_bytes + owed <= wire_bytes
           /\ ~overflowed => snapshot.ip_total_bytes + owed = wire_bytes
  BY DEF AccountInv
<1>2. Adds(Owing', Cost', owed)
  BY <1>1, OthersDoNotCount
<1>3. Breakdowns' /\ snapshot'.ip_total_bytes = snapshot.ip_total_bytes
  BY DEF AccountInv, Breakdowns, SumFields
<1>4. /\ snapshot'.ip_total_bytes + owed <= wire_bytes'
      /\ ~overflowed' => snapshot'.ip_total_bytes + owed = wire_bytes'
  BY <1>1, <1>3
<1> QED
  BY <1>1, <1>2, <1>3, <1>4 DEF AccountInv

(* Recording a completed send settles what it owes, or, when a sum would   *)
(* pass the limit, gives up the equality for good.                         *)
LEMMA RecordSettles ==
  ASSUME TypeOK, AccountInv, NEW s \in Senders, pc[s] = "sent", RecordSend(s)
  PROVE  AccountInv'
<1>1. PICK owed \in Nat :
           /\ Adds(Owing, Cost, owed)
           /\ snapshot.ip_total_bytes + owed <= wire_bytes
           /\ ~overflowed => snapshot.ip_total_bytes + owed = wire_bytes
  BY DEF AccountInv
<1>2. \A t \in Senders : dgram[t] \in DatagramType
  BY DatagramsAssumption DEF TypeOK
<1>3. \A t \in Senders : Cost[t] = IpTotalBytes(dgram[t]) /\ Cost[t] \in Nat
  BY <1>2, IncrementsAddUp DEF Cost
<1>4. RecordSuccess(dgram[s]) /\ pc' = [pc EXCEPT ![s] = "idle"]
      /\ dgram' = dgram /\ wire_bytes' = wire_bytes
  BY DEF RecordSend, historyVars
<1>5. s \in Owing /\ Owing' = Owing \ {s} /\ Cost' = Cost
  BY <1>4 DEF Owing, Cost, TypeOK
<1>6. owed - Cost[s] \in Nat /\ Adds(Owing \ {s}, Cost, owed - Cost[s])
  <2>1. \A t \in Owing : Cost[t] \in Nat
    BY <1>3 DEF Owing
  <2> QED
    BY <1>1, <1>5, <2>1, OneLessOwes
<1>7. /\ snapshot.ip_total_bytes \in Nat /\ wire_bytes \in Nat
      /\ snapshot.media_ip_total_bytes \in Nat /\ snapshot.control_ip_total_bytes \in Nat
      /\ snapshot.direct_ip_total_bytes \in Nat /\ snapshot.turn_ip_total_bytes \in Nat
  BY CountAssumption DEF TypeOK, Fields, SumFields
<1>8. Breakdowns
  BY DEF AccountInv
<1>9. CASE \A f \in SumFields : snapshot[f] + Increment(dgram[s], f) <= MaxCount
  <2>1. \A f \in Fields : snapshot'[f] = snapshot[f] + Increment(dgram[s], f)
    BY <1>4, <1>9 DEF RecordSuccess
  <2>2. overflowed' = overflowed
    BY <1>4, <1>9 DEF RecordSuccess
  <2>3. /\ Increment(dgram[s], "ip_total_bytes") = Cost[s]
        /\ Increment(dgram[s], "ip_total_bytes") =
             Increment(dgram[s], "media_ip_total_bytes")
             + Increment(dgram[s], "control_ip_total_bytes")
        /\ Increment(dgram[s], "ip_total_bytes") =
             Increment(dgram[s], "direct_ip_total_bytes")
             + Increment(dgram[s], "turn_ip_total_bytes")
    BY <1>2, <1>3, IncrementsAddUp
  <2>4. \A f \in Fields : Increment(dgram[s], f) \in Nat
    BY <1>2, IncrementType
  <2>5. Breakdowns'
    BY <1>7, <1>8, <2>1, <2>3, <2>4 DEF Breakdowns, Fields, SumFields
  <2>6. snapshot'.ip_total_bytes = snapshot.ip_total_bytes + Cost[s]
    BY <2>1, <2>3 DEF Fields, SumFields
  <2>7. Cost[s] \in Nat
    BY <1>3
  <2>8. /\ snapshot'.ip_total_bytes + (owed - Cost[s]) <= wire_bytes'
        /\ ~overflowed' => snapshot'.ip_total_bytes + (owed - Cost[s]) = wire_bytes'
    BY <1>1, <1>4, <1>7, <2>2, <2>6, <2>7
  <2> QED
    BY <1>5, <1>6, <2>5, <2>8 DEF AccountInv
<1>10. CASE ~\A f \in SumFields : snapshot[f] + Increment(dgram[s], f) <= MaxCount
  <2>1. overflowed' = TRUE /\ snapshot' = snapshot
    BY <1>4, <1>10 DEF RecordSuccess
  <2>2. Cost[s] \in Nat
    BY <1>3
  <2>3. snapshot'.ip_total_bytes + (owed - Cost[s]) <= wire_bytes'
    BY <1>1, <1>4, <1>7, <2>1, <2>2
  <2>4. Breakdowns'
    BY <1>8, <2>1 DEF Breakdowns
  <2> QED
    BY <1>5, <1>6, <2>1, <2>3, <2>4 DEF AccountInv
<1> QED
  BY <1>9, <1>10

(* A native send owes the bytes it has put on the wire. *)
LEMMA SendOwes ==
  ASSUME TypeOK, AccountInv, NEW s \in Senders, NativeSend(s)
  PROVE  AccountInv'
<1>1. PICK result \in {"sent", "failed", "short"} :
           /\ pc' = [pc EXCEPT ![s] = result]
           /\ wire_bytes' = IF result = "sent"
                              THEN wire_bytes + IpTotalBytes(dgram[s]) ELSE wire_bytes
  BY DEF NativeSend
<1>2. pc[s] = "sending" /\ dgram' = dgram /\ snapshot' = snapshot /\ overflowed' = overflowed
  BY DEF NativeSend, counterVars
<1>3. Cost' = Cost /\ s \notin Owing
  BY <1>2 DEF Cost, Owing
<1>4. CASE result # "sent"
  <2>1. Owing' = Owing
    BY <1>1, <1>2, <1>4 DEF Owing, TypeOK
  <2>2. wire_bytes' = wire_bytes
    BY <1>1, <1>4
  <2> QED
    BY <1>2, <1>3, <2>1, <2>2, AccountsStand
<1>5. CASE result = "sent"
  <2>1. Owing' = Owing \cup {s}
    BY <1>1, <1>2, <1>5 DEF Owing, TypeOK
  <2>2. Cost[s] = IpTotalBytes(dgram[s]) /\ Cost[s] \in Nat
    <3>1. dgram[s] \in DatagramType
      BY DatagramsAssumption DEF TypeOK
    <3> QED
      BY <3>1, IncrementsAddUp DEF Cost
  <2>3. PICK owed \in Nat :
             /\ Adds(Owing, Cost, owed)
             /\ snapshot.ip_total_bytes + owed <= wire_bytes
             /\ ~overflowed => snapshot.ip_total_bytes + owed = wire_bytes
    BY DEF AccountInv
  <2>4. Adds(Owing \cup {s}, Cost, owed + Cost[s])
    BY <1>3, <2>2, <2>3, OneMoreOwes
  <2>5. snapshot.ip_total_bytes \in Nat /\ wire_bytes \in Nat
    BY CountAssumption DEF TypeOK, Fields, SumFields
  <2>6. /\ owed + Cost[s] \in Nat
        /\ snapshot'.ip_total_bytes + (owed + Cost[s]) <= wire_bytes'
        /\ ~overflowed' => snapshot'.ip_total_bytes + (owed + Cost[s]) = wire_bytes'
    BY <1>1, <1>2, <1>5, <2>2, <2>3, <2>5
  <2>7. Breakdowns'
    BY <1>2 DEF AccountInv, Breakdowns
  <2> QED
    BY <1>3, <2>1, <2>4, <2>6, <2>7 DEF AccountInv
<1> QED
  BY <1>4, <1>5

LEMMA AccountInvInductive ==
  ASSUME TypeOK, AccountInv, [Next]_vars
  PROVE  AccountInv'
<1>0. /\ "rejected_datagrams" \in Fields \ SumFields
      /\ "failed_datagrams" \in Fields \ SumFields
      /\ "short_datagrams" \in Fields \ SumFields
  BY DEF Fields, SumFields
<1>1. ASSUME NEW s \in Senders, NEW d \in Datagrams, NEW e \in 0..MaxEpoch,
             SendFinal(s, d, e)
      PROVE  AccountInv'
  <2>1. /\ \A g \in SumFields : snapshot'[g] = snapshot[g]
        /\ overflowed' = TRUE \/ overflowed' = overflowed
    <3>1. CASE ~ValidMetadata(d)
      BY <1>0, <1>1, <3>1, CountKeepsSums DEF SendFinal, RecordRejected, TypeOK
    <3>2. CASE ValidMetadata(d)
      BY <1>1, <3>2 DEF SendFinal, counterVars
    <3> QED
      BY <3>1, <3>2
  <2>2. Owing' = Owing /\ wire_bytes' = wire_bytes
    BY <1>1 DEF SendFinal, Owing, TypeOK, senderVars, historyVars
  <2>3. \A t \in Owing : Cost'[t] = Cost[t]
    BY <1>1 DEF SendFinal, Owing, Cost, TypeOK, senderVars
  <2> QED
    BY <2>1, <2>2, <2>3, AccountsStand
<1>2. ASSUME NEW s \in Senders, AdmitMedia(s)
      PROVE  AccountInv'
  <2>1. /\ \A g \in SumFields : snapshot'[g] = snapshot[g]
        /\ overflowed' = TRUE \/ overflowed' = overflowed
    <3>1. CASE ~Admits(s)
      BY <1>0, <1>2, <3>1, CountKeepsSums DEF AdmitMedia, RecordRejected, TypeOK
    <3>2. CASE Admits(s)
      BY <1>2, <3>2 DEF AdmitMedia, counterVars
    <3> QED
      BY <3>1, <3>2
  <2>2. Owing' = Owing /\ Cost' = Cost /\ wire_bytes' = wire_bytes
    BY <1>2 DEF AdmitMedia, Owing, Cost, TypeOK, historyVars
  <2> QED
    BY <2>1, <2>2, AccountsStand
<1>3. ASSUME NEW s \in Senders, NativeSend(s)
      PROVE  AccountInv'
  BY <1>3, SendOwes
<1>4. ASSUME NEW s \in Senders, RecordSend(s)
      PROVE  AccountInv'
  <2>1. CASE pc[s] = "sent"
    BY <1>4, <2>1, RecordSettles
  <2>2. CASE pc[s] # "sent"
    <3>1. /\ \A g \in SumFields : snapshot'[g] = snapshot[g]
          /\ overflowed' = TRUE \/ overflowed' = overflowed
      BY <1>0, <1>4, <2>2, CountKeepsSums DEF RecordSend, RecordFailed, TypeOK
    <3>2. Owing' = Owing /\ Cost' = Cost /\ wire_bytes' = wire_bytes
      BY <1>4, <2>2 DEF RecordSend, Owing, Cost, TypeOK, historyVars
    <3> QED
      BY <3>1, <3>2, AccountsStand
  <2> QED
    BY <2>1, <2>2
<1>5. ASSUME snapshot' = snapshot, overflowed' = overflowed, pc' = pc, dgram' = dgram,
             wire_bytes' = wire_bytes
      PROVE  AccountInv'
  <2>1. Owing' = Owing /\ Cost' = Cost
    BY <1>5 DEF Owing, Cost
  <2> QED
    BY <1>5, <2>1, AccountsStand
<1>6. ASSUME NEW c \in Closers, NEW reason \in Reasons, RequestClose(c, reason)
      PROVE  AccountInv'
  BY <1>5, <1>6 DEF RequestClose, counterVars, senderVars, historyVars
<1>7. ASSUME NEW c \in Closers, CloseMedia(c)
      PROVE  AccountInv'
  BY <1>5, <1>7 DEF CloseMedia, counterVars, senderVars
<1>8. CASE ResumeMedia
  BY <1>5, <1>8 DEF ResumeMedia, counterVars, senderVars, historyVars
<1>9. CASE UNCHANGED vars
  BY <1>5, <1>9 DEF vars, counterVars, senderVars, historyVars
<1> QED
  BY <1>1, <1>2, <1>3, <1>4, <1>6, <1>7, <1>8, <1>9 DEF Next

(* The counter never loses or invents a byte, however many threads have    *)
(* completed a send that they have not yet recorded, and stays within its  *)
(* width.                                                                  *)
THEOREM AccountsAreExact == Spec => []AccountsSound
<1>1. Init => AccountInv
  <2> SUFFICES ASSUME Init PROVE AccountInv
    OBVIOUS
  <2>1. Owing = {}
    BY DEF Init, Owing
  <2>2. Breakdowns /\ snapshot.ip_total_bytes + 0 = wire_bytes /\ wire_bytes = 0
    BY DEF Init, Breakdowns, Fields, SumFields
  <2>3. Adds(Owing, Cost, 0)
    BY <2>1, NobodyOwes
  <2> QED
    BY <2>2, <2>3 DEF AccountInv
<1>2. TypeOK /\ AccountInv => ExactAccounting
  <2> SUFFICES ASSUME TypeOK, AccountInv PROVE ExactAccounting
    OBVIOUS
  <2>1. PICK owed \in Nat :
             /\ Adds(Owing, Cost, owed)
             /\ snapshot.ip_total_bytes + owed <= wire_bytes
             /\ ~overflowed => snapshot.ip_total_bytes + owed = wire_bytes
    BY DEF AccountInv
  <2>2. snapshot.ip_total_bytes \in Nat /\ wire_bytes \in Nat
    BY CountAssumption DEF TypeOK, Fields, SumFields
  <2>3. (\A s \in Senders : pc[s] # "sent") => owed = 0
    <3> SUFFICES ASSUME \A s \in Senders : pc[s] # "sent" PROVE owed = 0
      OBVIOUS
    <3>1. Owing = {}
      BY DEF Owing
    <3> QED
      BY <2>1, <3>1, NobodyOwes
  <2>4. snapshot.ip_total_bytes <= wire_bytes
    BY <2>1, <2>2
  <2>5. ASSUME \A s \in Senders : pc[s] # "sent", ~overflowed
        PROVE  snapshot.ip_total_bytes = wire_bytes
    BY <2>1, <2>2, <2>3, <2>5
  <2> QED
    BY <2>4, <2>5 DEF ExactAccounting, AccountInv, Breakdowns
<1>3. TypeOK /\ AccountInv => AccountsSound
  BY <1>2 DEF AccountsSound
<1> QED
  BY <1>1, <1>3, TypeCorrect, AccountInvInductive, PTL DEF Spec

-----------------------------------------------------------------------------
(* The encoded fanout. *)

Entry(unit) == [id |-> unit.id, epoch |-> unit.epoch, idr |-> unit.idr,
                size |-> unit.size, age |-> 0]

(* How the queue t, the unit p published last and the unit k taken last    *)
(* hang together.  The queue is of one epoch, the floor's; it holds the    *)
(* units published last, without a gap; and unless recovery is awaited it  *)
(* continues what was taken, or starts afresh with an IDR.                 *)
Chained(t, p, k) ==
  /\ \A i \in DOMAIN t.queue : t.queue[i].epoch = t.floor
  /\ t.awaiting \/ ~t.open => t.queue = << >>
  /\ \A i \in DOMAIN t.queue : t.queue[i].id = p.id - Len(t.queue) + i
  /\ ~t.awaiting =>
       /\ k.id <= p.id - Len(t.queue)
       /\ \/ k.id = p.id - Len(t.queue) /\ k.epoch = t.floor
          \/ t.queue # << >> /\ t.queue[1].idr
  /\ k.epoch <= t.floor /\ t.floor <= p.epoch
  /\ k.id <= p.id
  /\ ~t.open => t.awaiting
  /\ t.floor = 0 => t.awaiting

(* An unusable queue is closed. *)
Sound(t) == t.unusable => ~t.open

(* The inductive invariant. *)
IInv ==
  /\ FanTypeOK
  /\ Chained(q, published, taken)
  /\ Sound(q)
  /\ ~transport => ~q.open

(* The queue n that enqueue leaves of t when it does not admit the unit. *)
Emptied(t, n, unit) ==
  /\ n.queue = << >> /\ n.awaiting /\ (n.open => t.open)
  /\ n.floor = t.floor \/ (n.floor = unit.epoch /\ t.floor < unit.epoch)

(* The queue n that enqueue leaves of t when it admits the unit. *)
Pushed(t, n, unit) ==
  /\ n.open /\ t.open /\ ~n.awaiting
  /\ n.floor = unit.epoch /\ t.floor <= unit.epoch
  /\ \/ n.queue = Append(t.queue, Entry(unit)) /\ ~t.awaiting /\ t.floor = unit.epoch
     \/ n.queue = <<Entry(unit)>> /\ unit.idr

(* A published unit. *)
ValidUnit(unit) == unit \in UnitType /\ unit.id >= 1 /\ unit.epoch >= 1

(* A purge leaves an empty queue that awaits recovery. *)
LEMMA PurgeShape ==
  ASSUME NEW t \in QueueType
  PROVE  /\ QueuePurge(t) \in QueueType
         /\ QueuePurge(t).queue = << >> /\ QueuePurge(t).awaiting
         /\ QueuePurge(t).open = t.open /\ QueuePurge(t).floor = t.floor
         /\ QueuePurge(t).unusable = t.unusable
<1>1. << >> \in Seq(EntryType)
  OBVIOUS
<1>2. QueuePurge(t) = [t EXCEPT !.queue = << >>, !.awaiting = TRUE]
  BY DEF QueuePurge
<1> QED  BY <1>1, <1>2 DEF QueueType

(* Closing the queue for good purges it too. *)
LEMMA UnusableShape ==
  ASSUME NEW t \in QueueType
  PROVE  /\ Unusable(t) \in QueueType
         /\ Unusable(t).queue = << >> /\ Unusable(t).awaiting
         /\ ~Unusable(t).open /\ Unusable(t).floor = t.floor
<1> DEFINE p == QueuePurge(t)
<1>1. p \in QueueType /\ p.queue = << >> /\ p.awaiting /\ p.floor = t.floor
  BY PurgeShape
<1>2. Unusable(t) = [p EXCEPT !.open = FALSE, !.unusable = TRUE]
  BY DEF Unusable
<1> HIDE DEF p
<1> QED  BY <1>1, <1>2 DEF QueueType

(* So does a stop, which leaves a closed queue alone. *)
LEMMA StopShape ==
  ASSUME NEW t \in QueueType
  PROVE  /\ QueueStop(t) \in QueueType /\ ~QueueStop(t).open
         /\ QueueStop(t).floor = t.floor /\ Sound(QueueStop(t))
         /\ \/ QueueStop(t) = t
            \/ QueueStop(t).queue = << >> /\ QueueStop(t).awaiting
<1> DEFINE p == QueuePurge(t)
<1>1. p \in QueueType /\ p.queue = << >> /\ p.awaiting /\ p.floor = t.floor
  BY PurgeShape
<1>2. QueueStop(t) = IF t.open THEN [p EXCEPT !.open = FALSE] ELSE t
  BY DEF QueueStop
<1> HIDE DEF p
<1>3. CASE t.open
  BY <1>1, <1>2, <1>3 DEF QueueType, Sound
<1>4. CASE ~t.open
  BY <1>2, <1>4 DEF Sound
<1> QED  BY <1>3, <1>4

(* An admitted unit keeps the type of the queue. *)
LEMMA PushType ==
  ASSUME NEW t \in QueueType, NEW unit, ValidUnit(unit)
  PROVE  /\ Push(t, unit) \in QueueType
         /\ Push(t, unit).open = t.open /\ Push(t, unit).unusable = t.unusable
<1>1. Entry(unit) \in EntryType
  BY QueueAssumption, FanoutAssumption DEF Entry, EntryType, ValidUnit, UnitType
<1>2. Append(t.queue, Entry(unit)) \in Seq(EntryType)
  BY <1>1 DEF QueueType
<1> QED  BY <1>1, <1>2 DEF Push, Entry, QueueType, ValidUnit, UnitType

(* What enqueue makes of the queue: nothing, emptied, or the unit pushed. *)
LEMMA EnqueueShape ==
  ASSUME NEW t \in QueueType, NEW unit, ValidUnit(unit),
         t.awaiting => t.queue = << >>, t.floor = 0 => t.awaiting,
         Sound(t), NEW n, n = EnqueueUnit(t, unit).q
  PROVE  /\ n \in QueueType /\ Sound(n)
         /\ \/ n = t /\ ~t.open
            \/ unit.epoch < t.floor
            \/ Emptied(t, n, unit)
            \/ Pushed(t, n, unit)
<1> DEFINE x == QueueExpire(t)
           r == RaiseFloor(x, unit)
<1>1. x \in QueueType /\ x.open = t.open /\ x.floor = t.floor /\ Sound(x)
      /\ (x = t \/ (x.queue = << >> /\ x.awaiting))
  BY PurgeShape DEF QueueExpire, Sound
<1> HIDE DEF x
<1>2. r \in QueueType /\ r.open = t.open /\ Sound(r)
      /\ \/ r = x /\ (x.floor = 0 \/ unit.epoch <= x.floor)
         \/ r.queue = << >> /\ r.awaiting /\ r.floor = unit.epoch /\ t.floor < unit.epoch
  <2> DEFINE p == QueuePurge(x)
  <2>1. p \in QueueType /\ p.queue = << >> /\ p.awaiting /\ p.open = x.open
        /\ p.unusable = x.unusable
    BY <1>1, PurgeShape
  <2>2. r = IF x.floor # 0 /\ unit.epoch > x.floor THEN [p EXCEPT !.floor = unit.epoch] ELSE x
    BY DEF RaiseFloor
  <2>3. x.floor \in 0 .. MaxUnitEpoch /\ unit.epoch \in 0 .. MaxUnitEpoch
        /\ MaxUnitEpoch \in Nat
    BY <1>1, FanoutAssumption DEF QueueType, ValidUnit, UnitType
  <2> HIDE DEF p, r
  <2>4. CASE x.floor # 0 /\ unit.epoch > x.floor
    <3>1. r = [p EXCEPT !.floor = unit.epoch]
      BY <2>2, <2>4
    <3>2. r \in QueueType /\ r.open = p.open /\ r.queue = p.queue
          /\ r.awaiting = p.awaiting /\ r.floor = unit.epoch /\ r.unusable = p.unusable
      BY <2>1, <2>3, <3>1 DEF QueueType
    <3> QED  BY <1>1, <2>1, <2>3, <2>4, <3>2 DEF Sound
  <2>5. CASE ~(x.floor # 0 /\ unit.epoch > x.floor)
    <3>1. r = x
      BY <2>2, <2>5
    <3> QED  BY <1>1, <2>3, <2>5, <3>1
  <2> QED  BY <2>4, <2>5
<1>x. EnqueueUnit(t, unit) =
        IF ~t.open THEN Refusal(t, t.awaiting)
        ELSE IF x.floor # 0 /\ unit.epoch < x.floor THEN Refusal(x, x.awaiting)
        ELSE IF r.awaiting /\ ~unit.idr THEN Refusal(r, TRUE)
        ELSE PushIfRoom(r, unit)
  BY DEF EnqueueUnit, x, r
<1> HIDE DEF r
<1>3. CASE ~t.open
  BY <1>3, <1>x DEF Refusal
<1>4. CASE t.open /\ x.floor # 0 /\ unit.epoch < x.floor
  BY <1>1, <1>4, <1>x DEF Refusal
<1>5. CASE t.open /\ ~(x.floor # 0 /\ unit.epoch < x.floor) /\ r.awaiting /\ ~unit.idr
  <2>1. n = r
    BY <1>1, <1>5, <1>x DEF Refusal
  <2>2. r.queue = << >>
    BY <1>1, <1>2, <1>5
  <2> QED  BY <1>1, <1>2, <1>5, <2>1, <2>2 DEF Emptied
<1>6. CASE /\ t.open /\ ~(x.floor # 0 /\ unit.epoch < x.floor)
           /\ ~(r.awaiting /\ ~unit.idr)
  <2>1. n = PushIfRoom(r, unit).q
    BY <1>1, <1>6, <1>x
  <2>2. n = Unusable(r) \/ n = QueuePurge(r) \/ n = Push(r, unit)
    BY <2>1 DEF PushIfRoom, Refusal
  <2>3. n \in QueueType /\ Sound(n)
    <3>1. CASE n = Unusable(r)
      BY <1>2, <3>1, UnusableShape DEF Sound
    <3>2. CASE n = QueuePurge(r)
      BY <1>2, <3>2, PurgeShape DEF Sound
    <3>3. CASE n = Push(r, unit)
      BY <1>2, <3>3, PushType DEF Sound
    <3> QED  BY <2>2, <3>1, <3>2, <3>3
  <2>4. CASE n = Unusable(r) \/ n = QueuePurge(r)
    <3>1. n.queue = << >> /\ n.awaiting /\ n.floor = r.floor /\ (n.open => r.open)
      BY <1>2, <2>4, PurgeShape, UnusableShape
    <3> QED  BY <1>1, <1>2, <2>3, <3>1 DEF Emptied
  <2>5. CASE n = Push(r, unit)
    <3>1. /\ n.open = r.open /\ n.awaiting = FALSE
          /\ n.floor = (IF r.awaiting THEN unit.epoch ELSE r.floor)
          /\ n.queue = Append(r.queue, Entry(unit))
      BY <1>2, <2>5 DEF Push, Entry, QueueType
    <3>2. CASE r.awaiting
      <4>1. r.queue = << >> /\ unit.idr
        BY <1>1, <1>2, <1>6, <3>2
      <4>2. n.queue = <<Entry(unit)>>
        BY <3>1, <4>1
      <4>3. t.floor <= unit.epoch
        BY <1>1, <1>2, <1>6 DEF QueueType, ValidUnit, UnitType
      <4> QED  BY <1>2, <1>6, <2>3, <3>1, <3>2, <4>1, <4>2, <4>3 DEF Pushed
    <3>3. CASE ~r.awaiting
      <4>1. r = t /\ t.floor # 0
        BY <1>1, <1>2, <3>3
      <4>2. t.floor = unit.epoch
        BY <1>1, <1>2, <1>6, <3>3, <4>1 DEF QueueType, ValidUnit, UnitType
      <4> QED  BY <1>2, <1>6, <2>3, <3>1, <3>3, <4>1, <4>2 DEF Pushed, QueueType
    <3> QED  BY <3>2, <3>3
  <2> QED  BY <2>2, <2>4, <2>5
<1> QED  BY <1>3, <1>4, <1>5, <1>6

(* Ageing touches nothing but the ages. *)
LEMMA AgedShape ==
  ASSUME NEW t \in QueueType
  PROVE  /\ QueueAged(t) \in QueueType
         /\ QueueAged(t).open = t.open /\ QueueAged(t).awaiting = t.awaiting
         /\ QueueAged(t).floor = t.floor /\ QueueAged(t).unusable = t.unusable
         /\ Len(QueueAged(t).queue) = Len(t.queue)
         /\ \A i \in DOMAIN t.queue :
              /\ QueueAged(t).queue[i].id = t.queue[i].id
              /\ QueueAged(t).queue[i].epoch = t.queue[i].epoch
              /\ QueueAged(t).queue[i].idr = t.queue[i].idr
              /\ QueueAged(t).queue[i].size = t.queue[i].size
<1> DEFINE older(e) == [e EXCEPT !.age = IF e.age < MaxAge THEN e.age + 1 ELSE e.age]
           new == [i \in DOMAIN t.queue |-> older(t.queue[i])]
<1>1. \A e \in EntryType : /\ older(e) \in EntryType /\ older(e).id = e.id
                           /\ older(e).epoch = e.epoch /\ older(e).idr = e.idr
                           /\ older(e).size = e.size
  BY QueueAssumption DEF EntryType
<1>2. t.queue \in Seq(EntryType)
  BY DEF QueueType
<1>3. QueueAged(t) = [t EXCEPT !.queue = new]
  BY DEF QueueAged
<1> HIDE DEF older
<1>4. new \in Seq(EntryType) /\ Len(new) = Len(t.queue)
      /\ \A i \in DOMAIN t.queue : new[i] = older(t.queue[i])
  BY <1>1, <1>2
<1>5. \A i \in DOMAIN t.queue : t.queue[i] \in EntryType
  BY <1>2
<1> HIDE DEF new
<1>6. QueueAged(t) \in QueueType /\ QueueAged(t).queue = new
      /\ QueueAged(t).open = t.open /\ QueueAged(t).awaiting = t.awaiting
      /\ QueueAged(t).floor = t.floor /\ QueueAged(t).unusable = t.unusable
  BY <1>3, <1>4 DEF QueueType
<1> QED  BY <1>1, <1>4, <1>5, <1>6

(* A dequeue of a unit leaves the rest. *)
LEMMA TakeShape ==
  ASSUME NEW t \in QueueType, CanDequeue(t)
  PROVE  /\ DequeueUnit(t) \in QueueType
         /\ DequeueUnit(t).open = t.open /\ DequeueUnit(t).awaiting = t.awaiting
         /\ DequeueUnit(t).floor = t.floor
         /\ DequeueUnit(t).queue = Tail(t.queue) /\ t.queue # << >>
<1>1. t.queue \in Seq(EntryType) /\ t.queue # << >>
  BY DEF QueueType, CanDequeue
<1>2. Tail(t.queue) \in Seq(EntryType)
  BY <1>1
<1>3. DequeueUnit(t) = [t EXCEPT !.queue = Tail(t.queue)]
  BY <1>1 DEF DequeueUnit, CanDequeue
<1> QED  BY <1>1, <1>2, <1>3 DEF QueueType

(* Positions counted from the end. *)
LEMMA Shift ==
  \A a, len, i \in Int : /\ a - (len - 1) + i = a - len + (i + 1)
                         /\ (a + 1) - (len + 1) + i = a - len + i
OBVIOUS

(* An emptied queue that awaits recovery is chained to anything later. *)
LEMMA EmptiedChained ==
  ASSUME NEW t \in QueueType, NEW p \in UnitType, NEW k \in UnitType,
         t.queue = << >>, t.awaiting, k.epoch <= t.floor, t.floor <= p.epoch,
         k.id <= p.id
  PROVE  Chained(t, p, k)
BY DEF Chained

(* A pushed unit continues the chain. *)
LEMMA PushedChained ==
  ASSUME NEW t \in QueueType, NEW n \in QueueType, NEW p \in UnitType,
         NEW k \in UnitType, NEW unit \in UnitType,
         Chained(t, p, k), unit.id = p.id + 1, p.epoch <= unit.epoch,
         unit.epoch >= 1, Pushed(t, n, unit)
  PROVE  Chained(n, unit, k)
<1> DEFINE e == Entry(unit)
<1>1. e.id = unit.id /\ e.epoch = unit.epoch /\ e.idr = unit.idr
  BY DEF Entry
<1>2. /\ t.queue \in Seq(EntryType) /\ n.queue \in Seq(EntryType)
      /\ p.id \in Nat /\ k.id \in Nat /\ unit.id \in Nat
      /\ k.epoch \in Nat /\ unit.epoch \in Nat /\ t.floor \in Nat /\ p.epoch \in Nat
  BY FanoutAssumption DEF QueueType, UnitType
<1>3. /\ n.open /\ t.open /\ ~n.awaiting
      /\ n.floor = unit.epoch /\ t.floor <= unit.epoch
      /\ \/ n.queue = Append(t.queue, e) /\ ~t.awaiting /\ t.floor = unit.epoch
         \/ n.queue = <<e>> /\ unit.idr
  BY DEF Pushed
<1> HIDE DEF e
<1>4. k.epoch <= n.floor /\ n.floor <= unit.epoch /\ k.id <= p.id /\ k.id <= unit.id
  BY <1>2, <1>3 DEF Chained
<1>5. CASE n.queue = Append(t.queue, e) /\ ~t.awaiting /\ t.floor = unit.epoch
  <2>1. Len(n.queue) = Len(t.queue) + 1 /\ Len(t.queue) \in Nat
        /\ DOMAIN n.queue = 1 .. Len(t.queue) + 1 /\ DOMAIN t.queue = 1 .. Len(t.queue)
        /\ n.queue # << >>
    BY <1>2, <1>5
  <2>2. \A i \in 1 .. Len(t.queue) : n.queue[i] = t.queue[i]
    BY <1>2, <1>5
  <2>3. n.queue[Len(t.queue) + 1] = e
    BY <1>2, <1>5
  <2>4. \A i \in DOMAIN n.queue : n.queue[i].epoch = n.floor
    BY <1>1, <1>3, <1>5, <2>1, <2>2, <2>3 DEF Chained
  <2>5. \A i \in DOMAIN n.queue : n.queue[i].id = unit.id - Len(n.queue) + i
    <3> SUFFICES ASSUME NEW i \in DOMAIN n.queue
                 PROVE  n.queue[i].id = unit.id - Len(n.queue) + i
      OBVIOUS
    <3>1. CASE i \in 1 .. Len(t.queue)
      <4>1. t.queue[i].id = p.id - Len(t.queue) + i
        BY <2>1, <3>1 DEF Chained
      <4>2. n.queue[i] = t.queue[i]
        BY <2>2, <3>1
      <4>3. i \in Int /\ Len(t.queue) \in Int /\ p.id \in Int
        BY <1>2, <2>1, <3>1
      <4>4. unit.id - Len(n.queue) + i = p.id - Len(t.queue) + i
        BY <2>1, <4>3, Shift
      <4> QED  BY <4>1, <4>2, <4>4
    <3>2. CASE i = Len(t.queue) + 1
      BY <1>1, <1>2, <2>1, <2>3, <3>2
    <3> QED  BY <2>1, <3>1, <3>2
  <2>6. /\ k.id <= unit.id - Len(n.queue)
        /\ \/ k.id = unit.id - Len(n.queue) /\ k.epoch = n.floor
           \/ n.queue # << >> /\ n.queue[1].idr
    <3>1. /\ k.id <= p.id - Len(t.queue)
          /\ \/ k.id = p.id - Len(t.queue) /\ k.epoch = t.floor
             \/ t.queue # << >> /\ t.queue[1].idr
      BY <1>5 DEF Chained
    <3>2. t.queue # << >> => 1 \in 1 .. Len(t.queue)
      BY <1>2
    <3> QED  BY <1>2, <1>3, <1>5, <2>1, <2>2, <3>1, <3>2
  <2> QED  BY <1>2, <1>3, <1>4, <2>4, <2>5, <2>6 DEF Chained
<1>6. CASE n.queue = <<e>> /\ unit.idr
  <2>1. Len(n.queue) = 1 /\ DOMAIN n.queue = {1} /\ n.queue[1] = e
        /\ n.queue # << >>
    BY <1>6
  <2>2. \A i \in DOMAIN n.queue : n.queue[i].epoch = n.floor
    BY <1>1, <1>3, <2>1
  <2>3. \A i \in DOMAIN n.queue : n.queue[i].id = unit.id - Len(n.queue) + i
    BY <1>1, <1>2, <2>1
  <2>4. k.id <= unit.id - Len(n.queue)
    BY <1>2, <1>4, <2>1
  <2>5. n.queue[1].idr
    BY <1>1, <1>6, <2>1
  <2> QED  BY <1>2, <1>3, <1>4, <2>1, <2>2, <2>3, <2>4, <2>5 DEF Chained
<1> QED  BY <1>3, <1>5, <1>6

(* Taking the first unit continues the chain from it. *)
LEMMA TakenChained ==
  ASSUME NEW t \in QueueType, NEW n \in QueueType, NEW p \in UnitType,
         NEW k \in UnitType, Chained(t, p, k),
         n.open = t.open, n.awaiting = t.awaiting, n.floor = t.floor,
         t.queue # << >>, n.queue = Tail(t.queue)
  PROVE  LET u == Unaged(t.queue[1]) IN
         /\ u \in UnitType /\ Chained(n, p, u)
         /\ u.id > k.id /\ u.epoch >= k.epoch
         /\ u.idr \/ (u.id = k.id + 1 /\ u.epoch = k.epoch)
<1> DEFINE u == Unaged(t.queue[1])
<1>1. /\ t.queue \in Seq(EntryType) /\ n.queue \in Seq(EntryType)
      /\ p.id \in Nat /\ k.id \in Nat /\ k.epoch \in Nat /\ t.floor \in Nat
      /\ p.epoch \in Nat /\ Len(t.queue) \in Nat
  BY FanoutAssumption DEF QueueType, UnitType
<1>2. /\ 1 \in DOMAIN t.queue /\ DOMAIN t.queue = 1 .. Len(t.queue)
      /\ Len(n.queue) = Len(t.queue) - 1 /\ DOMAIN n.queue = 1 .. Len(t.queue) - 1
      /\ \A i \in 1 .. Len(t.queue) - 1 : n.queue[i] = t.queue[i + 1]
  BY <1>1
<1>3. t.queue[1] \in EntryType
  BY <1>1, <1>2
<1>4. /\ u \in UnitType /\ u.id = t.queue[1].id /\ u.epoch = t.queue[1].epoch
      /\ u.idr = t.queue[1].idr
  <2> DEFINE e == t.queue[1]
  <2>1. e \in EntryType
    BY <1>3
  <2> HIDE DEF e
  <2>2. e.id \in 0 .. MaxPublished /\ e.epoch \in 0 .. MaxUnitEpoch
        /\ e.idr \in BOOLEAN /\ e.size \in Nat
    BY <2>1, FanoutAssumption DEF EntryType
  <2>3. u = [id |-> e.id, epoch |-> e.epoch, idr |-> e.idr, size |-> e.size]
    BY DEF Unaged, e
  <2>4. u \in UnitType /\ u.id = e.id /\ u.epoch = e.epoch /\ u.idr = e.idr
    BY <2>2, <2>3 DEF UnitType
  <2> QED  BY <2>4 DEF e
<1> HIDE DEF u
<1>5. u.id = p.id - Len(t.queue) + 1 /\ u.epoch = t.floor
  BY <1>2, <1>4 DEF Chained
<1>6. ~t.awaiting /\ t.open
  BY DEF Chained
<1>7. /\ k.id <= p.id - Len(t.queue)
      /\ \/ k.id = p.id - Len(t.queue) /\ k.epoch = t.floor
         \/ t.queue[1].idr
      /\ k.epoch <= t.floor /\ t.floor <= p.epoch /\ t.floor # 0
  BY <1>6 DEF Chained
<1>8. \A i \in DOMAIN n.queue : n.queue[i].epoch = n.floor
  BY <1>1, <1>2 DEF Chained
<1>9. \A i \in DOMAIN n.queue : n.queue[i].id = p.id - Len(n.queue) + i
  <2> SUFFICES ASSUME NEW i \in 1 .. Len(t.queue) - 1
               PROVE  n.queue[i].id = p.id - Len(n.queue) + i
    BY <1>2
  <2>1. t.queue[i + 1].id = p.id - Len(t.queue) + (i + 1)
    BY <1>1, <1>2 DEF Chained
  <2>2. n.queue[i] = t.queue[i + 1]
    BY <1>2
  <2>3. i \in Int /\ Len(t.queue) \in Int /\ p.id \in Int
    BY <1>1
  <2>5. Len(n.queue) = Len(t.queue) - 1
    BY <1>2
  <2>4. p.id - Len(n.queue) + i = p.id - Len(t.queue) + (i + 1)
    BY <2>3, <2>5, Shift
  <2> QED  BY <2>1, <2>2, <2>4
<1>10. Chained(n, p, u)
  BY <1>1, <1>2, <1>4, <1>5, <1>6, <1>7, <1>8, <1>9 DEF Chained
<1>11. u.id > k.id /\ u.epoch >= k.epoch
       /\ (u.idr \/ (u.id = k.id + 1 /\ u.epoch = k.epoch))
  BY <1>1, <1>4, <1>5, <1>7
<1> QED  BY <1>4, <1>10, <1>11 DEF u

-----------------------------------------------------------------------------
(* The invariant is inductive. *)
LEMMA InitInv == FanInit => IInv
<1> SUFFICES ASSUME FanInit PROVE IInv
  OBVIOUS
<1>1. << >> \in Seq(EntryType)
  OBVIOUS
<1>2. q \in QueueType /\ q.queue = << >> /\ q.awaiting /\ q.open /\ ~q.unusable
      /\ q.floor = 0
  BY <1>1, FanoutAssumption DEF FanInit, EmptyQueue, QueueType
<1>3. published \in UnitType /\ taken \in UnitType /\ published.id = 0
      /\ published.epoch = 0 /\ taken.id = 0 /\ taken.epoch = 0
  BY FanoutAssumption DEF FanInit, NoUnit, UnitType
<1>4. Chained(q, published, taken)
  BY <1>2, <1>3, EmptiedChained
<1>5. FanTypeOK
  BY <1>2, <1>3 DEF FanInit, FanTypeOK
<1> QED  BY <1>2, <1>4, <1>5 DEF IInv, Sound, FanInit

(* Whatever the recorder answers, its branch keeps its types. *)
LEMMA RecordTypes ==
  ASSUME recorder \in BOOLEAN, recorded \in Nat, RecordBranch
  PROVE  recorder' \in BOOLEAN /\ recorded' \in Nat
<1>1. recorder' = recorder \/ recorder' = FALSE
  BY Zenon DEF RecordBranch
<1>2. recorded' = recorded \/ recorded' = recorded + 1
  BY Zenon DEF RecordBranch
<1>3. recorded' \in Nat
  BY <1>2
<1> QED  BY <1>1, <1>3, Zenon

(* A step in which the queue is left as it is or emptied, and nothing is   *)
(* published or taken.                                                     *)
LEMMA PurgingStep ==
  ASSUME IInv, UNCHANGED <<published, taken>>,
         q' \in QueueType, Sound(q)', q'.floor = q.floor, q'.open => q.open,
         q' = q \/ (q'.queue = << >> /\ q'.awaiting)
  PROVE  Chained(q, published, taken)'
<1>1. CASE q' = q
  BY <1>1 DEF IInv, Chained
<1>2. CASE q'.queue = << >> /\ q'.awaiting
  <2>1. /\ taken \in UnitType /\ published \in UnitType
        /\ taken.epoch <= q.floor /\ q.floor <= published.epoch
        /\ taken.id <= published.id
    BY DEF IInv, FanTypeOK, Chained
  <2> QED  BY <1>2, <2>1, EmptiedChained
<1> QED  BY <1>1, <1>2

(* publish, whatever its clock. *)
LEMMA PublishInv ==
  ASSUME IInv, NEW epoch \in 1 .. MaxUnitEpoch, NEW idr \in BOOLEAN,
         NEW size \in UnitSizes,
         Publish(epoch, idr, size) \/ PublishRegressed(epoch, idr, size)
  PROVE  IInv'
<1> DEFINE unit == [id |-> published.id + 1, epoch |-> epoch, idr |-> idr,
                    size |-> size]
<1>1. /\ published' = unit /\ taken' = taken /\ RecordBranch
      /\ published.id < MaxPublished /\ epoch >= published.epoch
      /\ TransportBranch(EnqueueUnit(q, unit)) \/ TransportBranch(EnqueueRegressed(q))
  BY DEF Publish, PublishRegressed
<1>2. /\ q \in QueueType /\ published \in UnitType /\ taken \in UnitType
      /\ transport \in BOOLEAN /\ recorder \in BOOLEAN /\ recorded \in Nat
  BY DEF IInv, FanTypeOK
<1>3. /\ Chained(q, published, taken) /\ Sound(q) /\ (~transport => ~q.open)
  BY DEF IInv
<1>4. /\ published.id \in 0 .. MaxPublished /\ published.epoch \in 0 .. MaxUnitEpoch
      /\ MaxPublished \in Nat /\ MaxUnitEpoch \in Nat /\ size \in Nat
  BY <1>2, FanoutAssumption DEF UnitType
<1>5. /\ unit \in UnitType /\ unit.id = published.id + 1 /\ unit.epoch = epoch
      /\ unit.idr = idr
  BY <1>1, <1>4 DEF UnitType
<1> HIDE DEF unit
<1>6. ValidUnit(unit)
  BY <1>4, <1>5 DEF ValidUnit
<1>7. /\ taken.epoch <= q.floor /\ q.floor <= published.epoch /\ taken.id <= published.id
      /\ taken.id \in Nat /\ taken.epoch \in Nat /\ q.floor \in Nat
      /\ (q.awaiting => q.queue = << >>) /\ (~q.open => q.awaiting)
      /\ (q.floor = 0 => q.awaiting)
  BY <1>2, <1>3, FanoutAssumption DEF Chained, UnitType, QueueType
<1>8. /\ taken.id <= unit.id /\ q.floor <= unit.epoch /\ taken.epoch <= unit.epoch
      /\ unit.epoch \in Nat
  BY <1>1, <1>4, <1>5, <1>7
<1>9. CASE q' = q /\ ~q.open /\ transport' \in BOOLEAN
  <2>1. q.queue = << >> /\ q.awaiting
    BY <1>7, <1>9
  <2>2. Chained(q, unit, taken)
    BY <1>2, <1>5, <1>7, <1>8, <2>1, EmptiedChained
  <2> QED  BY <1>1, <1>2, <1>3, <1>5, <1>9, <2>2, RecordTypes DEF IInv, FanTypeOK
<1>10. CASE q' = Unusable(q) /\ transport' = ~q'.unusable
  <2>1. /\ q' \in QueueType /\ q'.queue = << >> /\ q'.awaiting /\ ~q'.open
        /\ q'.floor = q.floor
    BY <1>2, <1>10, UnusableShape
  <2>2. Chained(q', unit, taken)
    BY <1>2, <1>5, <1>7, <1>8, <2>1, EmptiedChained
  <2>3. transport' \in BOOLEAN
    BY <1>10
  <2> QED  BY <1>1, <1>2, <1>5, <2>1, <2>2, <2>3, RecordTypes DEF IInv, FanTypeOK, Sound
<1>11. CASE q' = EnqueueUnit(q, unit).q /\ transport' = ~q'.unusable
  <2>1. /\ q' \in QueueType /\ Sound(q')
        /\ \/ q' = q /\ ~q.open
           \/ unit.epoch < q.floor
           \/ Emptied(q, q', unit)
           \/ Pushed(q, q', unit)
    BY <1>2, <1>3, <1>6, <1>7, <1>11, EnqueueShape
  <2>2. transport' \in BOOLEAN /\ (~transport' => ~q'.open)
    BY <1>11, <2>1 DEF Sound
  <2>3. Chained(q', unit, taken)
    <3>1. CASE q' = q /\ ~q.open
      BY <1>2, <1>5, <1>7, <1>8, <2>1, <3>1, EmptiedChained
    <3>2. CASE unit.epoch < q.floor
      BY <1>7, <1>8, <3>2
    <3>3. CASE Emptied(q, q', unit)
      <4>1. taken.epoch <= q'.floor /\ q'.floor <= unit.epoch
            /\ q'.queue = << >> /\ q'.awaiting
        BY <1>7, <1>8, <3>3 DEF Emptied
      <4> QED  BY <1>2, <1>5, <1>8, <2>1, <4>1, EmptiedChained
    <3>4. CASE Pushed(q, q', unit)
      <4>1. unit.id = published.id + 1 /\ published.epoch <= unit.epoch /\ unit.epoch >= 1
        BY <1>1, <1>4, <1>5
      <4> QED  BY <1>2, <1>3, <1>5, <2>1, <3>4, <4>1, PushedChained
    <3> QED  BY <2>1, <3>1, <3>2, <3>3, <3>4
  <2> QED  BY <1>1, <1>2, <1>5, <2>1, <2>2, <2>3, RecordTypes DEF IInv, FanTypeOK
<1>12. \/ q' = q /\ ~q.open /\ transport' \in BOOLEAN
       \/ q' = Unusable(q) /\ transport' = ~q'.unusable
       \/ q' = EnqueueUnit(q, unit).q /\ transport' = ~q'.unusable
  <2>1. CASE ~transport
    BY <1>1, <1>2, <1>3, <2>1 DEF TransportBranch
  <2>2. CASE transport /\ TransportBranch(EnqueueUnit(q, unit))
    BY <2>2 DEF TransportBranch
  <2>3. CASE transport /\ TransportBranch(EnqueueRegressed(q))
    <3>1. q' = EnqueueRegressed(q).q /\ transport' = ~q'.unusable
      BY <2>3 DEF TransportBranch
    <3> QED  BY <3>1 DEF EnqueueRegressed, Refusal
  <2> QED  BY <1>1, <2>1, <2>2, <2>3
<1> QED  BY <1>9, <1>10, <1>11, <1>12

(* Every step keeps the invariant. *)
LEMMA NextInv == IInv /\ [FanNext]_fanVars => IInv'
<1> SUFFICES ASSUME IInv, [FanNext]_fanVars PROVE IInv'
  OBVIOUS
<1>1. /\ FanTypeOK /\ q \in QueueType /\ Chained(q, published, taken) /\ Sound(q)
      /\ published \in UnitType /\ taken \in UnitType
      /\ (~transport => ~q.open) /\ q.open \in BOOLEAN
  BY DEF IInv, FanTypeOK, QueueType
<1>2. ASSUME NEW epoch \in 1 .. MaxUnitEpoch, NEW idr \in BOOLEAN, NEW size \in UnitSizes,
             Publish(epoch, idr, size) \/ PublishRegressed(epoch, idr, size)
      PROVE  IInv'
  BY <1>2, PublishInv
<1>3. CASE Dequeue
  <2>1. UNCHANGED <<transport, recorder, published, recorded>> /\ q' = DequeueUnit(q)
    BY <1>3 DEF Dequeue
  <2>2. CASE CanDequeue(q)
    <3>1. taken' = Unaged(q.queue[1])
      BY <1>3, <2>2 DEF Dequeue
    <3>2. /\ q' \in QueueType /\ q'.open = q.open /\ q'.awaiting = q.awaiting
          /\ q'.floor = q.floor /\ q'.queue = Tail(q.queue) /\ q.queue # << >>
      BY <1>1, <2>1, <2>2, TakeShape
    <3>3. taken' \in UnitType /\ Chained(q', published, taken')
      BY <1>1, <3>1, <3>2, TakenChained
    <3>4. ~q'.unusable \/ ~q'.open
      BY <1>1, <2>1, <2>2 DEF DequeueUnit, CanDequeue, Sound, QueueType
    <3> QED  BY <1>1, <2>1, <3>2, <3>3, <3>4 DEF IInv, FanTypeOK, Sound
  <2>3. CASE ~CanDequeue(q)
    <3>1. taken' = taken
      BY <1>3, <2>3 DEF Dequeue
    <3>2. q' = q \/ q' = QueuePurge(q)
      BY <2>1, <2>3 DEF DequeueUnit, CanDequeue
    <3>3. /\ q' \in QueueType /\ Sound(q') /\ q'.floor = q.floor /\ q'.open = q.open
          /\ q' = q \/ (q'.queue = << >> /\ q'.awaiting)
      BY <1>1, <3>2, PurgeShape DEF Sound
    <3>4. Chained(q, published, taken)'
      BY <2>1, <3>1, <3>3, PurgingStep
    <3> QED  BY <1>1, <2>1, <3>1, <3>3, <3>4 DEF IInv, FanTypeOK
  <2> QED  BY <2>2, <2>3
<1>4. CASE DequeueBackward
  <2>1. UNCHANGED <<transport, recorder, published, taken, recorded>>
        /\ (q' = q \/ q' = Unusable(q))
    BY <1>4 DEF DequeueBackward, DequeueRegressed
  <2>2. /\ q' \in QueueType /\ Sound(q') /\ q'.floor = q.floor /\ (q'.open => q.open)
        /\ q' = q \/ (q'.queue = << >> /\ q'.awaiting)
    BY <1>1, <2>1, UnusableShape DEF Sound
  <2>3. Chained(q, published, taken)'
    BY <2>1, <2>2, PurgingStep
  <2> QED  BY <1>1, <2>1, <2>2, <2>3 DEF IInv, FanTypeOK
<1>5. CASE RequireQueueRecovery
  <2>1. UNCHANGED <<transport, recorder, published, taken, recorded>>
        /\ (q' = q \/ q' = QueuePurge(q))
    BY <1>5 DEF RequireQueueRecovery, QueueRequireRecovery
  <2>2. /\ q' \in QueueType /\ Sound(q') /\ q'.floor = q.floor /\ q'.open = q.open
        /\ q' = q \/ (q'.queue = << >> /\ q'.awaiting)
    BY <1>1, <2>1, PurgeShape DEF Sound
  <2>3. Chained(q, published, taken)'
    BY <2>1, <2>2, PurgingStep
  <2> QED  BY <1>1, <2>1, <2>2, <2>3 DEF IInv, FanTypeOK
<1>6. CASE DisableTransport
  <2>1. UNCHANGED <<recorder, published, taken, recorded>> /\ transport' = FALSE
        /\ q' = (IF transport THEN QueueStop(q) ELSE q)
    BY <1>6 DEF DisableTransport
  <2>2. /\ q' \in QueueType /\ Sound(q') /\ q'.floor = q.floor /\ ~q'.open
        /\ q' = q \/ (q'.queue = << >> /\ q'.awaiting)
    BY <1>1, <2>1, StopShape
  <2>3. Chained(q, published, taken)'
    BY <2>1, <2>2, PurgingStep
  <2> QED  BY <1>1, <2>1, <2>2, <2>3 DEF IInv, FanTypeOK
<1>7. CASE DisableRecorder
  <2>1. UNCHANGED <<q, transport, published, taken, recorded>> /\ recorder' = FALSE
    BY <1>7 DEF DisableRecorder
  <2> QED  BY <1>1, <2>1 DEF IInv, FanTypeOK, Chained, Sound
<1>8. CASE Tick
  <2>1. UNCHANGED <<transport, recorder, published, taken, recorded>> /\ q' = QueueAged(q)
    BY <1>8 DEF Tick
  <2>2. /\ q' \in QueueType /\ q'.open = q.open /\ q'.awaiting = q.awaiting
        /\ q'.floor = q.floor /\ Len(q'.queue) = Len(q.queue)
        /\ q'.unusable = q.unusable
        /\ \A i \in DOMAIN q.queue :
             /\ q'.queue[i].id = q.queue[i].id
             /\ q'.queue[i].epoch = q.queue[i].epoch
             /\ q'.queue[i].idr = q.queue[i].idr
    BY <1>1, <2>1, AgedShape
  <2>3. q.queue \in Seq(EntryType) /\ q'.queue \in Seq(EntryType)
    BY <1>1, <2>2 DEF QueueType
  <2>4. /\ DOMAIN q'.queue = DOMAIN q.queue /\ (q.queue = << >> <=> q'.queue = << >>)
        /\ (q.queue # << >> => 1 \in DOMAIN q.queue)
    BY <2>2, <2>3
  <2>5. Chained(q', published, taken)
    BY <1>1, <2>2, <2>4 DEF Chained
  <2> QED  BY <1>1, <2>1, <2>2, <2>5 DEF IInv, FanTypeOK, Sound
<1>9. CASE UNCHANGED fanVars
  BY <1>9 DEF fanVars, IInv, FanTypeOK, Chained, Sound
<1> QED  BY <1>2, <1>3, <1>4, <1>5, <1>6, <1>7, <1>8, <1>9 DEF FanNext

(* IInv holds in every reachable state. *)
LEMMA Invariance == FanSpec => []IInv
BY InitInv, NextInv, PTL DEF FanSpec

-----------------------------------------------------------------------------
(* Counting up to k: if some number escaped S, a least one would, and the  *)
(* one before it would not.                                                *)
LEMMA CountUp ==
  ASSUME NEW S, NEW k \in Nat, 0 \in S,
         \A n \in 0 .. k : n \in S /\ n < k => n + 1 \in S
  PROVE  \A n \in 0 .. k : n \in S
<1> DEFINE R == {p \in Nat \X Nat : p[1] < p[2]}
           T == {n \in 0 .. k : n \notin S}
<1>1. IsWellFoundedOn(R, Nat)
  BY NatLessThanWellFounded DEF OpToRel
<1> HIDE DEF R
<1>2. T \in SUBSET Nat
  OBVIOUS
<1> SUFFICES ASSUME T # {} PROVE FALSE
  OBVIOUS
<1> HIDE DEF T
<1>3. PICK x \in T : \A y \in T : ~(<<y, x>> \in R)
  BY <1>1, <1>2, WFMin
<1>4. \A y \in T : ~(y < x)
  BY <1>2, <1>3 DEF R
<1>5. x \in 0 .. k /\ x \notin S /\ x # 0
  BY DEF T
<1>6. x - 1 \in 0 .. k /\ x - 1 < k /\ x - 1 < x
  BY <1>5
<1>7. x - 1 \in S
  BY <1>4, <1>6 DEF T
<1>8. (x - 1) + 1 = x
  BY <1>5
<1> QED  BY <1>5, <1>6, <1>7, <1>8

(* f adds up the sizes of the units of s from the front. *)
AddsUp(s, f) ==
  /\ f[0] = 0
  /\ \A n \in 1 .. Len(s) : f[n] = f[n - 1] + s[n].size

(* Bytes of a queue is what some such f ends with. *)
LEMMA BytesAddsUp ==
  ASSUME NEW s \in Seq(EntryType)
  PROVE  \E f \in [0 .. Len(s) -> Nat] : AddsUp(s, f) /\ Bytes(s) = f[Len(s)]
<1> DEFINE L == Len(s)
           next(f) == [n \in 0 .. L |-> IF n = 0 THEN 0 ELSE f[n - 1] + s[n].size]
           upto(k, g) == g[0] = 0 /\ \A n \in 1 .. k : g[n] = g[n - 1] + s[n].size
           S == {k \in Nat : \E g \in [0 .. k -> Nat] : upto(k, g)}
           sum == CHOOSE f : f = next(f)
<1>1. L \in Nat /\ \A n \in 1 .. L : s[n].size \in Nat
  <2>1. \A n \in 1 .. L : s[n] \in EntryType
    OBVIOUS
  <2>2. L \in Nat
    OBVIOUS
  <2> QED  BY <2>1, <2>2 DEF EntryType
<1>2. 0 \in S
  <2>1. [n \in 0 .. 0 |-> 0] \in [0 .. 0 -> Nat] /\ upto(0, [n \in 0 .. 0 |-> 0])
    OBVIOUS
  <2> QED  BY <2>1
<1>3. ASSUME NEW k \in 0 .. L, k \in S, k < L PROVE k + 1 \in S
  <2>1. PICK g \in [0 .. k -> Nat] : upto(k, g)
    BY <1>3
  <2> DEFINE h == [n \in 0 .. (k + 1) |-> IF n = k + 1 THEN g[k] + s[k + 1].size ELSE g[n]]
  <2>2. g[k] \in Nat /\ s[k + 1].size \in Nat /\ k \in Nat /\ k + 1 \in Nat
    BY <1>1, <1>3
  <2>3. h \in [0 .. (k + 1) -> Nat]
    BY <2>2
  <2>4. h[0] = 0
    BY <2>1, <2>2
  <2>5. ASSUME NEW n \in 1 .. (k + 1) PROVE h[n] = h[n - 1] + s[n].size
    <3>1. CASE n = k + 1
      BY <2>2, <3>1
    <3>2. CASE n # k + 1
      <4>1. n \in 1 .. k /\ n - 1 \in 0 .. k /\ n \in 0 .. (k + 1) /\ n - 1 \in 0 .. (k + 1)
        BY <2>2, <3>2
      <4>2. h[n] = g[n] /\ h[n - 1] = g[n - 1]
        BY <2>2, <3>2, <4>1
      <4> QED  BY <2>1, <4>1, <4>2
    <3> QED  BY <3>1, <3>2
  <2> HIDE DEF h
  <2>6. upto(k + 1, h)
    BY <2>4, <2>5
  <2> QED  BY <2>2, <2>3, <2>6
<1> HIDE DEF S
<1>4. L \in S
  BY <1>1, <1>2, <1>3, CountUp
<1>5. PICK g \in [0 .. L -> Nat] : upto(L, g)
  BY <1>4 DEF S
<1>6. g = next(g)
  BY <1>1, <1>5
<1>7. sum = next(sum)
  BY <1>6
<1>8. Bytes(s) = sum[L]
  BY DEF Bytes
<1> HIDE DEF sum
<1>9. /\ sum[0] = 0
      /\ \A n \in 1 .. L : sum[n] = sum[n - 1] + s[n].size
      /\ DOMAIN sum = 0 .. L
  <2>1. \A n \in 0 .. L : sum[n] = IF n = 0 THEN 0 ELSE sum[n - 1] + s[n].size
    BY <1>7
  <2>2. DOMAIN sum = 0 .. L
    BY <1>7
  <2> QED  BY <1>1, <2>1, <2>2
<1>10. \A n \in 0 .. L : sum[n] \in Nat
  <2> DEFINE T == {n \in 0 .. L : sum[n] \in Nat}
  <2>1. 0 \in T
    BY <1>1, <1>9
  <2>2. ASSUME NEW n \in 0 .. L, n \in T, n < L PROVE n + 1 \in T
    <3>1. n + 1 \in 1 .. L /\ (n + 1) - 1 = n /\ n + 1 \in 0 .. L
      BY <1>1, <2>2
    <3>2. sum[n + 1] = sum[n] + s[n + 1].size
      BY <1>9, <3>1
    <3> QED  BY <1>1, <2>2, <3>1, <3>2
  <2> HIDE DEF T
  <2>3. \A n \in 0 .. L : n \in T
    BY <1>1, <2>1, <2>2, CountUp
  <2> QED  BY <2>3 DEF T
<1>11. sum \in [0 .. L -> Nat]
  <2>1. sum = [n \in 0 .. L |-> sum[n]]
    BY <1>7
  <2> QED  BY <1>10, <2>1
<1> QED  BY <1>8, <1>9, <1>11 DEF AddsUp

(* Units of a that stand in b behind d others add as much in both. *)
LEMMA SameSizesSameSum ==
  ASSUME NEW a \in Seq(EntryType), NEW b \in Seq(EntryType), NEW d \in Nat, NEW k \in Nat,
         k <= Len(a), k + d <= Len(b), \A i \in 1 .. k : a[i].size = b[i + d].size,
         NEW f \in [0 .. Len(a) -> Nat], AddsUp(a, f),
         NEW g \in [0 .. Len(b) -> Nat], AddsUp(b, g)
  PROVE  g[k + d] = g[d] + f[k]
<1> DEFINE T == {n \in 0 .. k : g[n + d] = g[d] + f[n]}
<1>0. Len(a) \in Nat /\ Len(b) \in Nat
  OBVIOUS
<1>1. 0 \in T
  <2>1. f[0] = 0 /\ 0 + d = d /\ d \in 0 .. Len(b)
    BY <1>0 DEF AddsUp
  <2>2. g[d] \in Nat
    BY <2>1
  <2> QED  BY <2>1, <2>2
<1>2. ASSUME NEW n \in 0 .. k, n \in T, n < k PROVE n + 1 \in T
  <2>1. /\ n + 1 \in 1 .. k /\ n + 1 \in 1 .. Len(a) /\ (n + 1) - 1 = n
        /\ (n + 1) + d \in 1 .. Len(b) /\ ((n + 1) + d) - 1 = n + d /\ n + 1 \in 0 .. k
    BY <1>0, <1>2
  <2>2. f[n + 1] = f[n] + a[n + 1].size
    BY <2>1 DEF AddsUp
  <2>3. g[(n + 1) + d] = g[n + d] + b[(n + 1) + d].size
    BY <2>1 DEF AddsUp
  <2>4. a[n + 1].size = b[(n + 1) + d].size
    BY <2>1
  <2>5. a[n + 1] \in EntryType
    BY <2>1
  <2>6. f[n] \in Nat /\ g[d] \in Nat /\ a[n + 1].size \in Nat
    <3>1. n \in 0 .. Len(a) /\ d \in 0 .. Len(b)
      BY <1>0, <1>2
    <3>2. a[n + 1].size \in Nat
      BY <2>5 DEF EntryType
    <3> QED  BY <3>1, <3>2
  <2>7. g[n + d] = g[d] + f[n]
    BY <1>2
  <2> QED  BY <2>1, <2>2, <2>3, <2>4, <2>6, <2>7
<1> HIDE DEF T
<1>3. \A n \in 0 .. k : n \in T
  BY <1>1, <1>2, CountUp
<1>4. k \in 0 .. k
  OBVIOUS
<1> QED  BY <1>3, <1>4 DEF T

(* An empty queue has no bytes. *)
LEMMA NoBytes == Bytes(<< >>) = 0
<1>1. << >> \in Seq(EntryType) /\ Len(<< >>) = 0
  OBVIOUS
<1>2. PICK f \in [0 .. Len(<< >>) -> Nat] : AddsUp(<< >>, f) /\ Bytes(<< >>) = f[Len(<< >>)]
  BY <1>1, BytesAddsUp
<1> QED  BY <1>1, <1>2 DEF AddsUp

(* A unit that is appended adds its size. *)
LEMMA AppendedBytes ==
  ASSUME NEW s \in Seq(EntryType), NEW e \in EntryType
  PROVE  Bytes(Append(s, e)) = Bytes(s) + e.size
<1> DEFINE x == Append(s, e)
<1>1. /\ x \in Seq(EntryType) /\ Len(x) = Len(s) + 1 /\ x[Len(s) + 1] = e /\ Len(s) \in Nat
      /\ \A i \in 1 .. Len(s) : x[i] = s[i]
  OBVIOUS
<1> HIDE DEF x
<1>2. PICK f \in [0 .. Len(s) -> Nat] : AddsUp(s, f) /\ Bytes(s) = f[Len(s)]
  BY BytesAddsUp
<1>3. PICK g \in [0 .. Len(x) -> Nat] : AddsUp(x, g) /\ Bytes(x) = g[Len(x)]
  BY <1>1, BytesAddsUp
<1>4. g[Len(s)] = f[Len(s)]
  <2>1. /\ 0 \in Nat /\ Len(s) <= Len(s) /\ Len(s) + 0 <= Len(x)
        /\ \A i \in 1 .. Len(s) : s[i].size = x[i + 0].size
    BY <1>1
  <2>2. g[Len(s) + 0] = g[0] + f[Len(s)]
    BY <1>1, <1>2, <1>3, <2>1, SameSizesSameSum
  <2>3. g[0] = 0 /\ f[Len(s)] \in Nat
    BY <1>1, <1>3 DEF AddsUp
  <2> QED  BY <1>1, <2>2, <2>3
<1>5. g[Len(s) + 1] = g[Len(s)] + e.size
  <2>1. Len(s) + 1 \in 1 .. Len(x) /\ (Len(s) + 1) - 1 = Len(s)
    BY <1>1
  <2> QED  BY <1>1, <1>3, <2>1 DEF AddsUp
<1> QED  BY <1>1, <1>2, <1>3, <1>4, <1>5 DEF x

(* A unit that is taken leaves no more bytes than there were. *)
LEMMA TailBytes ==
  ASSUME NEW s \in Seq(EntryType), s # << >>
  PROVE  Bytes(Tail(s)) \in Nat /\ Bytes(Tail(s)) <= Bytes(s)
<1> DEFINE x == Tail(s)
<1>1. /\ x \in Seq(EntryType) /\ Len(s) \in Nat /\ Len(x) \in Nat /\ Len(s) = Len(x) + 1
      /\ \A i \in 1 .. Len(x) : x[i] = s[i + 1]
  OBVIOUS
<1> HIDE DEF x
<1>2. PICK f \in [0 .. Len(s) -> Nat] : AddsUp(s, f) /\ Bytes(s) = f[Len(s)]
  BY BytesAddsUp
<1>3. PICK g \in [0 .. Len(x) -> Nat] : AddsUp(x, g) /\ Bytes(x) = g[Len(x)]
  BY <1>1, BytesAddsUp
<1>4. f[Len(x) + 1] = f[1] + g[Len(x)]
  <2>1. /\ 1 \in Nat /\ Len(x) <= Len(x) /\ Len(x) + 1 <= Len(s)
        /\ \A i \in 1 .. Len(x) : x[i].size = s[i + 1].size
    BY <1>1
  <2> QED  BY <1>1, <1>2, <1>3, <2>1, SameSizesSameSum
<1>5. f[1] \in Nat /\ g[Len(x)] \in Nat
  BY <1>1
<1>6. Bytes(x) \in Nat /\ Bytes(x) <= Bytes(s)
  BY <1>1, <1>2, <1>3, <1>4, <1>5
<1> QED  BY <1>6 DEF x

(* Units of the same sizes have the same bytes. *)
LEMMA SameBytes ==
  ASSUME NEW s \in Seq(EntryType), NEW x \in Seq(EntryType), Len(x) = Len(s),
         \A i \in 1 .. Len(s) : x[i].size = s[i].size
  PROVE  Bytes(x) = Bytes(s)
<1>1. Len(s) \in Nat
  OBVIOUS
<1>2. PICK f \in [0 .. Len(s) -> Nat] : AddsUp(s, f) /\ Bytes(s) = f[Len(s)]
  BY BytesAddsUp
<1>3. PICK g \in [0 .. Len(x) -> Nat] : AddsUp(x, g) /\ Bytes(x) = g[Len(x)]
  BY BytesAddsUp
<1>4. g[Len(s) + 0] = g[0] + f[Len(s)]
  <2>1. /\ 0 \in Nat /\ Len(s) <= Len(s) /\ Len(s) + 0 <= Len(x)
        /\ \A i \in 1 .. Len(s) : s[i].size = x[i + 0].size
    BY <1>1
  <2> QED  BY <1>1, <1>2, <1>3, <2>1, SameSizesSameSum
<1>5. g[0] = 0 /\ f[Len(s)] \in Nat /\ Len(s) + 0 = Len(s)
  BY <1>1, <1>3 DEF AddsUp
<1> QED  BY <1>2, <1>3, <1>4, <1>5

-----------------------------------------------------------------------------
(* The queue t within its limits. *)
Within(t) == Len(t.queue) <= MaxUnits /\ Bytes(t.queue) <= MaxBytes

(* An emptied queue is. *)
LEMMA EmptyWithin ==
  ASSUME NEW t, t.queue = << >>
  PROVE  Within(t)
<1>1. MaxUnits \in Nat /\ MaxBytes \in Nat
  BY QueueAssumption
<1> QED  BY <1>1, NoBytes DEF Within

(* A push that had room stays within the limits. *)
LEMMA PushWithin ==
  ASSUME NEW t \in QueueType, NEW unit, ValidUnit(unit), HasRoom(t, unit)
  PROVE  Within(Push(t, unit))
<1> DEFINE e == Entry(unit)
<1>1. e \in EntryType /\ e.size = unit.size
  BY QueueAssumption, FanoutAssumption DEF Entry, EntryType, ValidUnit, UnitType
<1>2. Push(t, unit).queue = Append(t.queue, e) /\ t.queue \in Seq(EntryType)
  BY DEF Push, Entry, QueueType
<1> HIDE DEF e
<1>3. Len(Append(t.queue, e)) = Len(t.queue) + 1 /\ Len(t.queue) \in Nat
  BY <1>1, <1>2
<1>4. Bytes(Append(t.queue, e)) = Bytes(t.queue) + unit.size
  BY <1>1, <1>2, AppendedBytes
<1>5. Bytes(t.queue) \in Nat /\ unit.size \in Nat /\ MaxUnits \in Nat /\ MaxBytes \in Nat
  <2>1. PICK f \in [0 .. Len(t.queue) -> Nat] : Bytes(t.queue) = f[Len(t.queue)]
    BY <1>2, BytesAddsUp
  <2>2. Bytes(t.queue) \in Nat
    BY <1>3, <2>1
  <2> QED  BY <2>2, QueueAssumption DEF ValidUnit, UnitType
<1>6. Len(t.queue) < MaxUnits /\ unit.size <= MaxBytes - Bytes(t.queue)
  BY DEF HasRoom
<1> QED  BY <1>2, <1>3, <1>4, <1>5, <1>6 DEF Within

(* So does whatever enqueue makes of the queue. *)
LEMMA EnqueueWithin ==
  ASSUME NEW t \in QueueType, NEW unit, ValidUnit(unit), Within(t)
  PROVE  Within(EnqueueUnit(t, unit).q)
<1> DEFINE x == QueueExpire(t)
           r == RaiseFloor(x, unit)
           n == EnqueueUnit(t, unit).q
<1>1. x \in QueueType /\ (x = t \/ x.queue = << >>)
  BY PurgeShape DEF QueueExpire
<1>x. EnqueueUnit(t, unit) =
        IF ~t.open THEN Refusal(t, t.awaiting)
        ELSE IF x.floor # 0 /\ unit.epoch < x.floor THEN Refusal(x, x.awaiting)
        ELSE IF r.awaiting /\ ~unit.idr THEN Refusal(r, TRUE)
        ELSE PushIfRoom(r, unit)
  BY DEF EnqueueUnit, x, r
<1> HIDE DEF x
<1>2. r \in QueueType /\ (r = x \/ r.queue = << >>)
  <2> DEFINE p == QueuePurge(x)
  <2>1. p \in QueueType /\ p.queue = << >>
    BY <1>1, PurgeShape
  <2>2. r = IF x.floor # 0 /\ unit.epoch > x.floor THEN [p EXCEPT !.floor = unit.epoch] ELSE x
    BY DEF RaiseFloor
  <2>3. unit.epoch \in 0 .. MaxUnitEpoch
    BY DEF ValidUnit, UnitType
  <2> HIDE DEF p, r
  <2> QED  BY <1>1, <2>1, <2>2, <2>3 DEF QueueType
<1> HIDE DEF r
<1>3. Within(x) /\ Within(r)
  BY <1>1, <1>2, EmptyWithin
<1>4. n = t \/ n = x \/ n = r \/ n = PushIfRoom(r, unit).q
  BY <1>x DEF Refusal
<1>5. Within(PushIfRoom(r, unit).q)
  <2>1. Within(Unusable(r)) /\ Within(QueuePurge(r))
    BY <1>2, PurgeShape, UnusableShape, EmptyWithin
  <2>2. HasRoom(r, unit) => Within(Push(r, unit))
    BY <1>2, PushWithin
  <2> QED  BY <2>1, <2>2 DEF PushIfRoom, Refusal
<1> HIDE DEF n
<1>6. Within(n)
  BY <1>3, <1>4, <1>5
<1> QED  BY <1>6 DEF n

(* What publish makes of the queue stays within the limits. *)
LEMMA PublishWithin ==
  ASSUME IInv, Within(q),
         NEW epoch \in 1 .. MaxUnitEpoch, NEW idr \in BOOLEAN, NEW size \in UnitSizes,
         Publish(epoch, idr, size) \/ PublishRegressed(epoch, idr, size)
  PROVE  Within(q')
<1> DEFINE unit == [id |-> published.id + 1, epoch |-> epoch, idr |-> idr, size |-> size]
<1>1. q \in QueueType /\ published \in UnitType
  BY DEF IInv, FanTypeOK
<1>2. \/ q' = q \/ q' = EnqueueUnit(q, unit).q \/ q' = EnqueueRegressed(q).q
  BY DEF Publish, PublishRegressed, TransportBranch
<1>3. ValidUnit(unit)
  <2>1. published.id < MaxPublished
    BY DEF Publish, PublishRegressed
  <2> QED  BY <1>1, <2>1, FanoutAssumption DEF ValidUnit, UnitType
<1> HIDE DEF unit
<1>4. Within(EnqueueUnit(q, unit).q)
  BY <1>1, <1>3, EnqueueWithin
<1>5. Within(EnqueueRegressed(q).q)
  <2>1. Within(Unusable(q))
    BY <1>1, UnusableShape, EmptyWithin
  <2> QED  BY <2>1 DEF EnqueueRegressed, Refusal
<1> QED  BY <1>2, <1>4, <1>5

(* Every step does. *)
LEMMA NextWithin == IInv /\ Within(q) /\ [FanNext]_fanVars => Within(q')
<1> SUFFICES ASSUME IInv, Within(q), [FanNext]_fanVars PROVE Within(q')
  OBVIOUS
<1>1. q \in QueueType /\ q.queue \in Seq(EntryType)
  BY DEF IInv, FanTypeOK, QueueType
<1>2. Within(QueuePurge(q)) /\ Within(Unusable(q)) /\ Within(QueueStop(q))
  <2>1. QueueStop(q) = q \/ QueueStop(q).queue = << >>
    BY <1>1, StopShape
  <2> QED  BY <1>1, <2>1, PurgeShape, UnusableShape, EmptyWithin
<1>3. ASSUME NEW epoch \in 1 .. MaxUnitEpoch, NEW idr \in BOOLEAN, NEW size \in UnitSizes,
             Publish(epoch, idr, size) \/ PublishRegressed(epoch, idr, size)
      PROVE  Within(q')
  BY <1>3, PublishWithin
<1>4. CASE Dequeue
  <2>1. q' = DequeueUnit(q)
    BY <1>4 DEF Dequeue
  <2>2. CASE CanDequeue(q)
    <3>1. q'.queue = Tail(q.queue) /\ q.queue # << >>
      BY <1>1, <2>1, <2>2, TakeShape
    <3>2. Len(Tail(q.queue)) <= Len(q.queue) /\ Len(q.queue) \in Nat /\ Len(Tail(q.queue)) \in Nat
      BY <1>1, <3>1
    <3>3. Bytes(Tail(q.queue)) \in Nat /\ Bytes(Tail(q.queue)) <= Bytes(q.queue)
      BY <1>1, <3>1, TailBytes
    <3>4. Bytes(q.queue) \in Nat /\ MaxUnits \in Nat /\ MaxBytes \in Nat
      <4>1. PICK f \in [0 .. Len(q.queue) -> Nat] : Bytes(q.queue) = f[Len(q.queue)]
        BY <1>1, BytesAddsUp
      <4> QED  BY <3>2, <4>1, QueueAssumption
    <3> QED  BY <3>1, <3>2, <3>3, <3>4 DEF Within
  <2>3. CASE ~CanDequeue(q)
    BY <1>2, <2>1, <2>3 DEF DequeueUnit, CanDequeue
  <2> QED  BY <2>2, <2>3
<1>5. CASE DequeueBackward \/ RequireQueueRecovery \/ DisableTransport \/ DisableRecorder
  BY <1>2, <1>5 DEF DequeueBackward, DequeueRegressed, RequireQueueRecovery, QueueRequireRecovery,
     DisableTransport, DisableRecorder
<1>6. CASE Tick
  <2>1. q' = QueueAged(q)
    BY <1>6 DEF Tick
  <2>2. q' \in QueueType /\ Len(q'.queue) = Len(q.queue)
    BY <1>1, <2>1, AgedShape
  <2>3. q'.queue \in Seq(EntryType) /\ DOMAIN q.queue = 1 .. Len(q.queue)
    BY <1>1, <2>2 DEF QueueType
  <2>4. \A i \in 1 .. Len(q.queue) : q'.queue[i].size = q.queue[i].size
    BY <1>1, <2>1, <2>3, AgedShape
  <2>5. Bytes(q'.queue) = Bytes(q.queue)
    BY <1>1, <2>2, <2>3, <2>4, SameBytes
  <2> QED  BY <2>2, <2>5 DEF Within
<1>7. CASE UNCHANGED fanVars
  BY <1>7 DEF fanVars
<1> QED  BY <1>3, <1>4, <1>5, <1>6, <1>7 DEF FanNext

-----------------------------------------------------------------------------
(* QueueSound: the transport queue and the branches hold values of the     *)
(* code's types, the queue never exceeds its capacity in units or in       *)
(* bytes, and it holds only the epoch of its floor and nothing while       *)
(* recovery is awaited, for every capacity and every size of access unit.  *)
THEOREM QueueStaysSound == FanSpec => []QueueSound
<1>1. FanInit => Within(q)
  BY EmptyWithin DEF FanInit, EmptyQueue
<1>2. IInv /\ Within(q) /\ [FanNext]_fanVars => Within(q)'
  BY NextWithin
<1>3. IInv /\ Within(q) => QueueBounded
  BY DEF Within, QueueBounded
<1>4. IInv => QueueFenced
  BY DEF IInv, Chained, QueueFenced
<1>5. IInv => FanTypeOK
  BY DEF IInv
<1>6. IInv /\ Within(q) => QueueSound
  BY <1>3, <1>4, <1>5 DEF QueueSound
<1> QED  BY <1>1, <1>2, <1>6, Invariance, PTL DEF FanSpec

(* What the peer takes from the queue is an unbroken dependency chain, for *)
(* every capacity, age bound and number of units and epochs.               *)
THEOREM TakenUnitsChain == FanSpec => TakenChain
<1>1. IInv /\ [FanNext]_fanVars =>
        [taken' # taken =>
           /\ taken'.id > taken.id /\ taken'.epoch >= taken.epoch
           /\ \/ taken'.idr
              \/ taken'.id = taken.id + 1 /\ taken'.epoch = taken.epoch]_fanVars
  <2> SUFFICES ASSUME IInv, FanNext, taken' # taken
               PROVE  /\ taken'.id > taken.id /\ taken'.epoch >= taken.epoch
                      /\ \/ taken'.idr
                         \/ taken'.id = taken.id + 1 /\ taken'.epoch = taken.epoch
    BY DEF fanVars
  <2>1. Dequeue
    BY DEF FanNext, Publish, PublishRegressed, DequeueBackward, RequireQueueRecovery,
           DisableTransport, DisableRecorder, Tick
  <2>2. CanDequeue(q) /\ taken' = Unaged(q.queue[1]) /\ q' = DequeueUnit(q)
    BY <2>1 DEF Dequeue
  <2>3. q \in QueueType /\ published \in UnitType /\ taken \in UnitType
        /\ Chained(q, published, taken)
    BY DEF IInv, FanTypeOK
  <2>4. /\ q' \in QueueType /\ q'.open = q.open /\ q'.awaiting = q.awaiting
        /\ q'.floor = q.floor /\ q'.queue = Tail(q.queue) /\ q.queue # << >>
    BY <2>2, <2>3, TakeShape
  <2> QED  BY <2>2, <2>3, <2>4, TakenChained
<1> QED  BY <1>1, Invariance, PTL DEF FanSpec, TakenChain

(* The transport branch, once given up, stays closed and silent.           *)
THEOREM TransportEndIsFinal == FanSpec => InactiveIsFinal
<1>1. IInv /\ IInv' /\ [FanNext]_fanVars =>
        [~transport => ~transport' /\ ~q'.open /\ taken' = taken]_fanVars
  <2> SUFFICES ASSUME IInv, IInv', FanNext, ~transport
               PROVE  ~transport' /\ ~q'.open /\ taken' = taken
    BY DEF fanVars
  <2>1. ~q.open /\ (~transport' => ~q'.open)
    BY DEF IInv
  <2>2. ~CanDequeue(q)
    BY <2>1 DEF CanDequeue
  <2>3. ~transport' /\ taken' = taken
    BY <2>2 DEF FanNext, Publish, PublishRegressed, TransportBranch, Dequeue, DequeueBackward,
           RequireQueueRecovery, DisableTransport, DisableRecorder, Tick
  <2> QED  BY <2>1, <2>3
<1> QED  BY <1>1, Invariance, PTL DEF FanSpec, InactiveIsFinal
=============================================================================
