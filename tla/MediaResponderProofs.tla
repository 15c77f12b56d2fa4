----------------------- MODULE MediaResponderProofs ------------------------
(***************************************************************************)
(* Theorems about MediaResponder.                                          *)
(*                                                                         *)
(* Whatever the sender, the network and the worker thread do between the   *)
(* mutex and the transport, the pacer queue holds packets of one           *)
(* dependency epoch within its bound, the retransmission cache none of an  *)
(* epoch that was purged, and what is released for the first time never    *)
(* skips a packet and goes on in the same epoch.  Both rest on             *)
(* ResponderInv:                                                           *)
(*   Tidy     the queue is of the active epoch, and empty while an IDR is  *)
(*            awaited; the cache is of the active epoch or empty;          *)
(*   Chained  the first transmissions in the queue continue one another    *)
(*            and the last one released; an epoch released from and then   *)
(*            given up is abandoned, so that it is never taken again;      *)
(*   Abreast  while the sender may still submit, the last first            *)
(*            transmission queued or released is the last the packetizer   *)
(*            numbered: a unit that was numbered and lost has left a       *)
(*            rejection behind, or the pacer awaits an IDR.                *)
(* The last is what makes the number of the next packet fit, and why       *)
(* send_access_unit fails the peer on any rejection of any thread.         *)
(*                                                                         *)
(* RetransmissionsAreSound rests on a second invariant beside it, an       *)
(* account of every packet (AccountInv): what passed the gate again, what  *)
(* the three threads hold in their batches and what is queued is together  *)
(* no more than the cache has counted for the packet, or than the limit    *)
(* when the cache has lost it (Ledger), and nothing above the last first   *)
(* transmission.  The cache is the last packets released, without a gap    *)
(* (Stocked), and the queue's first transmissions rise from there to the   *)
(* next number (Rising), which is why no packet is stored twice with a new *)
(* count and why two wire numbers in the cache never collide.              *)
(***************************************************************************)
EXTENDS MediaResponder, SequenceTheorems, FiniteSetTheorems, WellFoundedInduction, TLAPS

RspFields ==
  {"awaiting", "stopped", "active", "abandoned", "queue", "cacheEpoch", "cache", "recEpoch",
   "lastIdr", "feedback", "nacks", "overload", "recStopped", "flooded", "epoch", "stopping",
   "rejection", "notified"}

Flag == {TRUE, FALSE}

Packet ==
  [seq : Nat, epoch : Nat, idr : Flag, start : Flag, rtx : Flag, age : Nat]

\* What the mutex protects: a queue of one epoch, and a cache of no other.
Tidy(n) ==
  /\ DOMAIN n = RspFields
  /\ n.awaiting \in BOOLEAN /\ n.stopped \in BOOLEAN /\ n.active \in Nat /\ n.abandoned \in Nat
  /\ n.queue \in Seq(Packet) /\ Len(n.queue) <= PacerCapacity
  /\ n.queue # <<>> => ~n.awaiting /\ ~n.stopped
  /\ \A i \in 1 .. Len(n.queue) : n.queue[i].epoch = n.active
  /\ DOMAIN n.cache \in SUBSET Nat /\ IsFiniteSet(DOMAIN n.cache)
  /\ DOMAIN n.cache # {} => ~n.awaiting /\ n.cacheEpoch = n.active

\* The first transmissions in the queue continue what was released, and an
\* epoch that was given up is abandoned.
Chained(n, last) ==
  /\ last.epoch <= n.active
  /\ n.awaiting => last.epoch <= n.abandoned
  /\ \A i \in FirstSent(n.queue) : Continues(n.queue[i], Preceding(last, n.queue, i))

\* The sender goes on to submit access units.
Live(pc, rejection) ==
  \/ pc \in {"idle", "begin", "outgoing"}
  \/ pc \in {"sending", "settle"} /\ rejection = NoRejection

\* What is queued last is what the packetizer numbered last.
Abreast(n, last, next) ==
  ~n.awaiting /\ ~n.stopped =>
    /\ Preceding(last, n.queue, Len(n.queue) + 1).seq = next - 1
    /\ Preceding(last, n.queue, Len(n.queue) + 1).epoch = n.active

-----------------------------------------------------------------------------
\* A nonempty set of numbers has a least one, and one below a bound a greatest.
LEMMA LeastNumber ==
  ASSUME NEW S \in SUBSET Nat, S # {}
  PROVE  \E n \in S : \A k \in S : n <= k
<1> DEFINE R == {p \in Nat \X Nat : p[1] < p[2]}
<1>1. IsWellFoundedOn(R, Nat)
  BY NatLessThanWellFounded DEF OpToRel
<1> HIDE DEF R
<1>2. PICK n \in S : \A k \in S : ~(<<k, n>> \in R)
  BY <1>1, WFMin
<1>3. \A k \in S : ~(k < n)
  BY <1>2 DEF R
<1>4. \A k \in S : k \in Nat
  OBVIOUS
<1> QED
  BY <1>3, <1>4

\* A nonempty set of numbers below a bound has a greatest one, which Largest is.
LEMMA GreatestNumber ==
  ASSUME NEW b \in Nat, NEW S \in SUBSET (0 .. b), S # {}
  PROVE  /\ \E n \in S : \A k \in S : k <= n
         /\ Largest(S) \in S /\ \A k \in S : k <= Largest(S)
<1> DEFINE T == {n \in Nat : \E k \in S : n = b - k}
<1>1. T \in SUBSET Nat /\ T # {}
  <2>1. PICK k \in S : TRUE
    OBVIOUS
  <2>2. b - k \in Nat
    BY <2>1
  <2> QED
    BY <2>1, <2>2
<1>2. PICK n \in T : \A k \in T : n <= k
  <2> HIDE DEF T
  <2> QED
    BY <1>1, LeastNumber
<1>3. PICK k \in S : n = b - k
  OBVIOUS
<1>4. \A j \in S : j <= k
  <2> TAKE j \in S
  <2>1. b - j \in T
    OBVIOUS
  <2>2. n <= b - j
    BY <1>2, <2>1
  <2> QED
    BY <1>3, <2>2
<1>5. \E i \in S : \A j \in S : j <= i
  BY <1>3, <1>4
<1> HIDE DEF T
<1> QED
  BY <1>5 DEF Largest

\* What precedes a packet.
LEMMA PrecedingFacts ==
  ASSUME NEW q \in Seq(Packet), NEW last, NEW i \in Nat
  PROVE  /\ (\A j \in FirstSent(q) : ~(j < i)) => Preceding(last, q, i) = last
         /\ \A k \in FirstSent(q) :
              k < i /\ (\A j \in FirstSent(q) : j < i => j <= k) => Preceding(last, q, i) = q[k]
         /\ \/ \A j \in FirstSent(q) : ~(j < i)
            \/ \E k \in FirstSent(q) : k < i /\ \A j \in FirstSent(q) : j < i => j <= k
<1> DEFINE earlier == {j \in FirstSent(q) : j < i}
<1>1. /\ Len(q) \in Nat /\ DOMAIN q = 1 .. Len(q)
  BY LenProperties
<1>2. earlier \in SUBSET (0 .. Len(q)) /\ FirstSent(q) \in SUBSET (1 .. Len(q))
  BY <1>1 DEF FirstSent
<1>3. Preceding(last, q, i) = IF earlier = {} THEN last ELSE q[Largest(earlier)]
  BY DEF Preceding
<1>4. ASSUME \A j \in FirstSent(q) : ~(j < i) PROVE Preceding(last, q, i) = last
  BY <1>3, <1>4
<1>5. ASSUME NEW k \in FirstSent(q), k < i, \A j \in FirstSent(q) : j < i => j <= k
      PROVE  Preceding(last, q, i) = q[k]
  <2>1. k \in earlier /\ \A j \in earlier : j <= k
    BY <1>5
  <2> HIDE DEF earlier
  <2>2. Largest(earlier) \in earlier /\ \A j \in earlier : j <= Largest(earlier)
    BY <1>1, <1>2, <2>1, GreatestNumber
  <2>3. Largest(earlier) = k
    <3>1. k <= Largest(earlier) /\ Largest(earlier) <= k
      BY <2>1, <2>2
    <3>3. Largest(earlier) \in 0 .. Len(q) /\ k \in 0 .. Len(q)
      BY <1>2, <2>1, <2>2
    <3>4. Largest(earlier) \in Nat /\ k \in Nat
      BY <1>1, <3>3
    <3>2. \A a, b \in Nat : a <= b /\ b <= a => a = b
      OBVIOUS
    <3> QED
      BY <3>1, <3>2, <3>4
  <2> QED
    BY <1>3, <2>1, <2>3
<1>6. ASSUME ~(\A j \in FirstSent(q) : ~(j < i))
      PROVE  \E k \in FirstSent(q) : k < i /\ \A j \in FirstSent(q) : j < i => j <= k
  <2>1. earlier # {}
    BY <1>6
  <2>2. PICK k \in earlier : \A j \in earlier : j <= k
    <3> HIDE DEF earlier
    <3> QED
      BY <1>1, <1>2, <2>1, GreatestNumber
  <2> QED
    BY <2>2
<1> QED
  BY <1>4, <1>5, <1>6

\* A part of the queue and the whole of it agree on what precedes a packet.
LEMMA PrecedingSame ==
  ASSUME NEW q \in Seq(Packet), NEW r \in Seq(Packet), NEW last, NEW i \in Nat,
         \A k \in 1 .. i - 1 : /\ k \in FirstSent(q) <=> k \in FirstSent(r)
                               /\ k \in FirstSent(q) => q[k] = r[k]
  PROVE  Preceding(last, q, i) = Preceding(last, r, i)
<1>1. FirstSent(q) \in SUBSET (Nat \ {0}) /\ FirstSent(r) \in SUBSET (Nat \ {0})
  BY LenProperties DEF FirstSent
<1>2. \A k \in FirstSent(q) \cup FirstSent(r) : k < i =>
        k \in FirstSent(q) /\ k \in FirstSent(r) /\ q[k] = r[k]
  <2> TAKE k \in FirstSent(q) \cup FirstSent(r)
  <2> HAVE k < i
  <2>1. k \in 1 .. i - 1
    BY <1>1
  <2> QED
    BY <2>1
<1>3. CASE \A j \in FirstSent(q) : ~(j < i)
  <2>1. \A j \in FirstSent(r) : ~(j < i)
    BY <1>2, <1>3
  <2> QED
    BY <1>3, <2>1, PrecedingFacts
<1>4. CASE \E k \in FirstSent(q) : k < i /\ \A j \in FirstSent(q) : j < i => j <= k
  <2>1. PICK k \in FirstSent(q) : k < i /\ \A j \in FirstSent(q) : j < i => j <= k
    BY <1>4
  <2>2. k \in FirstSent(r) /\ q[k] = r[k] /\ \A j \in FirstSent(r) : j < i => j <= k
    BY <1>2, <2>1
  <2>3. Preceding(last, q, i) = q[k]
    BY <2>1, PrecedingFacts
  <2>4. Preceding(last, r, i) = r[k]
    BY <2>1, <2>2, PrecedingFacts
  <2> QED
    BY <2>2, <2>3, <2>4
<1> QED
  BY <1>3, <1>4, PrecedingFacts

\* The bounds of the pacer, of the cache and of the access units are positive.
LEMMA RspBounds ==
  /\ PacerCapacity \in Nat \ {0} /\ CachePackets \in Nat \ {0}
  /\ RspMaxEpoch \in Nat \ {0} /\ AccessUnitSizes \subseteq Nat \ {0}
BY PacerAssumption, RecoveryAssumption, ResponderAssumption

\* The queue after a purge: no packets.
LEMMA NoPackets ==
  /\ <<>> \in Seq(Packet) /\ Len(<<>>) = 0 /\ DOMAIN <<>> = {} /\ FirstSent(<<>>) = {}
  /\ IsFiniteSet({}) /\ {} \in SUBSET Nat
<1>1. <<>> \in Seq(Packet) /\ Len(<<>>) = 0 /\ DOMAIN <<>> = {}
  BY EmptySeq
<1> QED
  BY <1>1, FS_EmptySet DEF FirstSent

\* purge empties the queue and the cache and gives up the epoch.
LEMMA PurgeFacts ==
  ASSUME NEW n, Tidy(n), NEW a \in BOOLEAN
  PROVE  /\ Tidy(Purge(n, a))
         /\ Purge(n, a).queue = <<>> /\ Purge(n, a).awaiting = a
         /\ Purge(n, a).active = n.active /\ Purge(n, a).stopped = n.stopped
         /\ Purge(n, a).abandoned = IF n.active # 0 THEN n.active ELSE n.abandoned
         /\ Purge(n, a).rejection = n.rejection /\ Purge(n, a).cache = <<>>
<1> DEFINE p == Purge(n, a)
<1>1. DOMAIN n = RspFields
  BY DEF Tidy
<1>2. /\ DOMAIN p = RspFields /\ p.queue = <<>> /\ p.awaiting = a /\ p.active = n.active
      /\ p.stopped = n.stopped /\ p.rejection = n.rejection /\ p.cache = <<>>
      /\ p.abandoned = IF n.active # 0 THEN n.active ELSE n.abandoned
  BY <1>1 DEF Purge, Clear, RspFields
<1> HIDE DEF p
<1>3. Tidy(p)
  <2>1. /\ p.stopped \in BOOLEAN /\ p.active \in Nat /\ p.abandoned \in Nat
    BY <1>2 DEF Tidy
  <2>2. p.queue \in Seq(Packet) /\ Len(p.queue) = 0 /\ DOMAIN p.cache = {}
    BY <1>2, NoPackets
  <2>3. Len(p.queue) <= PacerCapacity /\ \A i \in 1 .. Len(p.queue) : p.queue[i].epoch = p.active
    BY <2>2, RspBounds
  <2> QED
    BY <1>2, <2>1, <2>2, <2>3, NoPackets DEF Tidy
<1> QED
  BY <1>2, <1>3 DEF p

\* After a purge (media_pacer.cpp, purge) the epoch of what was released is given up.
LEMMA PurgeChained ==
  ASSUME NEW n, Tidy(n), NEW last \in [seq : Nat, epoch : Nat], Chained(n, last), NEW a \in BOOLEAN
  PROVE  Chained(Purge(n, a), last)
<1> DEFINE p == Purge(n, a)
<1>1. /\ p.queue = <<>> /\ p.active = n.active
      /\ p.abandoned = IF n.active # 0 THEN n.active ELSE n.abandoned
  BY PurgeFacts
<1> HIDE DEF p
<1>2. last.epoch \in Nat /\ n.active \in Nat /\ n.abandoned \in Nat /\ last.epoch <= n.active
  BY DEF Tidy, Chained
<1>3. last.epoch <= p.active
  BY <1>1, <1>2
<1>4. last.epoch <= p.abandoned
  BY <1>1, <1>2
<1>5. FirstSent(p.queue) = {}
  BY <1>1, NoPackets
<1> QED
  BY <1>3, <1>4, <1>5 DEF Chained, p

\* What a purge, or a purge that is not needed, leaves.
Given(n, p, last) ==
  /\ Tidy(p) /\ Chained(p, last) /\ p.rejection = n.rejection
  /\ p.active = n.active /\ p.stopped = n.stopped

\* A purge in the form in which the handlers use it.
LEMMA GivenPurge ==
  ASSUME NEW n, Tidy(n), NEW last \in [seq : Nat, epoch : Nat], Chained(n, last), NEW a \in BOOLEAN
  PROVE  Given(n, Purge(n, a), last) /\ Purge(n, a).awaiting = a /\ Purge(n, a).queue = <<>>
BY PurgeFacts, PurgeChained DEF Given

\* An aged queue is purged and a young one left alone.
LEMMA ExpireFacts ==
  ASSUME NEW n, Tidy(n), NEW last \in [seq : Nat, epoch : Nat], Chained(n, last)
  PROVE  /\ Given(n, ExpireIfNeeded(n), last)
         /\ ExpireIfNeeded(n) = n \/ (ExpireIfNeeded(n).awaiting /\ ExpireIfNeeded(n).queue = <<>>)
<1>1. CASE Expired(n)
  <2>1. ExpireIfNeeded(n) = Purge(n, TRUE)
    BY <1>1 DEF ExpireIfNeeded
  <2> QED
    BY <2>1, GivenPurge
<1>2. CASE ~Expired(n)
  <2>1. ExpireIfNeeded(n) = n
    BY <1>2 DEF ExpireIfNeeded
  <2> QED
    BY <2>1 DEF Given
<1> QED
  BY <1>1, <1>2

\* After require_recovery the pacer waits for an IDR or has stopped.
LEMMA RecoveryFacts ==
  ASSUME NEW n, Tidy(n), NEW last \in [seq : Nat, epoch : Nat], Chained(n, last)
  PROVE  /\ Given(n, RequireRecovery(n), last)
         /\ RequireRecovery(n).awaiting \/ RequireRecovery(n).stopped
<1>1. CASE n.stopped \/ (n.awaiting /\ n.queue = <<>>)
  <2>1. RequireRecovery(n) = n
    BY <1>1 DEF RequireRecovery
  <2> QED
    BY <1>1, <2>1 DEF Given
<1>2. CASE ~(n.stopped \/ (n.awaiting /\ n.queue = <<>>))
  <2>1. RequireRecovery(n) = Purge(n, TRUE)
    BY <1>2 DEF RequireRecovery
  <2> QED
    BY <2>1, GivenPurge
<1> QED
  BY <1>1, <1>2

\* Without new packets and released ones, nothing gets out of step.
LEMMA Fallen ==
  ASSUME NEW p, p.awaiting \/ p.stopped, NEW last, NEW next
  PROVE  Abreast(p, last, next)
BY DEF Abreast

\* A rejection is noted: nothing else changes.
LEMMA Noted ==
  ASSUME NEW n, Tidy(n), NEW reason
  PROVE  LET p == [n EXCEPT !.rejection = reason]
         IN  /\ Tidy(p) /\ p.rejection = reason /\ p.awaiting = n.awaiting /\ p.stopped = n.stopped
             /\ \A last : Chained(n, last) => Chained(p, last)
             /\ \A last, next : Abreast(n, last, next) => Abreast(p, last, next)
<1> DEFINE p == [n EXCEPT !.rejection = reason]
<1>1. DOMAIN n = RspFields
  BY DEF Tidy
<1>2. /\ DOMAIN p = RspFields /\ p.rejection = reason /\ p.awaiting = n.awaiting
      /\ p.stopped = n.stopped /\ p.active = n.active /\ p.abandoned = n.abandoned
      /\ p.queue = n.queue /\ p.cacheEpoch = n.cacheEpoch /\ p.cache = n.cache
  BY <1>1 DEF RspFields
<1> HIDE DEF p
<1>3. Tidy(p)
  BY <1>2 DEF Tidy
<1>4. \A last : Chained(n, last) => Chained(p, last)
  BY <1>2 DEF Chained
<1>5. \A last, next : Abreast(n, last, next) => Abreast(p, last, next)
  BY <1>2 DEF Abreast
<1> QED
  BY <1>2, <1>3, <1>4, <1>5 DEF p

\* Truth values as data.
LEMMA FlagFacts == TRUE \in Flag /\ FALSE \in Flag /\ \A f \in Flag : f = TRUE \/ f = FALSE
BY DEF Flag

\* The packets of one access unit.
Numbered(p, seq, epoch, n) ==
  /\ p \in Seq(Packet) /\ Len(p) = n /\ DOMAIN p = 1 .. n
  /\ \A i \in 1 .. n : p[i].seq = seq + i - 1 /\ p[i].epoch = epoch

Marked(p, idr, n) ==
  \A i \in 1 .. n : p[i].idr = idr /\ p[i].start = (i = 1) /\ p[i].rtx = FALSE

\* Nothing of an access unit is a retransmission.
AllFirst(p, n) == \A i \in 1 .. n : p[i].rtx = FALSE

\* A packet of an access unit as the packetizer makes it.
LEMMA PacketMember ==
  ASSUME NEW seq \in Nat, NEW epoch \in Nat, NEW idr \in Flag, NEW start \in Flag
  PROVE  [seq |-> seq, epoch |-> epoch, idr |-> idr, start |-> start, rtx |-> FALSE, age |-> 0]
           \in Packet
<1>1. 0 \in Nat
  OBVIOUS
<1> QED
  BY <1>1, FlagFacts, Zenon DEF Packet

\* The packets of one access unit are numbered through, and the first starts it.
LEMMA PacketsFacts ==
  ASSUME NEW seq \in Nat \ {0}, NEW epoch \in Nat \ {0}, NEW idr \in Flag, NEW n \in Nat \ {0}
  PROVE  /\ Numbered(Packets(seq, epoch, idr, n), seq, epoch, n)
         /\ Marked(Packets(seq, epoch, idr, n), idr, n)
<1> DEFINE p == Packets(seq, epoch, idr, n)
<1>1. p = [i \in 1 .. n |-> [seq |-> seq + i - 1, epoch |-> epoch, idr |-> idr, start |-> i = 1,
                             rtx |-> FALSE, age |-> 0]]
  BY DEF Packets
<1> HIDE DEF p
<1>2. ASSUME NEW i \in 1 .. n
      PROVE  /\ p[i] \in Packet /\ p[i].seq = seq + i - 1 /\ p[i].epoch = epoch
             /\ p[i].idr = idr /\ p[i].start = (i = 1) /\ p[i].rtx = FALSE
  <2>1. p[i] = [seq |-> seq + i - 1, epoch |-> epoch, idr |-> idr, start |-> i = 1,
                rtx |-> FALSE, age |-> 0]
    BY <1>1, Zenon
  <2>2. seq + i - 1 \in Nat /\ epoch \in Nat
    OBVIOUS
  <2>3. (i = 1) \in Flag
    BY Zenon DEF Flag
  <2> DEFINE z == p[i]
  <2> HIDE DEF z
  <2>10. z = [seq |-> seq + i - 1, epoch |-> epoch, idr |-> idr, start |-> i = 1,
                rtx |-> FALSE, age |-> 0]
    BY <2>1 DEF z
  <2>4. [seq |-> seq + i - 1, epoch |-> epoch, idr |-> idr, start |-> i = 1,
          rtx |-> FALSE, age |-> 0] \in Packet
    BY <2>2, <2>3, PacketMember, Zenon
  <2>5. p[i] \in Packet
    BY <2>1, <2>4, Zenon
  <2>6. z.seq = seq + i - 1
    BY <2>10, Zenon
  <2>7. z.epoch = epoch /\ z.idr = idr
    BY <2>10, Zenon
  <2>8. z.start = (i = 1)
    BY <2>10, Zenon
  <2>9. z.rtx = FALSE
    BY <2>10, Zenon
  <2> QED
    BY <2>5, <2>6, <2>7, <2>8, <2>9, Zenon DEF z
<1>3. p \in [1 .. n -> Packet]
  <2>1. \A i \in 1 .. n : p[i] \in Packet
    BY <1>2, Zenon
  <2>2. p = [i \in 1 .. n |-> p[i]]
    BY <1>1, Zenon
  <2> QED
    BY <2>1, <2>2
<1>4. p \in Seq(Packet) /\ Len(p) = n
  BY <1>3, IsASeq, LenProperties
<1>5. DOMAIN p = 1 .. n
  BY <1>1, Zenon
<1>6. Numbered(p, seq, epoch, n)
  BY <1>2, <1>4, <1>5, Zenon DEF Numbered
<1>7. Marked(p, idr, n)
  BY <1>2, Zenon DEF Marked
<1> QED
  BY <1>6, <1>7 DEF p

\* An access unit behind the queue.
Appended(q, p, r, L, n, last) ==
  /\ r \in Seq(Packet) /\ Len(r) = L + n /\ L \in Nat
  /\ \A i \in 1 .. L : /\ r[i] = q[i] /\ (i \in FirstSent(r) <=> i \in FirstSent(q))
                       /\ Preceding(last, r, i) = Preceding(last, q, i)
  /\ \A i \in 1 .. n : r[L + i] = p[i] /\ L + i \in FirstSent(r)
  /\ Preceding(last, r, L + 1) = Preceding(last, q, L + 1)
  /\ \A i \in 2 .. n + 1 : Preceding(last, r, L + i) = p[i - 1]

\* The packets of an access unit behind those of the queue.
LEMMA AppendFacts ==
  ASSUME NEW q \in Seq(Packet), NEW n \in Nat \ {0}, NEW last, NEW p \in Seq(Packet), Len(p) = n, AllFirst(p, n)
  PROVE  Appended(q, p, q \o p, Len(q), n, last)
<1> DEFINE r == q \o p
           L == Len(q)
<1>1. /\ p \in Seq(Packet) /\ Len(p) = n /\ \A i \in 1 .. n : ~p[i].rtx
  BY DEF AllFirst
<1>2. /\ r \in Seq(Packet) /\ Len(r) = L + n /\ L \in Nat
      /\ \A i \in 1 .. L + n : r[i] = IF i <= L THEN q[i] ELSE p[i - L]
  BY <1>1, ConcatProperties, LenProperties
<1>3. DOMAIN q = 1 .. L /\ DOMAIN r = 1 .. L + n
  BY <1>2, LenProperties
<1> HIDE DEF r, L
<1>4. \A i \in 1 .. L : r[i] = q[i]
  <2> TAKE i \in 1 .. L
  <2>1. i \in 1 .. L + n /\ i <= L
    BY <1>2
  <2> QED
    BY <1>2, <2>1
<1>5. \A i \in 1 .. n : r[L + i] = p[i] /\ L + i \in 1 .. L + n
  <2> TAKE i \in 1 .. n
  <2>1. L + i \in 1 .. L + n /\ ~(L + i <= L) /\ (L + i) - L = i
    BY <1>2
  <2> QED
    BY <1>2, <2>1
<1>6. \A i \in 1 .. L : i \in FirstSent(r) <=> i \in FirstSent(q)
  <2> TAKE i \in 1 .. L
  <2>1. i \in 1 .. L + n
    BY <1>2
  <2> QED
    BY <1>3, <1>4, <2>1 DEF FirstSent
<1>7. \A i \in 1 .. n : L + i \in FirstSent(r)
  BY <1>1, <1>3, <1>5 DEF FirstSent
<1>8. \A i \in 1 .. L + 1 : Preceding(last, r, i) = Preceding(last, q, i)
  <2> TAKE i \in 1 .. L + 1
  <2>1. \A k \in 1 .. i - 1 : k \in 1 .. L
    BY <1>2
  <2>2. i \in Nat
    OBVIOUS
  <2>3. \A k \in 1 .. i - 1 : /\ k \in FirstSent(r) <=> k \in FirstSent(q)
                              /\ k \in FirstSent(r) => r[k] = q[k]
    BY <1>4, <1>6, <2>1
  <2> QED
    BY <1>2, <2>2, <2>3, PrecedingSame
<1>9. \A i \in 2 .. n + 1 : Preceding(last, r, L + i) = p[i - 1]
  <2> TAKE i \in 2 .. n + 1
  <2>1. i - 1 \in 1 .. n /\ L + i \in Nat /\ L + (i - 1) < L + i
    BY <1>2
  <2>2. r[L + (i - 1)] = p[i - 1] /\ L + (i - 1) \in FirstSent(r)
    BY <1>5, <1>7, <2>1
  <2>3. \A j \in FirstSent(r) : j < L + i => j <= L + (i - 1)
    BY <1>2, <1>3 DEF FirstSent
  <2> DEFINE k == L + (i - 1)
             h == L + i
  <2>4. /\ r \in Seq(Packet) /\ h \in Nat /\ k \in FirstSent(r) /\ k < h
        /\ \A j \in FirstSent(r) : j < h => j <= k
    BY <1>2, <2>1, <2>2, <2>3
  <2>5. r[k] = p[i - 1]
    BY <2>2
  <2>6. Preceding(last, r, h) = r[k]
    <3> HIDE DEF h, k
    <3> QED
      BY <2>4, PrecedingFacts
  <2> QED
    BY <2>5, <2>6
<1>10. L + 1 \in 1 .. L + 1 /\ \A i \in 1 .. L : i \in 1 .. L + 1
  BY <1>2
<1>11. Appended(q, p, r, L, n, last)
  BY <1>2, <1>4, <1>5, <1>6, <1>7, <1>8, <1>9, <1>10 DEF Appended
<1> QED
  BY <1>11 DEF r, L

\* An access unit of which every packet may follow what is queued.
Fits(x, last, seq, epoch, idr) ==
  \/ x.awaiting /\ idr = TRUE /\ ~Abandoned(x, epoch)
  \/ ~x.awaiting /\ epoch = x.active /\ Abreast(x, last, seq)

\* An access unit that fits continues what is queued and what was released.
LEMMA EnqueueFacts ==
  ASSUME NEW x, Tidy(x), NEW last \in [seq : Nat, epoch : Nat], Chained(x, last),
         NEW seq \in Nat \ {0}, NEW epoch \in Nat \ {0}, NEW idr \in Flag, NEW n \in Nat \ {0},
         ~x.stopped, n <= PacerCapacity - Len(x.queue), Fits(x, last, seq, epoch, idr)
  PROVE  /\ Tidy(Enqueue(x, Packets(seq, epoch, idr, n)))
         /\ Chained(Enqueue(x, Packets(seq, epoch, idr, n)), last)
         /\ Abreast(Enqueue(x, Packets(seq, epoch, idr, n)), last, seq + n)
         /\ Enqueue(x, Packets(seq, epoch, idr, n)).rejection = x.rejection
<1> DEFINE p == Packets(seq, epoch, idr, n)
           q == x.queue
           r == q \o p
           L == Len(q)
           e == Enqueue(x, p)
<1>0. x.awaiting \/ epoch = x.active
  BY DEF Fits
<1>1. /\ DOMAIN x = RspFields /\ q \in Seq(Packet) /\ x.active \in Nat /\ x.abandoned \in Nat
      /\ L <= PacerCapacity /\ x.awaiting \in BOOLEAN
      /\ \A i \in 1 .. L : q[i].epoch = x.active
  BY DEF Tidy
<1>2. Numbered(p, seq, epoch, n) /\ Marked(p, idr, n)
  BY PacketsFacts
<1> HIDE DEF p
<1>21. /\ p \in Seq(Packet) /\ Len(p) = n
       /\ \A i \in 1 .. n : p[i].seq = seq + i - 1 /\ p[i].epoch = epoch
  BY <1>2 DEF Numbered
<1>22. AllFirst(p, n)
  BY <1>2, Zenon DEF Marked, AllFirst
<1>3. /\ r \in Seq(Packet) /\ Len(r) = L + n /\ L \in Nat
      /\ \A i \in 1 .. L : /\ r[i] = q[i] /\ (i \in FirstSent(r) <=> i \in FirstSent(q))
                           /\ Preceding(last, r, i) = Preceding(last, q, i)
      /\ \A i \in 1 .. n : r[L + i] = p[i] /\ L + i \in FirstSent(r)
      /\ Preceding(last, r, L + 1) = Preceding(last, q, L + 1)
      /\ \A i \in 2 .. n + 1 : Preceding(last, r, L + i) = p[i - 1]
  <2>1. Appended(q, p, r, L, n, last)
    BY <1>1, <1>21, <1>22, AppendFacts
  <2> HIDE DEF r, L
  <2> QED
    BY <2>1 DEF Appended
<1> HIDE DEF r, L
<1>4. p[1].epoch = epoch
  BY <1>21
<1>5. /\ DOMAIN e = RspFields /\ e.queue = r /\ e.active = epoch /\ ~e.awaiting
      /\ e.stopped = x.stopped /\ e.rejection = x.rejection
      /\ e.abandoned \in Nat
      /\ IF x.awaiting THEN e.cache = <<>> ELSE e.cache = x.cache /\ e.cacheEpoch = x.cacheEpoch
  <2>1. CASE x.awaiting
    <3>1. e = [ResetEpoch(x, epoch) EXCEPT !.active = epoch, !.awaiting = FALSE, !.abandoned = 0,
                                           !.queue = r]
      BY <1>4, <2>1 DEF Enqueue, e, r
    <3> QED
      BY <1>1, <2>1, <3>1 DEF ResetEpoch, RspFields
  <2>2. CASE ~x.awaiting
    <3>1. e = [x EXCEPT !.queue = r]
      BY <2>2 DEF Enqueue, e, r
    <3>2. epoch = x.active
      BY <1>0, <2>2
    <3> QED
      BY <1>1, <2>2, <3>1, <3>2 DEF RspFields
  <2> QED
    BY <1>1, <2>1, <2>2
<1>51. e.awaiting = FALSE
  <2>1. CASE x.awaiting
    BY <1>1, <2>1 DEF Enqueue, e, r, ResetEpoch, RspFields
  <2>2. CASE ~x.awaiting
    <3>1. e.awaiting = x.awaiting
      BY <1>1, <2>2 DEF Enqueue, e, r, RspFields
    <3> QED
      BY <1>1, <2>2, <3>1
  <2> QED
    BY <2>1, <2>2
<1> HIDE DEF e
<1>6. \A i \in 1 .. L + n : i \in 1 .. L \/ \E k \in 1 .. n : i = L + k
  <2> TAKE i \in 1 .. L + n
  <2>1. i \in 1 .. L \/ (i - L \in 1 .. n /\ i = L + (i - L))
    BY <1>3
  <2> QED
    BY <2>1
<1>7. x.awaiting => q = <<>> /\ L = 0
  <2>1. x.awaiting => q = <<>>
    BY DEF Tidy
  <2> QED
    BY <2>1, NoPackets DEF L
<1>8. Tidy(e)
  <2>1. \A i \in 1 .. Len(r) : r[i].epoch = epoch
    <3> TAKE i \in 1 .. Len(r)
    <3>1. CASE i \in 1 .. L
      <4>1. ~x.awaiting
        BY <1>7, <3>1
      <4> QED
        BY <1>0, <1>1, <1>3, <3>1, <4>1 DEF L
    <3>2. ASSUME NEW k \in 1 .. n, i = L + k PROVE r[i].epoch = epoch
      BY <1>21, <1>3, <3>2
    <3> QED
      BY <1>3, <1>6, <3>1, <3>2
  <2>2. /\ DOMAIN e.cache \in SUBSET Nat /\ IsFiniteSet(DOMAIN e.cache)
        /\ DOMAIN e.cache # {} => ~e.awaiting /\ e.cacheEpoch = e.active
    <3>1. CASE x.awaiting
      BY <1>5, <3>1, NoPackets
    <3>2. CASE ~x.awaiting
      <4>1. epoch = x.active
        BY <1>0, <3>2
      <4> QED
        BY <1>5, <3>2, <4>1 DEF Tidy
    <3> QED
      BY <3>1, <3>2
  <2>3. Len(r) <= PacerCapacity
    <3>1. n <= PacerCapacity - L /\ PacerCapacity \in Nat
      BY RspBounds DEF L
    <3> QED
      BY <1>3, <3>1
  <2>4. e.stopped \in BOOLEAN /\ ~e.stopped
    BY <1>5 DEF Tidy
  <2>5. e.awaiting \in BOOLEAN
    BY <1>51
  <2>6. e.active \in Nat /\ e.abandoned \in Nat /\ e.queue = r
    BY <1>5
  <2>7. \A i \in 1 .. Len(e.queue) : e.queue[i].epoch = e.active
    BY <1>5, <2>1
  <2>8. DOMAIN e = RspFields
    BY <1>5
  <2>9. r \in Seq(Packet) /\ ~e.awaiting
    BY <1>3, <1>5
  <2> QED
    BY <2>2, <2>3, <2>4, <2>5, <2>6, <2>7, <2>8, <2>9 DEF Tidy
<1>9. x.awaiting => epoch > last.epoch /\ idr = TRUE
  <2>1. CASE x.awaiting
    <3>1. last.epoch \in Nat /\ last.epoch <= x.abandoned
      BY <2>1 DEF Chained
    <3>2. ~(x.abandoned # 0 /\ epoch <= x.abandoned)
      BY <2>1 DEF Fits, Abandoned
    <3>3. idr = TRUE
      BY <2>1 DEF Fits
    <3> QED
      BY <1>1, <2>1, <3>1, <3>2, <3>3
  <2> QED
    BY <2>1
<1>10. x.awaiting => Preceding(last, q, L + 1) = last
  <2> SUFFICES ASSUME x.awaiting PROVE Preceding(last, q, L + 1) = last
    OBVIOUS
  <2>1. q = <<>> /\ L + 1 \in Nat /\ FirstSent(q) = {}
    BY <1>3, <1>7, NoPackets
  <2>2. \A j \in FirstSent(q) : ~(j < L + 1)
    BY <2>1
  <2> HIDE DEF q
  <2> QED
    BY <1>1, <2>1, <2>2, PrecedingFacts
<1>11. ~x.awaiting => /\ Preceding(last, q, L + 1).seq = seq - 1
                      /\ Preceding(last, q, L + 1).epoch = epoch
  BY DEF Fits, Abreast, L
<1>12. \A i \in FirstSent(r) : Continues(r[i], Preceding(last, r, i))
  <2> SUFFICES ASSUME NEW i \in FirstSent(r) PROVE Continues(r[i], Preceding(last, r, i))
    OBVIOUS
  <2>1. i \in 1 .. L + n
    BY <1>3, LenProperties DEF FirstSent
  <2>2. CASE i \in 1 .. L
    <3>1. i \in FirstSent(q)
      BY <1>3, <2>2
    <3> QED
      BY <1>3, <2>2, <3>1 DEF Chained
  <2>3. CASE i = L + 1
    <3>1. 1 \in 1 .. n /\ r[i] = p[1]
      BY <1>3, <2>3
    <3>2. p[1].seq = seq /\ p[1].epoch = epoch
      BY <1>21, <3>1
    <3>5. p[1].idr = idr /\ p[1].start = (1 = 1)
      BY <1>2, <3>1, Zenon DEF Marked
    <3>3. CASE x.awaiting
      BY <1>3, <1>9, <1>10, <2>3, <3>1, <3>2, <3>3, <3>5 DEF Continues
    <3>4. CASE ~x.awaiting
      <4>1. seq = (seq - 1) + 1
        OBVIOUS
      <4> QED
        BY <1>3, <1>11, <2>3, <3>1, <3>2, <3>4, <4>1 DEF Continues
    <3> QED
      BY <3>3, <3>4
  <2>4. ASSUME NEW k \in 1 .. n, i = L + k, k # 1 PROVE Continues(r[i], Preceding(last, r, i))
    <3>1. k \in 2 .. n + 1 /\ k - 1 \in 1 .. n
      BY <2>4
    <3>2. r[i] = p[k] /\ Preceding(last, r, i) = p[k - 1]
      BY <1>3, <2>4, <3>1
    <3>3. p[k].seq = seq + k - 1 /\ p[k - 1].seq = seq + (k - 1) - 1 /\ p[k].epoch = p[k - 1].epoch
      BY <1>21, <2>4, <3>1
    <3>4. seq + k - 1 = (seq + (k - 1) - 1) + 1
      BY <2>4
    <3> QED
      BY <3>2, <3>3, <3>4 DEF Continues
  <2> QED
    BY <1>6, <2>1, <2>2, <2>3, <2>4
<1>13. Chained(e, last)
  <2>1. last.epoch <= epoch
    <3>1. CASE x.awaiting
      BY <1>9, <3>1
    <3>2. CASE ~x.awaiting
      BY <1>0, <3>2 DEF Chained
    <3> QED
      BY <3>1, <3>2
  <2> QED
    BY <1>5, <1>12, <2>1 DEF Chained
<1>14. Abreast(e, last, seq + n)
  <2>1. n + 1 \in 2 .. n + 1 /\ (n + 1) - 1 = n /\ n \in 1 .. n /\ L + (n + 1) = Len(r) + 1
    BY <1>3
  <2>2. Preceding(last, r, Len(r) + 1) = p[n]
    BY <1>3, <2>1
  <2>3. p[n].seq = seq + n - 1 /\ p[n].epoch = epoch
    BY <1>21, <2>1
  <2> QED
    BY <1>5, <2>2, <2>3 DEF Abreast
<1> QED
  BY <1>5, <1>8, <1>13, <1>14 DEF e, p

\* What the admission of an access unit makes of the responder's state.
Admitted(x, r, last, seq, n) ==
  /\ Tidy(r.m) /\ Chained(r.m, last) /\ r.m.rejection = x.rejection
  /\ r.reason = NoRejection => Abreast(r.m, last, seq + n)

\* What an outcome says.
LEMMA Outcomes ==
  /\ \A x, reason, ask : Rejected(x, reason, ask).m = x /\ Rejected(x, reason, ask).reason = reason
  /\ \A x : Accepted(x).m = x /\ Accepted(x).reason = NoRejection
<1>1. ASSUME NEW x, NEW reason, NEW ask
      PROVE  Rejected(x, reason, ask).m = x /\ Rejected(x, reason, ask).reason = reason
  BY Zenon DEF Rejected
<1>2. ASSUME NEW x
      PROVE  Accepted(x).m = x /\ Accepted(x).reason = NoRejection
  BY Zenon DEF Accepted
<1> QED
  BY <1>1, <1>2

\* An access unit that may be queued is queued whole, refused, or purges.
LEMMA AdmitFittingFacts ==
  ASSUME NEW x, Tidy(x), NEW last \in [seq : Nat, epoch : Nat], Chained(x, last),
         NEW seq \in Nat \ {0}, NEW epoch \in Nat \ {0}, NEW idr \in Flag, NEW n \in Nat \ {0},
         ~x.stopped, Fits(x, last, seq, epoch, idr)
  PROVE  Admitted(x, AdmitFitting(x, Packets(seq, epoch, idr, n)), last, seq, n)
<1> DEFINE p == Packets(seq, epoch, idr, n)
           a == AdmitFitting(x, p)
<1>0. Numbered(p, seq, epoch, n)
  BY PacketsFacts
<1>10. n <= PacerCapacity - Len(x.queue) =>
         /\ Tidy(Enqueue(x, p)) /\ Chained(Enqueue(x, p), last)
         /\ Abreast(Enqueue(x, p), last, seq + n) /\ Enqueue(x, p).rejection = x.rejection
  BY EnqueueFacts
<1> SUFFICES Admitted(x, a, last, seq, n)
  OBVIOUS
<1> HIDE DEF p, a
<1>1. Len(p) = n
  BY <1>0 DEF Numbered
<1>2. CASE Len(p) > PacerCapacity
  <2>1. a = Rejected(x, "PACER_RECOVERY_ACCESS_UNIT_TOO_LARGE", TRUE)
    BY <1>2 DEF AdmitFitting, a
  <2>2. a.m = x
        /\ a.reason = "PACER_RECOVERY_ACCESS_UNIT_TOO_LARGE"
    BY <2>1, Zenon DEF Rejected
  <2> QED
    BY <2>2 DEF Admitted, NoRejection
<1>3. CASE ~(Len(p) > PacerCapacity) /\ Len(p) > PacerCapacity - Len(x.queue)
  <2>1. a =
          Rejected(Purge(x, TRUE), "PACER_CAPACITY_PURGED_DEPENDENCY_EPOCH", TRUE)
    BY <1>3 DEF AdmitFitting, a
  <2>2. Given(x, Purge(x, TRUE), last)
    BY GivenPurge
  <2>3. a.m = Purge(x, TRUE)
        /\ a.reason = "PACER_CAPACITY_PURGED_DEPENDENCY_EPOCH"
    BY <2>1, Zenon DEF Rejected
  <2> QED
    BY <2>2, <2>3 DEF Admitted, NoRejection, Given
<1>4. CASE ~(Len(p) > PacerCapacity) /\ ~(Len(p) > PacerCapacity - Len(x.queue))
  <2>1. a = Accepted(Enqueue(x, p))
    BY <1>4 DEF AdmitFitting, a
  <2>2. n <= PacerCapacity - Len(x.queue)
    <3>1. Len(x.queue) \in Nat /\ PacerCapacity \in Nat
      BY RspBounds, LenProperties DEF Tidy
    <3> QED
      BY <1>1, <1>4, <3>1
  <2>3. /\ Tidy(Enqueue(x, p)) /\ Chained(Enqueue(x, p), last)
        /\ Abreast(Enqueue(x, p), last, seq + n) /\ Enqueue(x, p).rejection = x.rejection
    BY <2>2, <1>10
  <2>4. a.m = Enqueue(x, p) /\ a.reason = NoRejection
    BY <2>1, Outcomes
  <2> QED
    BY <2>3, <2>4 DEF Admitted
<1> QED
  BY <1>2, <1>3, <1>4

\* The whole access unit is admitted behind an unbroken chain, or none of it.
LEMMA AdmitFacts ==
  ASSUME NEW x, Tidy(x), NEW last \in [seq : Nat, epoch : Nat], Chained(x, last),
         NEW seq \in Nat \ {0}, NEW epoch \in Nat \ {0}, NEW idr \in Flag, NEW n \in Nat \ {0},
         Abreast(x, last, seq)
  PROVE  Admitted(x, AdmitAccessUnit(x, Packets(seq, epoch, idr, n)), last, seq, n)
<1> DEFINE p == Packets(seq, epoch, idr, n)
           y == ExpireIfNeeded(x)
           other == Purge(y, TRUE)
           a == AdmitAccessUnit(x, p)
<1>1. p[1].epoch = epoch /\ p[1].idr = idr
  <2>1. 1 \in 1 .. n
    OBVIOUS
  <2>2. Numbered(p, seq, epoch, n) /\ Marked(p, idr, n)
    BY PacketsFacts
  <2> HIDE DEF p
  <2>3. p[1].epoch = epoch
    BY <2>1, <2>2 DEF Numbered
  <2>4. p[1].idr = idr
    BY <2>1, <2>2, Zenon DEF Marked
  <2> QED
    BY <2>3, <2>4
<1>2. /\ Given(x, y, last) /\ Tidy(y) /\ Chained(y, last) /\ y.rejection = x.rejection
      /\ Abreast(y, last, seq)
  <2>1. Given(x, y, last) /\ (y = x \/ y.awaiting)
    BY ExpireFacts
  <2> HIDE DEF y
  <2>2. Abreast(y, last, seq)
    BY <2>1, Fallen
  <2> QED
    BY <2>1, <2>2 DEF Given
<1> HIDE DEF y
<1>3. /\ Tidy(other) /\ Chained(other, last) /\ other.rejection = x.rejection
      /\ other.awaiting /\ other.stopped = y.stopped
  <2>1. Given(y, other, last) /\ other.awaiting = TRUE
    BY <1>2, GivenPurge
  <2> HIDE DEF other
  <2> QED
    BY <1>2, <2>1 DEF Given
<1> HIDE DEF other
<1> SUFFICES Admitted(x, a, last, seq, n)
  OBVIOUS
<1> HIDE DEF p
<1>4. a =
        IF y.stopped THEN Rejected(y, "PACER_STOPPED", FALSE)
        ELSE IF y.awaiting /\ ~idr
        THEN Rejected(y, "PACER_AWAITING_RECOVERY_IDR", TRUE)
        ELSE IF Abandoned(y, epoch)
        THEN Rejected(y, "PACER_ABANDONED_DEPENDENCY_EPOCH", TRUE)
        ELSE IF y.awaiting \/ epoch = y.active
        THEN AdmitFitting(y, p)
        ELSE IF ~idr \/ Abandoned(other, epoch)
        THEN Rejected(other, "PACER_NEW_EPOCH_REQUIRES_RECOVERY_IDR", TRUE)
        ELSE AdmitFitting(other, p)
  BY <1>1 DEF AdmitAccessUnit, a, y, other
<1> HIDE DEF a
<1>5. ASSUME a.reason # NoRejection, a.m = y \/ a.m = other
      PROVE  Admitted(x, a, last, seq, n)
  BY <1>2, <1>3, <1>5 DEF Admitted
<1>6. CASE y.stopped
  <2>1. a = Rejected(y, "PACER_STOPPED", FALSE)
    BY <1>4, <1>6
  <2>2. a.m = y /\ a.reason = "PACER_STOPPED"
    BY <2>1, Zenon DEF Rejected
  <2> QED
    BY <1>5, <2>2 DEF NoRejection
<1>7. CASE ~y.stopped /\ y.awaiting /\ ~idr
  <2>1. a = Rejected(y, "PACER_AWAITING_RECOVERY_IDR", TRUE)
    BY <1>4, <1>7
  <2>2. a.m = y /\ a.reason = "PACER_AWAITING_RECOVERY_IDR"
    BY <2>1, Zenon DEF Rejected
  <2> QED
    BY <1>5, <2>2 DEF NoRejection
<1>8. CASE ~y.stopped /\ ~(y.awaiting /\ ~idr) /\ Abandoned(y, epoch)
  <2>1. a = Rejected(y, "PACER_ABANDONED_DEPENDENCY_EPOCH", TRUE)
    BY <1>4, <1>8
  <2>2. a.m = y /\ a.reason = "PACER_ABANDONED_DEPENDENCY_EPOCH"
    BY <2>1, Zenon DEF Rejected
  <2> QED
    BY <1>5, <2>2 DEF NoRejection
<1>9. CASE /\ ~y.stopped /\ ~(y.awaiting /\ ~idr) /\ ~Abandoned(y, epoch)
           /\ y.awaiting \/ epoch = y.active
  <2>1. a = AdmitFitting(y, p)
    BY <1>4, <1>9
  <2>2. Fits(y, last, seq, epoch, idr)
    <3>1. idr = TRUE \/ ~idr
      BY FlagFacts
    <3> QED
      BY <1>2, <1>9, <3>1 DEF Fits
  <2>3. Admitted(y, AdmitFitting(y, p), last, seq, n)
    BY <1>2, <1>9, <2>2, AdmitFittingFacts DEF p
  <2> QED
    BY <1>2, <2>1, <2>3 DEF Admitted
<1>10. CASE /\ ~y.stopped /\ ~(y.awaiting /\ ~idr) /\ ~Abandoned(y, epoch)
            /\ ~(y.awaiting \/ epoch = y.active) /\ (~idr \/ Abandoned(other, epoch))
  <2>1. a = Rejected(other, "PACER_NEW_EPOCH_REQUIRES_RECOVERY_IDR", TRUE)
    BY <1>4, <1>10
  <2>2. a.m = other /\ a.reason = "PACER_NEW_EPOCH_REQUIRES_RECOVERY_IDR"
    BY <2>1, Zenon DEF Rejected
  <2> QED
    BY <1>5, <2>2 DEF NoRejection
<1>11. CASE /\ ~y.stopped /\ ~(y.awaiting /\ ~idr) /\ ~Abandoned(y, epoch)
            /\ ~(y.awaiting \/ epoch = y.active) /\ ~(~idr \/ Abandoned(other, epoch))
  <2>1. a = AdmitFitting(other, p)
    BY <1>4, <1>11
  <2>2. Fits(other, last, seq, epoch, idr) /\ ~other.stopped
    <3>1. idr = TRUE \/ ~idr
      BY FlagFacts
    <3> QED
      BY <1>3, <1>11, <3>1 DEF Fits
  <2>3. Admitted(other, AdmitFitting(other, p), last, seq, n)
    BY <1>3, <2>2, AdmitFittingFacts DEF p
  <2> QED
    BY <1>3, <2>1, <2>3 DEF Admitted
<1> QED
  BY <1>6, <1>7, <1>8, <1>9, <1>10, <1>11 DEF p, a

\* What precedes is the same where the first transmissions before are.
LEMMA PrecedingShift ==
  ASSUME NEW q \in Seq(Packet), NEW r \in Seq(Packet), NEW last, NEW i \in Nat, NEW j \in Nat,
         \A k \in Nat : (k \in FirstSent(q) /\ k < i) <=> (k \in FirstSent(r) /\ k < j),
         \A k \in FirstSent(q) : k < i => q[k] = r[k]
  PROVE  Preceding(last, q, i) = Preceding(last, r, j)
<1>1. FirstSent(q) \in SUBSET Nat /\ FirstSent(r) \in SUBSET Nat
  BY LenProperties DEF FirstSent
<1>2. CASE \A k \in FirstSent(q) : ~(k < i)
  <2>1. \A k \in FirstSent(r) : ~(k < j)
    BY <1>1, <1>2
  <2> QED
    BY <1>2, <2>1, PrecedingFacts
<1>3. CASE \E k \in FirstSent(q) : k < i /\ \A h \in FirstSent(q) : h < i => h <= k
  <2>1. PICK k \in FirstSent(q) : k < i /\ \A h \in FirstSent(q) : h < i => h <= k
    BY <1>3
  <2>2. k \in FirstSent(r) /\ k < j /\ q[k] = r[k]
    BY <1>1, <2>1
  <2>3. \A h \in FirstSent(r) : h < j => h <= k
    BY <1>1, <2>1
  <2>4. Preceding(last, q, i) = q[k]
    BY <2>1, PrecedingFacts
  <2>5. Preceding(last, r, j) = r[k]
    BY <2>2, <2>3, PrecedingFacts
  <2> QED
    BY <2>2, <2>4, <2>5
<1> QED
  BY <1>2, <1>3, PrecedingFacts

\* The front of the queue.
Front(q, out, n, last) ==
  /\ out \in Seq(Packet) /\ Len(out) = n
  /\ \A i \in 1 .. n : out[i] = q[i] /\ (i \in FirstSent(out) <=> i \in FirstSent(q))
  /\ \A i \in 1 .. n + 1 : Preceding(last, out, i) = Preceding(last, q, i)
  /\ FirstSent(out) \in SUBSET (1 .. n)

\* What is taken from the front of the queue, packet by packet.
LEMMA FrontFacts ==
  ASSUME NEW q \in Seq(Packet), NEW n \in 0 .. Len(q), NEW last
  PROVE  Front(q, SubSeq(q, 1, n), n, last)
<1> DEFINE out == SubSeq(q, 1, n)
<1>0. Len(q) \in Nat /\ DOMAIN q = 1 .. Len(q) /\ n \in Nat /\ \A i \in 1 .. n : i \in 1 .. Len(q)
  BY LenProperties
<1>1. \A i \in 1 .. n : q[i] \in Packet
  BY <1>0, ElementOfSeq
<1>2. /\ out \in Seq(Packet) /\ Len(out) = IF 1 <= n THEN n - 1 + 1 ELSE 0
      /\ \A i \in 1 .. n - 1 + 1 : out[i] = q[1 + i - 1]
  BY <1>0, <1>1, SubSeqProperties
<1> HIDE DEF out
<1>3. Len(out) = n /\ \A i \in 1 .. n : out[i] = q[i]
  <2>1. Len(out) = n
    BY <1>0, <1>2
  <2>2. ASSUME NEW i \in 1 .. n PROVE out[i] = q[i]
    <3>1. i \in 1 .. n - 1 + 1 /\ 1 + i - 1 = i
      BY <1>0
    <3> QED
      BY <1>2, <3>1
  <2> QED
    BY <2>1, <2>2
<1>4. DOMAIN out = 1 .. n
  BY <1>2, <1>3, LenProperties
<1>5. \A i \in 1 .. n : i \in FirstSent(out) <=> i \in FirstSent(q)
  BY <1>0, <1>3, <1>4 DEF FirstSent
<1>6. FirstSent(out) \in SUBSET (1 .. n)
  BY <1>4 DEF FirstSent
<1>7. \A i \in 1 .. n + 1 : Preceding(last, out, i) = Preceding(last, q, i)
  <2> TAKE i \in 1 .. n + 1
  <2>1. i \in Nat /\ \A k \in 1 .. i - 1 : k \in 1 .. n
    BY <1>0
  <2> QED
    BY <1>2, <1>3, <1>5, <2>1, PrecedingSame
<1>8. Front(q, out, n, last)
  BY <1>2, <1>3, <1>5, <1>6, <1>7 DEF Front
<1> QED
  BY <1>8 DEF out

\* The rest of the queue, behind the last packet of the front.
SameEnd(a, b) == a.seq = b.seq /\ a.epoch = b.epoch

Back(q, rest, n, last, after) ==
  /\ rest \in Seq(Packet) /\ Len(rest) = Len(q) - n
  /\ \A i \in 1 .. Len(q) - n : /\ rest[i] = q[n + i]
                                /\ i \in FirstSent(rest) <=> n + i \in FirstSent(q)
  /\ FirstSent(rest) \in SUBSET (1 .. Len(q) - n)
  /\ \A i \in 1 .. Len(q) - n + 1 :
       SameEnd(Preceding(after, rest, i), Preceding(last, q, n + i))

\* What stays in the queue when its front is taken.
LEMMA BackFacts ==
  ASSUME NEW q \in Seq(Packet), NEW n \in 0 .. Len(q), NEW last, NEW after,
         SameEnd(after, Preceding(last, q, n + 1))
  PROVE  Back(q, SubSeq(q, n + 1, Len(q)), n, last, after)
<1> DEFINE rest == SubSeq(q, n + 1, Len(q))
           d == Len(q) - n
<1>0. /\ Len(q) \in Nat /\ DOMAIN q = 1 .. Len(q) /\ n \in Nat /\ d \in Nat /\ n <= Len(q)
      /\ \A i \in 1 .. d : n + i \in 1 .. Len(q)
  BY LenProperties
<1>1. \A i \in n + 1 .. Len(q) : q[i] \in Packet
  BY <1>0, ElementOfSeq
<1>2. /\ rest \in Seq(Packet)
      /\ Len(rest) = IF n + 1 <= Len(q) THEN Len(q) - (n + 1) + 1 ELSE 0
      /\ \A i \in 1 .. Len(q) - (n + 1) + 1 : rest[i] = q[(n + 1) + i - 1]
  BY <1>0, <1>1, SubSeqProperties
<1> HIDE DEF rest
<1>3. Len(rest) = d /\ \A i \in 1 .. d : rest[i] = q[n + i]
  <2>1. Len(rest) = d
    <3>1. CASE n + 1 <= Len(q)
      <4>1. Len(q) - (n + 1) + 1 = Len(q) - n
        BY <1>0
      <4> QED
        BY <1>2, <3>1, <4>1
    <3>2. CASE ~(n + 1 <= Len(q))
      <4>1. Len(q) - n = 0
        <5>1. \A a, b \in Nat : a <= b /\ ~(a + 1 <= b) => b - a = 0
          OBVIOUS
        <5> QED
          BY <1>0, <3>2, <5>1
      <4> QED
        BY <1>2, <3>2, <4>1
    <3> QED
      BY <3>1, <3>2
  <2>2. ASSUME NEW i \in 1 .. d PROVE rest[i] = q[n + i]
    <3>1. i \in 1 .. Len(q) - (n + 1) + 1 /\ (n + 1) + i - 1 = n + i
      BY <1>0
    <3> QED
      BY <1>2, <3>1
  <2> QED
    BY <2>1, <2>2
<1>4. DOMAIN rest = 1 .. d
  BY <1>2, <1>3, LenProperties
<1> HIDE DEF d
<1>5. \A i \in 1 .. d : i \in FirstSent(rest) <=> n + i \in FirstSent(q)
  BY <1>0, <1>3, <1>4 DEF FirstSent
<1>6. FirstSent(rest) \in SUBSET (1 .. d)
  BY <1>4 DEF FirstSent
<1>7. FirstSent(q) \in SUBSET (1 .. Len(q))
  BY <1>0 DEF FirstSent
<1>8. ASSUME NEW i \in 1 .. d + 1
      PROVE  SameEnd(Preceding(after, rest, i), Preceding(last, q, n + i))
  <2>0. i \in Nat /\ n + i \in Nat /\ n + 1 \in Nat
    BY <1>0
  <2>1. CASE \A k \in FirstSent(rest) : ~(k < i)
    <3>1. Preceding(after, rest, i) = after
      BY <1>2, <2>0, <2>1, PrecedingFacts
    <3>2. ASSUME NEW k \in FirstSent(q), k < n + i PROVE k < n + 1
      <4> SUFFICES ASSUME ~(k < n + 1) PROVE FALSE
        OBVIOUS
      <4>1. k \in Nat /\ k - n \in 1 .. d /\ n + (k - n) = k /\ k - n < i
        BY <1>0, <1>7, <3>2 DEF d
      <4>2. k - n \in FirstSent(rest)
        BY <1>5, <3>2, <4>1
      <4> QED
        BY <2>1, <4>1, <4>2
    <3>3. \A k \in Nat : (k \in FirstSent(q) /\ k < n + i) <=> (k \in FirstSent(q) /\ k < n + 1)
      BY <1>0, <3>2
    <3>4. Preceding(last, q, n + i) = Preceding(last, q, n + 1)
      BY <2>0, <3>3, PrecedingShift
    <3> QED
      BY <3>1, <3>4
  <2>2. CASE \E k \in FirstSent(rest) : k < i /\ \A h \in FirstSent(rest) : h < i => h <= k
    <3>1. PICK k \in FirstSent(rest) : k < i /\ \A h \in FirstSent(rest) : h < i => h <= k
      BY <2>2
    <3>2. Preceding(after, rest, i) = rest[k]
      BY <1>2, <2>0, <3>1, PrecedingFacts
    <3>3. k \in 1 .. d /\ k \in Nat
      BY <1>6
    <3>4. rest[k] = q[n + k] /\ n + k \in FirstSent(q) /\ n + k < n + i
      BY <1>0, <1>3, <1>5, <3>1, <3>3
    <3>5. ASSUME NEW h \in FirstSent(q), h < n + i PROVE h <= n + k
      <4>1. h \in Nat
        BY <1>7
      <4>2. CASE h <= n
        BY <1>0, <3>3, <4>1, <4>2
      <4>3. CASE ~(h <= n)
        <5>1. h - n \in 1 .. d /\ n + (h - n) = h /\ h - n < i
          BY <1>0, <1>7, <3>5, <4>1, <4>3 DEF d
        <5>2. h - n <= k
          BY <1>5, <3>1, <3>5, <5>1
        <5> QED
          BY <1>0, <3>3, <4>1, <5>2
      <4> QED
        BY <4>2, <4>3
    <3>6. Preceding(last, q, n + i) = q[n + k]
      BY <2>0, <3>4, <3>5, PrecedingFacts
    <3> QED
      BY <3>2, <3>4, <3>6 DEF SameEnd
  <2> QED
    BY <1>2, <2>0, <2>1, <2>2, PrecedingFacts
<1>9. Back(q, rest, n, last, after)
  BY <1>2, <1>3, <1>5, <1>6, <1>8 DEF Back, d
<1> QED
  BY <1>9 DEF rest

\* A state with another cache of the active epoch, or an empty one.
LEMMA StoredFacts ==
  ASSUME NEW n, Tidy(n), NEW seqs \in SUBSET Nat, IsFiniteSet(seqs),
         seqs # {} => ~n.awaiting /\ n.cacheEpoch = n.active
  PROVE  /\ Tidy(StoreAll(n, seqs)) /\ StoreAll(n, seqs).queue = n.queue
         /\ StoreAll(n, seqs).awaiting = n.awaiting /\ StoreAll(n, seqs).stopped = n.stopped
         /\ StoreAll(n, seqs).active = n.active /\ StoreAll(n, seqs).abandoned = n.abandoned
         /\ StoreAll(n, seqs).rejection = n.rejection
<1> DEFINE all == LiveEntries(n) \cup seqs
           new == [s \in Newest(all) |->
                     IF s \in seqs THEN [age |-> 0, resent |-> 0] ELSE n.cache[s]]
           p == StoreAll(n, seqs)
<1>1. DOMAIN n = RspFields
  BY DEF Tidy
<1>2. p = [n EXCEPT !.cache = new]
  BY DEF StoreAll
<1>3. DOMAIN new = Newest(all)
  OBVIOUS
<1> HIDE DEF new, p
<1>4. /\ DOMAIN p = RspFields /\ p.queue = n.queue /\ p.awaiting = n.awaiting
      /\ p.stopped = n.stopped /\ p.active = n.active /\ p.abandoned = n.abandoned
      /\ p.rejection = n.rejection /\ p.cacheEpoch = n.cacheEpoch /\ p.cache = new
  BY <1>1, <1>2 DEF RspFields
<1>5. LiveEntries(n) \in SUBSET (DOMAIN n.cache)
  BY DEF LiveEntries
<1>6. IsFiniteSet(DOMAIN n.cache) /\ DOMAIN n.cache \in SUBSET Nat
  BY DEF Tidy
<1>7. IsFiniteSet(LiveEntries(n))
  BY <1>5, <1>6, FS_Subset
<1>8. IsFiniteSet(all)
  BY <1>7, FS_Union
<1>9. Newest(all) \in SUBSET all
  BY DEF Newest
<1>10. IsFiniteSet(DOMAIN p.cache) /\ DOMAIN p.cache \in SUBSET Nat
  <2>1. IsFiniteSet(Newest(all))
    <3> HIDE DEF all
    <3> QED
      BY <1>8, <1>9, FS_Subset
  <2>2. Newest(all) \in SUBSET Nat
    BY <1>5, <1>6, <1>9
  <2> HIDE DEF all
  <2> QED
    BY <1>3, <1>4, <2>1, <2>2
<1>11. DOMAIN p.cache # {} => ~p.awaiting /\ p.cacheEpoch = p.active
  <2> SUFFICES ASSUME DOMAIN p.cache # {} PROVE ~p.awaiting /\ p.cacheEpoch = p.active
    OBVIOUS
  <2>1. DOMAIN n.cache # {} \/ seqs # {}
    BY <1>3, <1>4, <1>5, <1>9
  <2>2. ~n.awaiting /\ n.cacheEpoch = n.active
    BY <2>1 DEF Tidy
  <2> QED
    BY <1>4, <2>2
<1>12. Tidy(p)
  BY <1>4, <1>10, <1>11 DEF Tidy
<1> QED
  BY <1>4, <1>12 DEF p

\* The sequence numbers of a finite batch.
LEMMA FirstTransmissionsFacts ==
  ASSUME NEW q \in Seq(Packet)
  PROVE  /\ FirstTransmissions(q) \in SUBSET Nat /\ IsFiniteSet(FirstTransmissions(q))
         /\ FirstTransmissions(q) # {} => FirstSent(q) # {}
<1> DEFINE S == FirstSent(q)
           T == FirstTransmissions(q)
           f == [i \in S |-> q[i].seq]
<1>1. Len(q) \in Nat /\ DOMAIN q = 1 .. Len(q) /\ \A i \in 1 .. Len(q) : q[i] \in Packet
  BY LenProperties, ElementOfSeq
<1>2. S \in SUBSET (1 .. Len(q))
  BY <1>1 DEF FirstSent
<1>3. \A i \in S : q[i].seq \in Nat
  <2>1. \A z \in Packet : z.seq \in Nat
    BY DEF Packet
  <2> HIDE DEF S
  <2> QED
    BY <1>1, <1>2, <2>1
<1>4. T = {q[i].seq : i \in S}
  BY DEF FirstTransmissions, FirstSent
<1>5. IsFiniteSet(S)
  <2>1. IsFiniteSet(1 .. Len(q))
    BY <1>1, FS_Interval
  <2> HIDE DEF S
  <2> QED
    BY <1>2, <2>1, FS_Subset
<1> HIDE DEF S, T
<1>6. f \in Surjection(S, T)
  <2>1. \A i \in S : f[i] = q[i].seq /\ f[i] \in T
    BY <1>4
  <2>2. f \in [S -> T]
    BY <2>1
  <2>3. \A t \in T : \E i \in S : f[i] = t
    BY <1>4
  <2> QED
    BY <2>2, <2>3 DEF Surjection
<1>7. IsFiniteSet(T)
  <2> HIDE DEF f
  <2> QED
    BY <1>5, <1>6, FS_Surjection
<1>8. T \in SUBSET Nat /\ (T # {} => S # {})
  BY <1>3, <1>4
<1> QED
  BY <1>7, <1>8 DEF S, T

\* What a drain releases: a front of the queue in which nothing is refused.
LEMMA ReleasedFacts ==
  ASSUME NEW x, Tidy(x), NEW n \in 0 .. Len(x.queue)
  PROVE  /\ \E k \in 0 .. n : /\ Released(x, n) = SubSeq(x.queue, 1, k)
                              /\ \A i \in 1 .. k : i \notin Refused(x, n)
                              /\ Refused(x, n) = {} => k = n
         /\ Refused(x, n) # {} => x.queue # <<>>
<1>0. Len(x.queue) \in Nat /\ x.queue \in Seq(Packet) /\ n \in Nat
  BY LenProperties DEF Tidy
<1>1. Refused(x, n) \in SUBSET (1 .. n) /\ Refused(x, n) \in SUBSET Nat
  BY DEF Refused
<1>2. CASE Refused(x, n) = {}
  <2>1. Released(x, n) = SubSeq(x.queue, 1, n) /\ n \in 0 .. n
    BY <1>0, <1>2 DEF Released
  <2> QED
    BY <1>2, <2>1
<1>3. CASE Refused(x, n) # {}
  <2> DEFINE least == CHOOSE i \in Refused(x, n) : \A j \in Refused(x, n) : i <= j
  <2>1. \E i \in Refused(x, n) : \A j \in Refused(x, n) : i <= j
    BY <1>1, <1>3, LeastNumber
  <2>2. least \in Refused(x, n) /\ \A j \in Refused(x, n) : least <= j
    BY <2>1
  <2>3. Released(x, n) = SubSeq(x.queue, 1, least - 1)
    BY <1>3 DEF Released
  <2> HIDE DEF least
  <2>4. least - 1 \in 0 .. n /\ \A i \in 1 .. least - 1 : i \notin Refused(x, n)
    BY <1>0, <1>1, <2>2
  <2>5. x.queue # <<>>
    <3>1. least \in 1 .. n
      BY <1>1, <2>2
    <3>2. Len(x.queue) # 0
      BY <1>0, <3>1
    <3> QED
      BY <3>2, NoPackets
  <2> QED
    BY <1>3, <2>3, <2>4, <2>5
<1> QED
  BY <1>2, <1>3

\* The last packet released for the first time after a drain.
After(last, out) ==
  [seq |-> Preceding(last, out, Len(out) + 1).seq,
   epoch |-> Preceding(last, out, Len(out) + 1).epoch]

\* What a drain leaves and releases.
Kept(x, p, last, after) ==
  /\ Tidy(p) /\ after \in [seq : Nat, epoch : Nat] /\ Chained(p, after)
  /\ \A next : Abreast(x, last, next) => Abreast(p, after, next)
  /\ p.rejection = NoRejection => x.rejection = NoRejection

Unbroken(out, last) ==
  \A i \in FirstSent(out) : Continues(out[i], Preceding(last, out, i))

\* The last packet before any place of the queue is of its epoch or an earlier one.
LEMMA PrecedingType ==
  ASSUME NEW x, Tidy(x), NEW last \in [seq : Nat, epoch : Nat], Chained(x, last),
         NEW i \in Nat
  PROVE  /\ Preceding(last, x.queue, i).seq \in Nat /\ Preceding(last, x.queue, i).epoch \in Nat
         /\ Preceding(last, x.queue, i).epoch <= x.active
         /\ x.awaiting => Preceding(last, x.queue, i) = last
<1> DEFINE q == x.queue
<1>1. /\ q \in Seq(Packet) /\ Len(q) \in Nat /\ DOMAIN q = 1 .. Len(q) /\ x.active \in Nat
      /\ \A k \in 1 .. Len(q) : q[k].epoch = x.active /\ q[k] \in Packet
  <2>1. q \in Seq(Packet)
    BY DEF Tidy
  <2>2. Len(q) \in Nat /\ DOMAIN q = 1 .. Len(q) /\ \A k \in 1 .. Len(q) : q[k] \in Packet
    <3> HIDE DEF q
    <3> QED
      BY <2>1, LenProperties, ElementOfSeq
  <2> QED
    BY <2>1, <2>2 DEF Tidy
<1>2. \A z \in Packet : z.seq \in Nat /\ z.epoch \in Nat
  BY DEF Packet
<1>3. last.seq \in Nat /\ last.epoch \in Nat /\ last.epoch <= x.active
  BY DEF Chained
<1>4. FirstSent(q) \in SUBSET (1 .. Len(q))
  BY <1>1 DEF FirstSent
<1>5. x.awaiting => FirstSent(q) = {}
  <2> SUFFICES ASSUME x.awaiting PROVE FirstSent(q) = {}
    OBVIOUS
  <2>1. q = <<>>
    BY DEF Tidy
  <2> HIDE DEF q
  <2> QED
    BY <2>1, NoPackets
<1> HIDE DEF q
<1>6. CASE \A j \in FirstSent(q) : ~(j < i)
  <2>1. Preceding(last, q, i) = last
    BY <1>1, <1>6, PrecedingFacts
  <2> QED
    BY <1>3, <2>1 DEF q
<1>7. CASE \E k \in FirstSent(q) : k < i /\ \A j \in FirstSent(q) : j < i => j <= k
  <2>1. PICK k \in FirstSent(q) : k < i /\ \A j \in FirstSent(q) : j < i => j <= k
    BY <1>7
  <2>2. Preceding(last, q, i) = q[k]
    BY <1>1, <2>1, PrecedingFacts
  <2>3. q[k].epoch = x.active /\ q[k].seq \in Nat
    BY <1>1, <1>2, <1>4
  <2>4. ~x.awaiting
    BY <1>5
  <2> QED
    BY <1>1, <2>2, <2>3, <2>4 DEF q
<1> QED
  BY <1>1, <1>6, <1>7, PrecedingFacts

\* The end of a packet chain is a record of a number and an epoch.
LEMMA AfterFacts ==
  ASSUME NEW last \in [seq : Nat, epoch : Nat], NEW out \in Seq(Packet),
         Preceding(last, out, Len(out) + 1).seq \in Nat,
         Preceding(last, out, Len(out) + 1).epoch \in Nat
  PROVE  /\ After(last, out) \in [seq : Nat, epoch : Nat]
         /\ After(last, out).seq = Preceding(last, out, Len(out) + 1).seq
         /\ After(last, out).epoch = Preceding(last, out, Len(out) + 1).epoch
         /\ Preceding(last, out, Len(out) + 1) = last => After(last, out) = last
BY DEF After

\* An aged queue is given up.
LEMMA DrainExpired ==
  ASSUME NEW x, Tidy(x), NEW last \in [seq : Nat, epoch : Nat], Chained(x, last), NEW n, Expired(x)
  PROVE  /\ Kept(x, Drain(x, n).m, last, After(last, Drain(x, n).out))
         /\ Unbroken(Drain(x, n).out, last) /\ Drain(x, n).out \in Seq(Packet)
<1> DEFINE p == [Purge(x, TRUE) EXCEPT !.rejection = "PACER_AGE_PURGED_DEPENDENCY_EPOCH"]
<1>1. Drain(x, n).m = p /\ Drain(x, n).out = <<>>
  <2>1. Drain(x, n) = [m |-> p, out |-> <<>>]
    BY DEF Drain
  <2> HIDE DEF p
  <2> QED
    BY <2>1
<1>2. Given(x, Purge(x, TRUE), last) /\ Purge(x, TRUE).awaiting = TRUE
  BY GivenPurge
<1>3. Tidy(Purge(x, TRUE)) /\ Chained(Purge(x, TRUE), last)
  BY <1>2 DEF Given
<1>4. /\ Tidy(p) /\ p.rejection = "PACER_AGE_PURGED_DEPENDENCY_EPOCH" /\ Chained(p, last)
      /\ p.awaiting = TRUE
  <2> DEFINE u == Purge(x, TRUE)
             r == "PACER_AGE_PURGED_DEPENDENCY_EPOCH"
  <2>1. Tidy(u) /\ Chained(u, last) /\ u.awaiting = TRUE
    BY <1>2, <1>3
  <2> HIDE DEF u, r
  <2>2. /\ Tidy([u EXCEPT !.rejection = r]) /\ [u EXCEPT !.rejection = r].rejection = r
        /\ Chained([u EXCEPT !.rejection = r], last)
        /\ [u EXCEPT !.rejection = r].awaiting = u.awaiting
    BY <2>1, Noted
  <2> QED
    BY <2>1, <2>2 DEF u, r
<1> HIDE DEF p
<1>5. <<>> \in Seq(Packet) /\ Len(<<>>) = 0 /\ FirstSent(<<>>) = {}
  BY NoPackets
<1>6. Preceding(last, <<>>, Len(<<>>) + 1) = last
  <2>1. Len(<<>>) + 1 \in Nat
    BY <1>5
  <2> QED
    BY <1>5, <2>1, PrecedingFacts
<1>7. After(last, <<>>) = last
  <2>1. last.seq \in Nat /\ last.epoch \in Nat
    OBVIOUS
  <2> QED
    BY <1>5, <1>6, <2>1, AfterFacts
<1>8. \A next : Abreast(p, last, next)
  BY <1>4, Fallen
<1>9. Kept(x, p, last, last)
  BY <1>4, <1>8 DEF Kept, NoRejection
<1> QED
  BY <1>1, <1>5, <1>7, <1>9 DEF Unbroken

\* What of the queue is released ends in a packet that a purge leaves behind.
LEMMA PurgedAfter ==
  ASSUME NEW x, Tidy(x), ~x.awaiting, ~x.stopped, NEW after \in [seq : Nat, epoch : Nat],
         after.epoch <= x.active
  PROVE  /\ Tidy(RequireRecovery(x)) /\ Chained(RequireRecovery(x), after)
         /\ RequireRecovery(x).awaiting = TRUE
<1>1. RequireRecovery(x) = Purge(x, TRUE)
  BY DEF RequireRecovery
<1> DEFINE p == Purge(x, TRUE)
<1>2. /\ Tidy(p) /\ p.queue = <<>> /\ p.awaiting = TRUE /\ p.active = x.active
      /\ p.abandoned = IF x.active # 0 THEN x.active ELSE x.abandoned
  BY PurgeFacts
<1> HIDE DEF p
<1>3. after.epoch \in Nat /\ x.active \in Nat /\ x.abandoned \in Nat
  BY DEF Tidy
<1>4. after.epoch <= p.active
  BY <1>2
<1>5. after.epoch <= p.abandoned
  BY <1>2, <1>3
<1>6. FirstSent(p.queue) = {}
  BY <1>2, NoPackets
<1>7. Chained(p, after)
  BY <1>4, <1>5, <1>6 DEF Chained
<1> QED
  BY <1>1, <1>2, <1>7 DEF p

\* The releases of a drain continue the chain, and what it leaves continues them.
LEMMA DrainRest ==
  ASSUME NEW x, Tidy(x), NEW last \in [seq : Nat, epoch : Nat], Chained(x, last),
         NEW n \in 0 .. Len(x.queue), NEW p, Tidy(p), p.queue = x.queue,
         p.awaiting = x.awaiting, p.stopped = x.stopped, p.active = x.active,
         p.abandoned = x.abandoned, p.rejection = x.rejection,
         NEW after \in [seq : Nat, epoch : Nat], SameEnd(after, Preceding(last, x.queue, n + 1))
  PROVE  Kept(x, [p EXCEPT !.queue = SubSeq(x.queue, n + 1, Len(x.queue))], last, after)
<1> DEFINE q == x.queue
           rest == SubSeq(q, n + 1, Len(q))
           e == [p EXCEPT !.queue = rest]
<1>1. q \in Seq(Packet) /\ Len(q) \in Nat /\ n \in Nat /\ n <= Len(q)
  BY LenProperties DEF Tidy
<1>2. Back(q, rest, n, last, after)
  BY <1>1, BackFacts
<1>3. DOMAIN p = RspFields
  BY DEF Tidy
<1> HIDE DEF rest
<1>4. /\ DOMAIN e = RspFields /\ e.queue = rest /\ e.awaiting = x.awaiting /\ e.stopped = x.stopped
      /\ e.active = x.active /\ e.abandoned = x.abandoned /\ e.rejection = x.rejection
      /\ e.cache = p.cache /\ e.cacheEpoch = p.cacheEpoch
  BY <1>3 DEF RspFields
<1> HIDE DEF e
<1>5. /\ rest \in Seq(Packet) /\ Len(rest) = Len(q) - n
      /\ \A i \in 1 .. Len(q) - n : rest[i] = q[n + i] /\ n + i \in 1 .. Len(q)
      /\ FirstSent(rest) \in SUBSET (1 .. Len(q) - n)
      /\ \A i \in FirstSent(rest) : n + i \in FirstSent(q)
  BY <1>1, <1>2 DEF Back
<1>6. \A i \in 1 .. Len(q) - n + 1 :
        SameEnd(Preceding(after, rest, i), Preceding(last, q, n + i))
  BY <1>2 DEF Back
<1>7. Tidy(e)
  <2>1. Len(rest) <= PacerCapacity
    <3>1. Len(q) <= PacerCapacity /\ PacerCapacity \in Nat
      BY RspBounds DEF Tidy
    <3> QED
      BY <1>1, <1>5, <3>1
  <2>2. rest # <<>> => ~e.awaiting /\ ~e.stopped
    <3> SUFFICES ASSUME rest # <<>> PROVE ~e.awaiting /\ ~e.stopped
      OBVIOUS
    <3>1. Len(rest) # 0
      BY <1>5, EmptySeq
    <3>2. Len(q) # 0
      BY <1>1, <1>5, <3>1
    <3>3. q # <<>>
      BY <3>2, NoPackets
    <3> QED
      BY <1>4, <3>3 DEF Tidy
  <2>3. \A i \in 1 .. Len(rest) : rest[i].epoch = e.active
    <3>1. \A i \in 1 .. Len(q) : q[i].epoch = x.active
      BY DEF Tidy
    <3> HIDE DEF q
    <3> QED
      BY <1>4, <1>5, <3>1
  <2>4. /\ e.awaiting \in BOOLEAN /\ e.stopped \in BOOLEAN /\ e.active \in Nat
        /\ e.abandoned \in Nat
    BY <1>4 DEF Tidy
  <2>5. /\ DOMAIN e.cache \in SUBSET Nat /\ IsFiniteSet(DOMAIN e.cache)
        /\ DOMAIN e.cache # {} => ~e.awaiting /\ e.cacheEpoch = e.active
    BY <1>4 DEF Tidy
  <2> QED
    BY <1>4, <1>5, <2>1, <2>2, <2>3, <2>4, <2>5 DEF Tidy
<1>8. after.seq \in Nat /\ after.epoch \in Nat /\ n + 1 \in Nat
  BY <1>1
<1>9. after.epoch <= x.active /\ (x.awaiting => after.epoch = last.epoch)
  <2>1. /\ Preceding(last, q, n + 1).epoch <= x.active
        /\ x.awaiting => Preceding(last, q, n + 1) = last
    BY <1>8, PrecedingType
  <2> QED
    BY <2>1 DEF SameEnd
<1>10. Chained(e, after)
  <2>1. after.epoch <= e.active
    BY <1>4, <1>9
  <2>2. e.awaiting => after.epoch <= e.abandoned
    BY <1>4, <1>9 DEF Chained
  <2>3. ASSUME NEW i \in FirstSent(rest)
        PROVE  Continues(rest[i], Preceding(after, rest, i))
    <3>1. i \in 1 .. Len(q) - n /\ i \in 1 .. Len(q) - n + 1 /\ n + i \in FirstSent(q)
      BY <1>1, <1>5
    <3>2. Continues(q[n + i], Preceding(last, q, n + i))
      BY <3>1 DEF Chained
    <3>3. SameEnd(Preceding(after, rest, i), Preceding(last, q, n + i)) /\ rest[i] = q[n + i]
      BY <1>5, <1>6, <3>1
    <3> QED
      BY <3>2, <3>3 DEF Continues, SameEnd
  <2> QED
    BY <1>4, <2>1, <2>2, <2>3 DEF Chained
<1>11. ASSUME NEW next, Abreast(x, last, next)
       PROVE  Abreast(e, after, next)
  <2> SUFFICES ASSUME ~e.awaiting, ~e.stopped
               PROVE  /\ Preceding(after, rest, Len(rest) + 1).seq = next - 1
                      /\ Preceding(after, rest, Len(rest) + 1).epoch = e.active
    BY <1>4 DEF Abreast
  <2>1. /\ Preceding(last, q, Len(q) + 1).seq = next - 1
        /\ Preceding(last, q, Len(q) + 1).epoch = x.active
    BY <1>4, <1>11 DEF Abreast
  <2>2. Len(rest) + 1 \in 1 .. Len(q) - n + 1 /\ n + (Len(rest) + 1) = Len(q) + 1
    <3>1. \A a, b \in Nat : b <= a => (a - b) + 1 \in 1 .. a - b + 1 /\ b + ((a - b) + 1) = a + 1
      OBVIOUS
    <3> HIDE DEF q
    <3>2. (Len(q) - n) + 1 \in 1 .. Len(q) - n + 1 /\ n + ((Len(q) - n) + 1) = Len(q) + 1
      BY <1>1, <3>1
    <3>3. Len(rest) = Len(q) - n
      BY <1>5
    <3> QED
      BY <3>2, <3>3
  <2>3. SameEnd(Preceding(after, rest, Len(rest) + 1), Preceding(last, q, Len(q) + 1))
    BY <1>6, <2>2
  <2> QED
    BY <1>4, <2>1, <2>3 DEF SameEnd
<1>12. Kept(x, e, last, after)
  BY <1>4, <1>7, <1>10, <1>11 DEF Kept
<1> QED
  BY <1>12 DEF e, rest

\* A drain releases a chain and leaves a queue that continues it, whether the
\* queue has aged, the cache refuses a packet, or every token is used.
LEMMA DrainFacts ==
  ASSUME NEW x, Tidy(x), NEW last \in [seq : Nat, epoch : Nat], Chained(x, last),
         NEW n \in Budgets(x)
  PROVE  /\ Kept(x, Drain(x, n).m, last, After(last, Drain(x, n).out))
         /\ Unbroken(Drain(x, n).out, last)
<1> DEFINE q == x.queue
           out == Released(x, n)
           seqs == FirstTransmissions(out)
           stored == StoreAll(x, seqs)
           after == After(last, out)
<1>1. q \in Seq(Packet) /\ Len(q) \in Nat /\ n \in 0 .. Len(q) /\ n \in Nat
  BY LenProperties DEF Tidy, Budgets
<1>2. CASE Expired(x)
  BY <1>2, DrainExpired
<1>3. CASE ~Expired(x)
  <2>1. /\ Drain(x, n).out = out
        /\ Refused(x, n) = {} =>
             Drain(x, n).m = [stored EXCEPT !.queue = SubSeq(q, n + 1, Len(q))]
        /\ Refused(x, n) # {} =>
             Drain(x, n).m = [RequireRecovery(stored) EXCEPT
                                !.rejection = "PACER_RETRANSMISSION_CACHE_REJECTED"]
    <3>1. CASE Refused(x, n) = {}
      BY <1>3, <3>1 DEF Drain
    <3>2. CASE Refused(x, n) # {}
      BY <1>3, <3>2 DEF Drain
    <3> QED
      BY <3>1, <3>2
  <2>2. PICK k \in 0 .. n : /\ out = SubSeq(q, 1, k)
                            /\ \A i \in 1 .. k : i \notin Refused(x, n)
                            /\ Refused(x, n) = {} => k = n
    BY <1>1, ReleasedFacts
  <2>3. Refused(x, n) # {} => q # <<>>
    BY <1>1, ReleasedFacts
  <2>4. k \in 0 .. Len(q) /\ k \in Nat
    BY <1>1
  <2>5. Front(q, out, k, last)
    BY <1>1, <2>2, <2>4, FrontFacts
  <2> HIDE DEF out
  <2>6. /\ out \in Seq(Packet) /\ Len(out) = k /\ FirstSent(out) \in SUBSET (1 .. k)
        /\ \A i \in 1 .. k : out[i] = q[i] /\ (i \in FirstSent(out) <=> i \in FirstSent(q))
        /\ \A i \in 1 .. k + 1 : Preceding(last, out, i) = Preceding(last, q, i)
    BY <2>5 DEF Front
  <2>7. Unbroken(out, last)
    <3>1. ASSUME NEW i \in FirstSent(out) PROVE Continues(out[i], Preceding(last, out, i))
      <4>1. i \in 1 .. k /\ i \in 1 .. k + 1
        BY <2>4, <2>6
      <4>2. i \in FirstSent(q) /\ out[i] = q[i] /\ Preceding(last, out, i) = Preceding(last, q, i)
        BY <2>6, <4>1
      <4>3. Continues(q[i], Preceding(last, q, i))
        BY <4>2 DEF Chained
      <4> QED
        BY <4>2, <4>3
    <3> QED
      BY <3>1 DEF Unbroken
  <2>8. seqs \in SUBSET Nat /\ IsFiniteSet(seqs) /\ (seqs # {} => FirstSent(out) # {})
    BY <2>6, FirstTransmissionsFacts
  <2>9. seqs # {} => ~x.awaiting /\ x.cacheEpoch = x.active
    <3> SUFFICES ASSUME seqs # {} PROVE ~x.awaiting /\ x.cacheEpoch = x.active
      OBVIOUS
    <3>1. PICK i \in FirstSent(out) : TRUE
      BY <2>8
    <3>2. i \in 1 .. k /\ i \in FirstSent(q) /\ i \in 1 .. n /\ i \in 1 .. Len(q)
      BY <1>1, <2>4, <2>6
    <3>3. i \notin Refused(x, n) /\ ~q[i].rtx
      BY <2>2, <3>2 DEF FirstSent
    <3>4. Storable(x, q[i])
      BY <3>2, <3>3 DEF Refused
    <3>5. q[i].epoch = x.active /\ q[i].epoch = x.cacheEpoch
      BY <3>2, <3>4 DEF Storable, Tidy
    <3>6. q # <<>>
      BY <3>2, NoPackets
    <3> QED
      BY <3>5, <3>6 DEF Tidy
  <2> HIDE DEF seqs
  <2>10. /\ Tidy(stored) /\ stored.queue = q /\ stored.awaiting = x.awaiting
         /\ stored.stopped = x.stopped /\ stored.active = x.active
         /\ stored.abandoned = x.abandoned /\ stored.rejection = x.rejection
    BY <2>8, <2>9, StoredFacts
  <2> HIDE DEF stored
  <2>11. /\ Preceding(last, out, Len(out) + 1) = Preceding(last, q, k + 1)
         /\ Preceding(last, q, k + 1).seq \in Nat /\ Preceding(last, q, k + 1).epoch \in Nat
         /\ Preceding(last, q, k + 1).epoch <= x.active
    <3>1. k + 1 \in Nat /\ k + 1 \in 1 .. k + 1
      BY <2>4
    <3>2. Preceding(last, out, k + 1) = Preceding(last, q, k + 1)
      BY <2>6, <3>1
    <3>3. /\ Preceding(last, q, k + 1).seq \in Nat /\ Preceding(last, q, k + 1).epoch \in Nat
          /\ Preceding(last, q, k + 1).epoch <= x.active
      BY <3>1, PrecedingType
    <3> QED
      BY <2>6, <3>2, <3>3
  <2>12. /\ after \in [seq : Nat, epoch : Nat] /\ SameEnd(after, Preceding(last, q, k + 1))
         /\ after.epoch <= x.active
    BY <2>6, <2>11, AfterFacts DEF SameEnd
  <2> HIDE DEF after
  <2>13. CASE Refused(x, n) = {}
    <3>1. k = n
      BY <2>2, <2>13
    <3>2. Kept(x, [stored EXCEPT !.queue = SubSeq(q, n + 1, Len(q))], last, after)
      BY <1>1, <2>10, <2>12, <3>1, DrainRest
    <3> QED
      BY <2>1, <2>7, <2>13, <3>2 DEF after
  <2>14. CASE Refused(x, n) # {}
    <3>1. ~x.awaiting /\ ~x.stopped
      BY <2>3, <2>14 DEF Tidy
    <3> DEFINE u == RequireRecovery(stored)
               r == "PACER_RETRANSMISSION_CACHE_REJECTED"
               p == [u EXCEPT !.rejection = r]
    <3>2. Tidy(u) /\ Chained(u, after) /\ u.awaiting = TRUE
      BY <2>10, <2>12, <3>1, PurgedAfter
    <3> HIDE DEF u, r
    <3>3. Tidy(p) /\ p.rejection = r /\ Chained(p, after) /\ p.awaiting = u.awaiting
      BY <3>2, Noted
    <3> HIDE DEF p
    <3>4. \A next : Abreast(p, after, next)
      BY <3>2, <3>3, Fallen
    <3>5. Kept(x, p, last, after)
      BY <2>12, <3>3, <3>4 DEF Kept, r, NoRejection
    <3>6. Drain(x, n).m = p
      BY <2>1, <2>14 DEF p, u, r
    <3> QED
      BY <2>1, <2>7, <3>5, <3>6 DEF after
  <2> QED
    BY <2>13, <2>14
<1> QED
  BY <1>2, <1>3

\* What feedback and epochs of the recovery controller leave alone: the
\* queue and the state of the pacer; of the cache they only drop entries.
Beside(n, x) ==
  /\ DOMAIN x = RspFields /\ x.queue = n.queue /\ x.awaiting = n.awaiting
  /\ x.stopped = n.stopped /\ x.active = n.active /\ x.abandoned = n.abandoned
  /\ x.rejection = n.rejection
  /\ \/ DOMAIN x.cache = {}
     \/ x.cacheEpoch = n.cacheEpoch /\ DOMAIN x.cache \subseteq DOMAIN n.cache

\* A state that is not touched.
LEMMA BesideItself ==
  ASSUME NEW n, DOMAIN n = RspFields
  PROVE  Beside(n, n)
BY DEF Beside

\* One step of the controller after another.
LEMMA BesideBeside ==
  ASSUME NEW n, NEW x, NEW y, Beside(n, x), Beside(x, y)
  PROVE  Beside(n, y)
BY DEF Beside

\* What the controller leaves of the state is as sound as the state was.
LEMMA BesideKeeps ==
  ASSUME NEW n, Tidy(n), NEW x, Beside(n, x)
  PROVE  /\ Tidy(x) /\ x.rejection = n.rejection
         /\ IsFiniteSet(DOMAIN x.cache) /\ DOMAIN x.cache \in SUBSET Nat
         /\ \A last : Chained(n, last) => Chained(x, last)
         /\ \A last, next : Abreast(n, last, next) => Abreast(x, last, next)
<1>1. /\ DOMAIN x.cache \in SUBSET Nat /\ IsFiniteSet(DOMAIN x.cache)
      /\ DOMAIN x.cache # {} => ~x.awaiting /\ x.cacheEpoch = x.active
  <2>1. CASE DOMAIN x.cache = {}
    <3>1. {} \in SUBSET Nat /\ IsFiniteSet({})
      BY NoPackets
    <3> QED
      BY <2>1, <3>1
  <2>2. CASE x.cacheEpoch = n.cacheEpoch /\ DOMAIN x.cache \subseteq DOMAIN n.cache
    <3>1. /\ DOMAIN n.cache \in SUBSET Nat /\ IsFiniteSet(DOMAIN n.cache)
          /\ DOMAIN n.cache # {} => ~n.awaiting /\ n.cacheEpoch = n.active
      BY DEF Tidy
    <3>2. IsFiniteSet(DOMAIN x.cache)
      BY <2>2, <3>1, FS_Subset
    <3> QED
      BY <2>2, <3>1, <3>2 DEF Beside
  <2> QED
    BY <2>1, <2>2 DEF Beside
<1>2. Tidy(x)
  BY <1>1 DEF Beside, Tidy
<1>3. \A last : Chained(n, last) => Chained(x, last)
  BY DEF Beside, Chained
<1>4. \A last, next : Abreast(n, last, next) => Abreast(x, last, next)
  BY DEF Beside, Abreast
<1> QED
  BY <1>1, <1>2, <1>3, <1>4 DEF Beside

\* The steps of the retransmission cache and of the recovery controller.
LEMMA BesideCache ==
  ASSUME NEW n, DOMAIN n = RspFields
  PROVE  /\ Beside(n, Clear(n)) /\ Beside(n, EvictExpired(n))
         /\ \A epoch : Beside(n, ResetEpoch(n, epoch))
         /\ \A seqs : Beside(n, CountRetransmissions(n, seqs))
<1>0. DOMAIN <<>> = {}
  BY NoPackets
<1>1. Beside(n, Clear(n))
  BY <1>0 DEF Beside, Clear, RspFields
<1>2. Beside(n, EvictExpired(n))
  <2> DEFINE c == [s \in LiveEntries(n) |-> n.cache[s]]
  <2>1. DOMAIN c \subseteq DOMAIN n.cache
    BY DEF LiveEntries
  <2> HIDE DEF c
  <2>2. Beside(n, [n EXCEPT !.cache = c])
    BY <2>1 DEF Beside, RspFields
  <2> QED
    BY <2>2 DEF EvictExpired, c
<1>3. ASSUME NEW epoch PROVE Beside(n, ResetEpoch(n, epoch))
  BY <1>0 DEF Beside, ResetEpoch, RspFields
<1>4. ASSUME NEW seqs PROVE Beside(n, CountRetransmissions(n, seqs))
  <2> DEFINE e == EvictExpired(n)
             c == [s \in LiveEntries(n) |->
                     IF s \in seqs THEN [n.cache[s] EXCEPT !.resent = @ + 1] ELSE n.cache[s]]
  <2>1. DOMAIN c \subseteq DOMAIN n.cache
    BY DEF LiveEntries
  <2>2. e = [n EXCEPT !.cache = [s \in LiveEntries(n) |-> n.cache[s]]]
    BY DEF EvictExpired
  <2>3. DOMAIN e = RspFields /\ e.queue = n.queue /\ e.awaiting = n.awaiting
        /\ e.stopped = n.stopped /\ e.active = n.active /\ e.abandoned = n.abandoned
        /\ e.rejection = n.rejection /\ e.cacheEpoch = n.cacheEpoch
    BY <2>2 DEF RspFields
  <2> HIDE DEF c, e
  <2>4. Beside(n, [e EXCEPT !.cache = c])
    BY <2>1, <2>3 DEF Beside, RspFields
  <2>5. CountRetransmissions(n, seqs) = [e EXCEPT !.cache = c]
    BY DEF CountRetransmissions, c, e
  <2> QED
    BY <2>4, <2>5
<1> QED
  BY <1>1, <1>2, <1>3, <1>4

\* The steps of the recovery controller (rtp_transport.cpp).
LEMMA BesideRecovery ==
  ASSUME NEW n, DOMAIN n = RspFields
  PROVE  /\ Beside(n, RequestForcedIdr(n)) /\ Beside(n, FloodExceeded(n))
         /\ Beside(n, FloodRelaxed(n)) /\ Beside(n, CountFeedback(n))
         /\ \A admitted : Beside(n, CountNacks(n, admitted))
<1>0. Beside(n, n)
  BY BesideItself
<1>1. Beside(n, RequestForcedIdr(n))
  <2>1. Beside(n, [n EXCEPT !.lastIdr = 0])
    BY DEF Beside, RspFields
  <2> QED
    BY <1>0, <2>1 DEF RequestForcedIdr
<1>2. Beside(n, FloodExceeded(n))
  <2>1. Beside(n, Clear(n))
    BY BesideCache
  <2> DEFINE c == Clear(n)
  <2>2. DOMAIN c = RspFields
    BY <2>1 DEF Beside
  <2> HIDE DEF c
  <2>3. Beside(c, [c EXCEPT !.flooded = TRUE, !.recStopped = TRUE])
    BY <2>2 DEF Beside, RspFields
  <2>4. Beside(n, [c EXCEPT !.flooded = TRUE, !.recStopped = TRUE])
    BY <2>1, <2>3, BesideBeside DEF c
  <2>5. Beside(n, [n EXCEPT !.overload = 0])
    BY DEF Beside, RspFields
  <2>6. CASE n.overload # NoOverload /\ n.overload >= FloodTime
    BY <2>4, <2>6 DEF FloodExceeded, c
  <2>7. CASE ~(n.overload # NoOverload /\ n.overload >= FloodTime)
    BY <1>0, <2>5, <2>7 DEF FloodExceeded
  <2> QED
    BY <2>6, <2>7
<1>3. Beside(n, FloodRelaxed(n))
  <2>1. Beside(n, [n EXCEPT !.overload = NoOverload])
    BY DEF Beside, RspFields
  <2> QED
    BY <1>0, <2>1 DEF FloodRelaxed
<1>4. Beside(n, CountFeedback(n))
  <2> DEFINE f == RecentFeedback(n)
  <2> HIDE DEF f
  <2>1. Beside(n, [n EXCEPT !.feedback = f])
    BY DEF Beside, RspFields
  <2> QED
    BY <2>1 DEF CountFeedback, f
<1>5. ASSUME NEW admitted PROVE Beside(n, CountNacks(n, admitted))
  <2> DEFINE f == [i \in RecentNacks(n) \cup admitted |-> IF i \in admitted THEN 0 ELSE n.nacks[i]]
  <2> HIDE DEF f
  <2>1. Beside(n, [n EXCEPT !.nacks = f])
    BY DEF Beside, RspFields
  <2> QED
    BY <2>1 DEF CountNacks, f
<1> QED
  BY <1>1, <1>2, <1>3, <1>4, <1>5

\* A feedback message is counted, whether it is admitted or not.
LEMMA BesideFeedback ==
  ASSUME NEW n, DOMAIN n = RspFields
  PROVE  Beside(n, AdmitFeedback(n))
<1> DEFINE c == CountFeedback(n)
<1>1. Beside(n, c) /\ DOMAIN c = RspFields
  BY BesideRecovery DEF Beside
<1> HIDE DEF c
<1>2. Beside(c, FloodRelaxed(c)) /\ Beside(c, FloodExceeded(c))
  BY <1>1, BesideRecovery
<1>3. Beside(n, FloodRelaxed(c)) /\ Beside(n, FloodExceeded(c))
  BY <1>1, <1>2, BesideBeside
<1> QED
  BY <1>3 DEF AdmitFeedback, c

\* A decision of the recovery controller: what it leaves, and packets of the cache.
Decided(n, d) == Beside(n, d.m) /\ d.resend \subseteq DOMAIN n.cache

\* A decision made of a state and of entries of the cache.
LEMMA DecisionFacts ==
  ASSUME NEW n, NEW x, Beside(n, x), NEW S, S \subseteq DOMAIN n.cache, NEW idr
  PROVE  Decided(n, Decision(x, S, idr))
<1>1. Decision(x, S, idr).m = x /\ Decision(x, S, idr).resend = S
  BY Zenon DEF Decision
<1> QED
  BY <1>1 DEF Decided

\* handle_pli leaves the pacer alone and retransmits nothing.
LEMMA PliFacts ==
  ASSUME NEW n, DOMAIN n = RspFields, NEW epoch
  PROVE  Decided(n, HandlePli(n, epoch))
<1> DEFINE f == AdmitFeedback(n)
           g == RequestForcedIdr(f)
           ask == MayRequestIdr(f)
<1>1. Beside(n, f) /\ DOMAIN f = RspFields /\ Beside(n, n)
  BY BesideFeedback, BesideItself DEF Beside
<1>2. Beside(n, g)
  <2> HIDE DEF f
  <2>1. Beside(f, RequestForcedIdr(f))
    BY <1>1, BesideRecovery
  <2> QED
    BY <1>1, <2>1, BesideBeside
<1>3. \/ HandlePli(n, epoch) = Decision(n, {}, FALSE)
      \/ HandlePli(n, epoch) = Decision(f, {}, FALSE)
      \/ HandlePli(n, epoch) = Decision(g, {}, ask)
  <2> HIDE DEF f
  <2>1. HandlePli(n, epoch) = IF Terminated(n) THEN Decision(n, {}, FALSE)
          ELSE IF ~AdmitsFeedback(n) \/ epoch # n.recEpoch THEN Decision(f, {}, FALSE)
          ELSE Decision(g, {}, ask)
    BY DEF HandlePli, f
  <2> HIDE DEF g, ask
  <2> QED
    BY <2>1
<1> HIDE DEF f, g, ask
<1> QED
  BY <1>1, <1>2, <1>3, DecisionFacts

\* What is retransmitted is in the cache.
LEMMA RetransmittedFacts ==
  ASSUME NEW n, NEW epoch, NEW admitted
  PROVE  Retransmitted(n, epoch, admitted) \subseteq DOMAIN n.cache
BY DEF Retransmitted, Matches, LiveEntries

\* One generic NACK, with all its identifiers resolved.
LEMMA ResolveFacts ==
  ASSUME NEW n, DOMAIN n = RspFields, NEW f, Beside(n, f), NEW epoch, NEW ids, NEW admitted,
         NEW lost
  PROVE  Decided(n, ResolveNack(f, epoch, ids, admitted, lost))
<1> DEFINE resend == Retransmitted(f, epoch, admitted \ lost)
           c == CountRetransmissions(f, resend)
           counted == CountNacks(c, admitted)
           after == IF admitted # ids THEN FloodExceeded(counted) ELSE counted
           g == RequestForcedIdr(after)
           ask == MayRequestIdr(after)
<1>1. resend \subseteq DOMAIN n.cache
  <2>1. resend \subseteq DOMAIN f.cache
    BY RetransmittedFacts
  <2> HIDE DEF resend
  <2> QED
    BY <2>1 DEF Beside
<1>2. \/ ResolveNack(f, epoch, ids, admitted, lost) = Decision(g, resend, ask)
      \/ ResolveNack(f, epoch, ids, admitted, lost) = Decision(after, resend, FALSE)
  <2>1. CASE NeedsRecovery(f, epoch, admitted \ lost)
    BY <2>1 DEF ResolveNack
  <2>2. CASE ~NeedsRecovery(f, epoch, admitted \ lost)
    BY <2>2 DEF ResolveNack
  <2> QED
    BY <2>1, <2>2
<1> HIDE DEF resend
<1>3. Beside(n, c) /\ DOMAIN c = RspFields
  <2>1. DOMAIN f = RspFields
    BY DEF Beside
  <2>2. Beside(f, c)
    BY <2>1, BesideCache
  <2> HIDE DEF c
  <2> QED
    BY <2>2, BesideBeside DEF Beside
<1> HIDE DEF c
<1>4. Beside(n, counted) /\ DOMAIN counted = RspFields
  <2>1. Beside(c, counted)
    BY <1>3, BesideRecovery
  <2> HIDE DEF counted
  <2> QED
    BY <1>3, <2>1, BesideBeside DEF Beside
<1> HIDE DEF counted
<1>5. Beside(n, after) /\ DOMAIN after = RspFields
  <2>1. Beside(counted, FloodExceeded(counted))
    BY <1>4, BesideRecovery
  <2>2. Beside(n, FloodExceeded(counted))
    BY <1>4, <2>1, BesideBeside
  <2>3. Beside(n, after)
    BY <1>4, <2>2
  <2> HIDE DEF after
  <2> QED
    BY <2>3 DEF Beside
<1> HIDE DEF after
<1>6. Beside(n, g)
  <2>1. Beside(after, g)
    BY <1>5, BesideRecovery
  <2> HIDE DEF g
  <2> QED
    BY <1>5, <2>1, BesideBeside
<1> HIDE DEF g, ask
<1> QED
  BY <1>1, <1>2, <1>5, <1>6, DecisionFacts

\* handle_nack leaves the pacer alone and retransmits packets of the cache.
LEMMA NackFacts ==
  ASSUME NEW n, DOMAIN n = RspFields, NEW epoch, NEW ids, NEW d \in HandleNack(n, epoch, ids)
  PROVE  Decided(n, d)
<1> DEFINE f == AdmitFeedback(n)
<1>1. Beside(n, f) /\ Beside(n, n)
  BY BesideFeedback, BesideItself
<1>2. \/ d = Decision(n, {}, FALSE)
      \/ d = Decision(f, {}, FALSE)
      \/ \E admitted, lost : d = ResolveNack(f, epoch, ids, admitted, lost)
  <2> HIDE DEF f
  <2>1. CASE Terminated(n)
    BY <2>1 DEF HandleNack
  <2>2. CASE ~Terminated(n) /\ (~AdmitsFeedback(n) \/ epoch # n.recEpoch)
    BY <2>2 DEF HandleNack, f
  <2>3. CASE ~Terminated(n) /\ ~(~AdmitsFeedback(n) \/ epoch # n.recEpoch)
    <3>1. HandleNack(n, epoch, ids) =
            UNION {{ResolveNack(f, epoch, ids, admitted, lost) :
                      lost \in IF admitted # ids /\ f.overload >= FloodTime
                               THEN SUBSET (admitted \cap RecentNacks(f)) ELSE {{}}} :
                   admitted \in NackAdmissions(f, ids)}
      BY <2>3 DEF HandleNack, f
    <3> QED
      BY <3>1, Zenon
  <2> QED
    BY <2>1, <2>2, <2>3
<1> HIDE DEF f
<1> QED
  BY <1>1, <1>2, DecisionFacts, ResolveFacts

\* A packet one tick later.
LEMMA OlderPacket ==
  ASSUME NEW z \in Packet
  PROVE  LET o == [z EXCEPT !.age = Older(z.age, PacerAge)]
         IN  /\ o \in Packet /\ o.seq = z.seq /\ o.epoch = z.epoch /\ o.idr = z.idr
             /\ o.start = z.start /\ o.rtx = z.rtx
<1>1. z.age \in Nat /\ PacerAge \in Nat
  BY PacerAssumption DEF Packet
<1>2. Older(z.age, PacerAge) \in Nat
  BY <1>1 DEF Older
<1> DEFINE a == Older(z.age, PacerAge)
<1> HIDE DEF a
<1>3. LET o == [z EXCEPT !.age = a]
      IN  /\ o \in Packet /\ o.seq = z.seq /\ o.epoch = z.epoch /\ o.idr = z.idr
          /\ o.start = z.start /\ o.rtx = z.rtx
  BY <1>2 DEF Packet, a
<1> QED
  BY <1>3 DEF a

\* Queues that differ in the ages of their packets.
Alike(q, r) ==
  /\ q \in Seq(Packet) /\ r \in Seq(Packet) /\ Len(r) = Len(q)
  /\ \A i \in 1 .. Len(q) :
       /\ r[i].seq = q[i].seq /\ r[i].epoch = q[i].epoch /\ r[i].idr = q[i].idr
       /\ r[i].start = q[i].start /\ r[i].rtx = q[i].rtx

\* The queue one tick later.
LEMMA AgedAlike ==
  ASSUME NEW q \in Seq(Packet)
  PROVE  Alike(q, [i \in DOMAIN q |-> [q[i] EXCEPT !.age = Older(q[i].age, PacerAge)]])
<1> DEFINE r == [i \in 1 .. Len(q) |-> [q[i] EXCEPT !.age = Older(q[i].age, PacerAge)]]
<1>1. Len(q) \in Nat /\ DOMAIN q = 1 .. Len(q) /\ \A i \in 1 .. Len(q) : q[i] \in Packet
  BY LenProperties, ElementOfSeq
<1>2. \A i \in 1 .. Len(q) :
        /\ r[i] \in Packet
        /\ r[i].seq = q[i].seq /\ r[i].epoch = q[i].epoch /\ r[i].idr = q[i].idr
        /\ r[i].start = q[i].start /\ r[i].rtx = q[i].rtx
  <2> TAKE i \in 1 .. Len(q)
  <2>1. r[i] = [q[i] EXCEPT !.age = Older(q[i].age, PacerAge)]
    OBVIOUS
  <2> DEFINE z == q[i]
  <2>2. z \in Packet
    BY <1>1
  <2> HIDE DEF z
  <2>3. LET o == [z EXCEPT !.age = Older(z.age, PacerAge)]
        IN  /\ o \in Packet /\ o.seq = z.seq /\ o.epoch = z.epoch /\ o.idr = z.idr
            /\ o.start = z.start /\ o.rtx = z.rtx
    BY <2>2, OlderPacket
  <2> HIDE DEF r
  <2> QED
    BY <2>1, <2>3 DEF z
<1>3. DOMAIN r = 1 .. Len(q)
  OBVIOUS
<1>4. [i \in DOMAIN q |-> [q[i] EXCEPT !.age = Older(q[i].age, PacerAge)]] = r
  BY <1>1
<1> HIDE DEF r
<1>5. r \in [1 .. Len(q) -> Packet]
  <2>1. r = [i \in 1 .. Len(q) |-> r[i]]
    BY <1>3, <1>4, Zenon DEF r
  <2> QED
    BY <1>2, <2>1
<1>6. r \in Seq(Packet) /\ Len(r) = Len(q)
  <2>1. r \in Seq(Packet)
    BY <1>1, <1>5, SeqDef
  <2>2. Len(r) \in Nat /\ DOMAIN r = 1 .. Len(r)
    BY <2>1, LenProperties
  <2> QED
    BY <1>1, <1>3, <2>1, <2>2
<1> QED
  BY <1>2, <1>4, <1>6 DEF Alike

\* What precedes in a queue is the same packet, only older.
LEMMA PrecedingAlike ==
  ASSUME NEW q, NEW r, Alike(q, r), NEW last, NEW i \in Nat
  PROVE  /\ FirstSent(r) = FirstSent(q)
         /\ SameEnd(Preceding(last, r, i), Preceding(last, q, i))
<1>1. /\ q \in Seq(Packet) /\ r \in Seq(Packet) /\ Len(q) \in Nat
      /\ DOMAIN q = 1 .. Len(q) /\ DOMAIN r = 1 .. Len(q)
  BY LenProperties DEF Alike
<1>2. \A k \in 1 .. Len(q) : r[k].rtx = q[k].rtx /\ SameEnd(r[k], q[k])
  BY DEF Alike, SameEnd
<1>3. FirstSent(r) = FirstSent(q) /\ FirstSent(q) \in SUBSET (1 .. Len(q))
  BY <1>1, <1>2 DEF FirstSent
<1>4. CASE \A j \in FirstSent(q) : ~(j < i)
  <2>1. Preceding(last, r, i) = last /\ Preceding(last, q, i) = last
    BY <1>1, <1>3, <1>4, PrecedingFacts
  <2> QED
    BY <1>3, <2>1 DEF SameEnd
<1>5. CASE \E k \in FirstSent(q) : k < i /\ \A j \in FirstSent(q) : j < i => j <= k
  <2>1. PICK k \in FirstSent(q) : k < i /\ \A j \in FirstSent(q) : j < i => j <= k
    BY <1>5
  <2>2. Preceding(last, q, i) = q[k]
    BY <1>1, <2>1, PrecedingFacts
  <2>3. Preceding(last, r, i) = r[k]
    BY <1>1, <1>3, <2>1, PrecedingFacts
  <2>4. SameEnd(r[k], q[k])
    BY <1>2, <1>3
  <2> QED
    BY <1>3, <2>2, <2>3, <2>4
<1> QED
  BY <1>1, <1>4, <1>5, PrecedingFacts

\* A tick only makes packets and entries older.
LEMMA AgedFacts ==
  ASSUME NEW n, Tidy(n), NEW last \in [seq : Nat, epoch : Nat], Chained(n, last)
  PROVE  /\ Tidy(Aged(n)) /\ Chained(Aged(n), last) /\ Aged(n).rejection = n.rejection
         /\ \A next : Abreast(n, last, next) => Abreast(Aged(n), last, next)
<1> DEFINE q == n.queue
           r == [i \in DOMAIN q |-> [q[i] EXCEPT !.age = Older(q[i].age, PacerAge)]]
           c == [s \in DOMAIN n.cache |-> [n.cache[s] EXCEPT !.age = Older(n.cache[s].age, CacheAge)]]
           x == Aged(n)
<1>1. DOMAIN n = RspFields /\ q \in Seq(Packet) /\ DOMAIN c = DOMAIN n.cache
  BY DEF Tidy
<1>2. Alike(q, r)
  BY <1>1, AgedAlike
<1>3. /\ DOMAIN x = RspFields /\ x.queue = r /\ x.cache = c /\ x.awaiting = n.awaiting
      /\ x.stopped = n.stopped /\ x.active = n.active /\ x.abandoned = n.abandoned
      /\ x.rejection = n.rejection /\ x.cacheEpoch = n.cacheEpoch
  <2> DEFINE idr == Older(n.lastIdr, Window)
             fb == [i \in DOMAIN n.feedback |-> Older(n.feedback[i], Window)]
             nk == [i \in DOMAIN n.nacks |-> Older(n.nacks[i], Window)]
             ov == IF n.overload = NoOverload THEN NoOverload ELSE Older(n.overload, FloodTime)
  <2>1. x = [n EXCEPT !.queue = r, !.cache = c, !.lastIdr = idr, !.feedback = fb, !.nacks = nk,
                      !.overload = ov]
    BY DEF Aged
  <2> HIDE DEF r, c, idr, fb, nk, ov, x
  <2> QED
    BY <1>1, <2>1 DEF RspFields
<1> HIDE DEF r, c, x
<1>4. /\ r \in Seq(Packet) /\ Len(r) = Len(q) /\ Len(q) \in Nat
      /\ \A i \in 1 .. Len(q) :
           /\ r[i].seq = q[i].seq /\ r[i].epoch = q[i].epoch /\ r[i].idr = q[i].idr
           /\ r[i].start = q[i].start
      /\ FirstSent(q) \in SUBSET (1 .. Len(q))
  <2>1. FirstSent(q) \in SUBSET (1 .. Len(q)) /\ Len(q) \in Nat
    BY <1>1, LenProperties DEF FirstSent
  <2> QED
    BY <1>2, <2>1 DEF Alike
<1>5. /\ FirstSent(r) = FirstSent(q)
      /\ \A i \in Nat : SameEnd(Preceding(last, r, i), Preceding(last, q, i))
  <2>1. 0 \in Nat
    OBVIOUS
  <2> QED
    BY <1>2, <2>1, PrecedingAlike
<1>6. Tidy(x)
  <2>1. /\ x.awaiting \in BOOLEAN /\ x.stopped \in BOOLEAN /\ x.active \in Nat
        /\ x.abandoned \in Nat
    BY <1>3 DEF Tidy
  <2>2. x.queue \in Seq(Packet) /\ Len(x.queue) <= PacerCapacity
    BY <1>3, <1>4 DEF Tidy
  <2>3. x.queue # <<>> => ~x.awaiting /\ ~x.stopped
    <3>1. q = <<>> => Len(q) = 0
      BY NoPackets
    <3>2. Len(r) = 0 => r = <<>>
      <4> HIDE DEF q
      <4> QED
        BY <1>4, EmptySeq
    <3> QED
      BY <1>3, <1>4, <3>1, <3>2 DEF Tidy
  <2>4. \A i \in 1 .. Len(x.queue) : x.queue[i].epoch = x.active
    <3>1. \A i \in 1 .. Len(q) : q[i].epoch = n.active
      BY DEF Tidy
    <3> HIDE DEF q
    <3> QED
      BY <1>3, <1>4, <3>1
  <2>5. /\ DOMAIN x.cache \in SUBSET Nat /\ IsFiniteSet(DOMAIN x.cache)
        /\ DOMAIN x.cache # {} => ~x.awaiting /\ x.cacheEpoch = x.active
    BY <1>1, <1>3 DEF Tidy
  <2> QED
    BY <1>3, <2>1, <2>2, <2>3, <2>4, <2>5 DEF Tidy
<1>7. Chained(x, last)
  <2>1. last.epoch <= x.active /\ (x.awaiting => last.epoch <= x.abandoned)
    BY <1>3 DEF Chained
  <2>2. ASSUME NEW i \in FirstSent(r)
        PROVE  Continues(r[i], Preceding(last, r, i))
    <3>1. i \in FirstSent(q) /\ i \in 1 .. Len(q) /\ i \in Nat
      BY <1>4, <1>5
    <3>2. Continues(q[i], Preceding(last, q, i))
      BY <3>1 DEF Chained
    <3>3. SameEnd(Preceding(last, r, i), Preceding(last, q, i))
      BY <1>5, <3>1
    <3>4. /\ r[i].seq = q[i].seq /\ r[i].epoch = q[i].epoch /\ r[i].idr = q[i].idr
          /\ r[i].start = q[i].start
      BY <1>4, <3>1
    <3> HIDE DEF q
    <3>5. CASE q[i].seq = Preceding(last, q, i).seq + 1 /\ q[i].epoch = Preceding(last, q, i).epoch
      BY <3>3, <3>4, <3>5 DEF Continues, SameEnd
    <3>6. CASE q[i].start /\ q[i].idr /\ q[i].epoch > Preceding(last, q, i).epoch
      <4>1. r[i].start /\ r[i].idr
        BY <3>4, <3>6, Zenon
      <4>2. r[i].epoch > Preceding(last, r, i).epoch
        BY <3>3, <3>4, <3>6 DEF SameEnd
      <4> QED
        BY <4>1, <4>2 DEF Continues
    <3> QED
      BY <3>2, <3>5, <3>6 DEF Continues
  <2> QED
    BY <1>3, <2>1, <2>2 DEF Chained
<1>8. ASSUME NEW next, Abreast(n, last, next) PROVE Abreast(x, last, next)
  <2> SUFFICES ASSUME ~x.awaiting, ~x.stopped
               PROVE  /\ Preceding(last, r, Len(r) + 1).seq = next - 1
                      /\ Preceding(last, r, Len(r) + 1).epoch = x.active
    BY <1>3 DEF Abreast
  <2>1. /\ Preceding(last, q, Len(q) + 1).seq = next - 1
        /\ Preceding(last, q, Len(q) + 1).epoch = n.active
    BY <1>3, <1>8 DEF Abreast
  <2>2. SameEnd(Preceding(last, r, Len(q) + 1), Preceding(last, q, Len(q) + 1))
    <3>1. Len(q) + 1 \in Nat
      BY <1>4
    <3> QED
      BY <1>5, <3>1
  <2> QED
    BY <1>3, <1>4, <2>1, <2>2 DEF SameEnd
<1> QED
  BY <1>3, <1>6, <1>7, <1>8 DEF x

\* Retransmissions for one NACK.
Again(epoch) == {Retransmission(s, epoch) : s \in Nat}

\* A retransmission is a packet of its epoch.
LEMMA AgainFacts ==
  ASSUME NEW epoch, NEW z \in Again(epoch)
  PROVE  /\ z.epoch = epoch /\ z.rtx
         /\ epoch \in Nat => z \in Packet
<1>1. PICK s \in Nat : z = Retransmission(s, epoch)
  BY DEF Again
<1>2. z = [seq |-> s, epoch |-> epoch, idr |-> FALSE, start |-> FALSE, rtx |-> TRUE, age |-> 0]
  BY <1>1 DEF Retransmission
<1>3. z.epoch = epoch /\ z.rtx
  BY <1>2, Zenon
<1>4. 0 \in Nat
  OBVIOUS
<1>5. epoch \in Nat => z \in Packet
  BY <1>2, <1>4, FlagFacts, Zenon DEF Packet
<1> QED
  BY <1>3, <1>5

\* The retransmissions behind the queue.
LEMMA RepeatFacts ==
  ASSUME NEW y, Tidy(y), NEW last \in [seq : Nat, epoch : Nat], Chained(y, last),
         ~y.stopped, ~y.awaiting, NEW p \in Seq(Packet), Len(p) <= PacerCapacity - Len(y.queue),
         \A i \in 1 .. Len(p) : p[i].epoch = y.active /\ p[i].rtx
  PROVE  LET z == [y EXCEPT !.queue = y.queue \o p]
         IN  /\ Tidy(z) /\ Chained(z, last) /\ z.rejection = y.rejection
             /\ \A next : Abreast(y, last, next) => Abreast(z, last, next)
<1> DEFINE q == y.queue
           r == q \o p
           L == Len(q)
           n == Len(p)
           z == [y EXCEPT !.queue = r]
<1>1. /\ DOMAIN y = RspFields /\ q \in Seq(Packet) /\ y.active \in Nat
      /\ L <= PacerCapacity /\ \A i \in 1 .. L : q[i].epoch = y.active
  BY DEF Tidy
<1>2. /\ r \in Seq(Packet) /\ Len(r) = L + n /\ L \in Nat /\ n \in Nat
      /\ \A i \in 1 .. L + n : r[i] = IF i <= L THEN q[i] ELSE p[i - L]
  BY <1>1, ConcatProperties, LenProperties
<1>3. DOMAIN q = 1 .. L /\ DOMAIN r = 1 .. L + n
  BY <1>1, <1>2, LenProperties
<1> HIDE DEF r
<1>4. /\ DOMAIN z = RspFields /\ z.queue = r /\ z.awaiting = y.awaiting /\ z.stopped = y.stopped
      /\ z.active = y.active /\ z.abandoned = y.abandoned /\ z.rejection = y.rejection
      /\ z.cache = y.cache /\ z.cacheEpoch = y.cacheEpoch
  BY <1>1 DEF RspFields
<1> HIDE DEF z
<1>5. \A i \in 1 .. L : r[i] = q[i] /\ i \in 1 .. L + n
  <2> HIDE DEF L, n
  <2> TAKE i \in 1 .. L
  <2>1. i \in 1 .. L + n /\ i <= L
    BY <1>2
  <2> QED
    BY <1>2, <2>1
<1>6. \A i \in 1 .. L + n : i \in 1 .. L \/ (i - L \in 1 .. n /\ r[i] = p[i - L])
  <2> HIDE DEF L, n
  <2> TAKE i \in 1 .. L + n
  <2>1. i \in 1 .. L \/ (i - L \in 1 .. n /\ ~(i <= L))
    BY <1>2
  <2> QED
    BY <1>2, <2>1
<1>7. FirstSent(r) = FirstSent(q) /\ FirstSent(q) \in SUBSET (1 .. L)
  <2>1. \A i : i \in FirstSent(r) => i \in FirstSent(q)
    <3> SUFFICES ASSUME NEW i \in FirstSent(r) PROVE i \in FirstSent(q)
      OBVIOUS
    <3>1. i \in 1 .. L + n /\ ~r[i].rtx
      BY <1>3 DEF FirstSent
    <3>2. i \in 1 .. L
      BY <1>6, <3>1
    <3> QED
      BY <1>3, <1>5, <3>1, <3>2 DEF FirstSent
  <2>2. \A i : i \in FirstSent(q) => i \in FirstSent(r) /\ i \in 1 .. L
    BY <1>3, <1>5 DEF FirstSent
  <2> QED
    BY <2>1, <2>2
<1>8. \A i \in 1 .. L : Preceding(last, r, i) = Preceding(last, q, i)
  <2> TAKE i \in 1 .. L
  <2>1. \A k \in 1 .. i - 1 : k \in 1 .. L
    BY <1>2
  <2>2. \A k \in 1 .. i - 1 : /\ k \in FirstSent(r) <=> k \in FirstSent(q)
                              /\ k \in FirstSent(r) => r[k] = q[k]
    BY <1>5, <1>7, <2>1
  <2>3. i \in Nat /\ q \in Seq(Packet) /\ r \in Seq(Packet)
    BY <1>1, <1>2
  <2> HIDE DEF q
  <2> QED
    BY <2>2, <2>3, PrecedingSame
<1>9. Preceding(last, r, Len(r) + 1) = Preceding(last, q, L + 1)
  <2>1. Len(r) + 1 \in Nat /\ L + 1 \in Nat
    BY <1>2
  <2>2. \A k \in FirstSent(q) : k \in Nat /\ k < L + 1 /\ k < Len(r) + 1 /\ r[k] = q[k]
    <3> TAKE k \in FirstSent(q)
    <3>1. k \in 1 .. L
      BY <1>7
    <3> QED
      BY <1>2, <1>5, <3>1
  <2>3. \A k \in Nat : (k \in FirstSent(r) /\ k < Len(r) + 1) <=> (k \in FirstSent(q) /\ k < L + 1)
    BY <1>7, <2>2
  <2>4. \A k \in FirstSent(r) : k < Len(r) + 1 => r[k] = q[k]
    BY <1>7, <2>2
  <2> DEFINE a == Len(r) + 1
             b == L + 1
  <2>5. /\ a \in Nat /\ b \in Nat /\ q \in Seq(Packet) /\ r \in Seq(Packet)
        /\ \A k \in Nat : (k \in FirstSent(r) /\ k < a) <=> (k \in FirstSent(q) /\ k < b)
        /\ \A k \in FirstSent(r) : k < a => r[k] = q[k]
    BY <1>1, <1>2, <2>1, <2>3, <2>4
  <2>6. Preceding(last, r, a) = Preceding(last, q, b)
    <3> HIDE DEF a, b, q, L
    <3> QED
      BY <2>5, PrecedingShift
  <2> QED
    BY <2>6
<1>10. Tidy(z)
  <2>1. Len(r) <= PacerCapacity
    <3>1. n <= PacerCapacity - L /\ PacerCapacity \in Nat
      BY RspBounds
    <3> QED
      BY <1>2, <3>1
  <2>2. \A i \in 1 .. Len(r) : r[i].epoch = y.active
    <3> TAKE i \in 1 .. Len(r)
    <3>1. i \in 1 .. L + n
      BY <1>2
    <3>2. CASE i \in 1 .. L
      BY <1>1, <1>5, <3>2
    <3>3. CASE i - L \in 1 .. n /\ r[i] = p[i - L]
      BY <3>3
    <3> QED
      BY <1>6, <3>1, <3>2, <3>3
  <2>3. /\ z.awaiting \in BOOLEAN /\ z.stopped \in BOOLEAN /\ z.active \in Nat
        /\ z.abandoned \in Nat /\ ~z.awaiting /\ ~z.stopped
    BY <1>4 DEF Tidy
  <2>4. /\ DOMAIN z.cache \in SUBSET Nat /\ IsFiniteSet(DOMAIN z.cache)
        /\ DOMAIN z.cache # {} => ~z.awaiting /\ z.cacheEpoch = z.active
    BY <1>4 DEF Tidy
  <2>5. \A i \in 1 .. Len(z.queue) : z.queue[i].epoch = z.active
    BY <1>4, <2>2
  <2> QED
    BY <1>2, <1>4, <2>1, <2>3, <2>4, <2>5 DEF Tidy
<1>11. Chained(z, last)
  <2>1. ASSUME NEW i \in FirstSent(r) PROVE Continues(r[i], Preceding(last, r, i))
    <3>1. i \in FirstSent(q) /\ i \in 1 .. L
      BY <1>7
    <3>2. Continues(q[i], Preceding(last, q, i))
      BY <3>1 DEF Chained
    <3>3. r[i] = q[i] /\ Preceding(last, r, i) = Preceding(last, q, i)
      BY <1>5, <1>8, <3>1
    <3> QED
      BY <3>2, <3>3
  <2> QED
    BY <1>4, <2>1 DEF Chained
<1>12. \A next : Abreast(y, last, next) => Abreast(z, last, next)
  BY <1>4, <1>9 DEF Abreast
<1>13. Tidy(z) /\ Chained(z, last) /\ z.rejection = y.rejection
       /\ \A next : Abreast(y, last, next) => Abreast(z, last, next)
  BY <1>4, <1>10, <1>11, <1>12
<1> QED
  BY <1>13 DEF z, r

\* What a retransmission queued, refused or purging makes of the state.
Repeated(x, r, last) ==
  /\ Tidy(r.m) /\ Chained(r.m, last) /\ r.m.rejection = x.rejection
  /\ \A next : Abreast(x, last, next) => Abreast(r.m, last, next)

\* Retransmissions that are refused.
LEMMA RejectedRepeat ==
  ASSUME NEW x, NEW last, NEW y, Tidy(y), Chained(y, last), y.rejection = x.rejection,
         \A next : Abreast(x, last, next) => Abreast(y, last, next), NEW reason, NEW ask
  PROVE  Repeated(x, Rejected(y, reason, ask), last)
BY Outcomes DEF Repeated

\* The retransmissions of one NACK are queued, refused, or purge the queue.
LEMMA ResendFacts ==
  ASSUME NEW x, Tidy(x), NEW last \in [seq : Nat, epoch : Nat], Chained(x, last),
         NEW epoch, NEW p \in Seq(Again(epoch))
  PROVE  Repeated(x, AdmitRetransmissions(x, p), last)
<1> DEFINE y == ExpireIfNeeded(x)
           u == Purge(y, TRUE)
           r == AdmitRetransmissions(x, p)
<1>1. CASE p = <<>>
  <2>1. r = Accepted(x)
    BY <1>1 DEF AdmitRetransmissions
  <2>2. r.m = x
    BY <2>1, Outcomes
  <2> HIDE DEF r
  <2>3. Repeated(x, r, last)
    BY <2>2 DEF Repeated
  <2> QED
    BY <2>3 DEF r
<1>2. CASE p # <<>>
  <2>1. /\ Tidy(y) /\ Chained(y, last) /\ y.rejection = x.rejection
        /\ y = x \/ y.awaiting
    BY ExpireFacts DEF Given
  <2>2. \A next : Abreast(x, last, next) => Abreast(y, last, next)
    BY <2>1, Fallen
  <2> HIDE DEF y
  <2>3. Tidy(u) /\ Chained(u, last) /\ u.rejection = x.rejection /\ u.awaiting = TRUE
    BY <2>1, GivenPurge DEF Given
  <2>4. \A next : Abreast(u, last, next)
    <3> HIDE DEF u
    <3> QED
      BY <2>3, Fallen
  <2> HIDE DEF u
  <2> DEFINE reject == y.stopped \/ y.awaiting \/ p[1].epoch # y.active
             over == Len(p) > PacerCapacity - Len(y.queue)
             why == IF Len(p) > PacerCapacity - Len(y.queue) + 1
                    THEN "PACER_RETRANSMISSION_EPOCH_REJECTED"
                    ELSE "PACER_RETRANSMISSION_CAPACITY_PURGED_DEPENDENCY_EPOCH"
             z == [y EXCEPT !.queue = y.queue \o p]
  <2>5. r = IF reject THEN Rejected(y, "PACER_RETRANSMISSION_EPOCH_REJECTED", y.awaiting)
            ELSE IF over THEN Rejected(u, why, TRUE)
            ELSE Accepted(z)
    BY <1>2 DEF AdmitRetransmissions, y, u
  <2> HIDE DEF r
  <2>6. CASE reject
    <3>1. r = Rejected(y, "PACER_RETRANSMISSION_EPOCH_REJECTED", y.awaiting)
      BY <2>5, <2>6
    <3>2. Repeated(x, r, last)
      BY <2>1, <2>2, <3>1, RejectedRepeat
    <3> QED
      BY <3>2 DEF r
  <2>7. CASE ~reject /\ over
    <3>1. r = Rejected(u, why, TRUE)
      <4> HIDE DEF why, reject, over
      <4> QED
        BY <2>5, <2>7
    <3> HIDE DEF why
    <3>2. Repeated(x, r, last)
      BY <2>3, <2>4, <3>1, RejectedRepeat
    <3> QED
      BY <3>2 DEF r
  <2>8. CASE ~reject /\ ~over
    <3>1. r = Accepted(z)
      <4> HIDE DEF reject, over
      <4> QED
        BY <2>5, <2>8
    <3>2. r.m = z
      BY <3>1, Outcomes
    <3>3. Len(p) \in Nat /\ DOMAIN p = 1 .. Len(p) /\ \A i \in 1 .. Len(p) : p[i] \in Again(epoch)
      BY LenProperties, ElementOfSeq
    <3>4. Len(p) # 0
      BY <1>2, <3>3, EmptySeq
    <3>5. 1 \in 1 .. Len(p)
      BY <3>3, <3>4
    <3>6. p[1].epoch = epoch
      BY <3>3, <3>5, AgainFacts
    <3>7. epoch = y.active /\ epoch \in Nat /\ ~y.stopped /\ ~y.awaiting
      BY <2>1, <2>8, <3>6 DEF Tidy
    <3>8. \A i \in 1 .. Len(p) : p[i] \in Packet /\ p[i].epoch = y.active /\ p[i].rtx
      BY <3>3, <3>7, AgainFacts
    <3>9. p \in Seq(Packet)
      <4>1. p \in [1 .. Len(p) -> Packet]
        <5>1. p \in [1 .. Len(p) -> Again(epoch)]
          BY LenProperties
        <5> QED
          BY <3>8, <5>1
      <4> QED
        BY <3>3, <4>1, SeqDef
    <3>10. Len(p) <= PacerCapacity - Len(y.queue)
      <4>1. Len(y.queue) \in Nat /\ PacerCapacity \in Nat
        BY <2>1, RspBounds, LenProperties DEF Tidy
      <4> QED
        BY <2>8, <3>3, <4>1
    <3>11. /\ Tidy(z) /\ Chained(z, last) /\ z.rejection = y.rejection
           /\ \A next : Abreast(y, last, next) => Abreast(z, last, next)
      BY <2>1, <3>7, <3>8, <3>9, <3>10, RepeatFacts
    <3> HIDE DEF z
    <3>12. Repeated(x, r, last)
      BY <2>1, <2>2, <3>2, <3>11 DEF Repeated
    <3> QED
      BY <3>12 DEF r
  <2> QED
    BY <2>6, <2>7, <2>8
<1> QED
  BY <1>1, <1>2

\* The responder's state beside the last packet released, the next number and
\* where the sender is.
Sound(n, last, next, pc) ==
  /\ Tidy(n) /\ Chained(n, last) /\ last \in [seq : Nat, epoch : Nat] /\ next \in Nat \ {0}
  /\ Live(pc, n.rejection) => Abreast(n, last, next)

SenderSound(s) ==
  /\ DOMAIN s = {"pc", "epoch", "idr", "size", "batch"}
  /\ s.pc \in {"idle", "begin", "outgoing", "sending", "settle", "done"}
  /\ s.pc \in {"begin", "outgoing"} =>
       s.epoch \in Nat \ {0} /\ s.idr \in Flag /\ s.size \in Nat \ {0}

ResponderInv ==
  /\ Sound(m, drained.last, nextSeq, sender.pc)
  /\ drained.unbroken = TRUE
  /\ SenderSound(sender)

\* The sender moves on and the responder's state stays.
LEMMA SoundCaller ==
  ASSUME NEW n, NEW last, NEW next, NEW pc, NEW new, Sound(n, last, next, pc),
         Live(new, n.rejection) => Live(pc, n.rejection)
  PROVE  Sound(n, last, next, new)
BY DEF Sound

\* The responder's state changes and the sender stays.
LEMMA SoundChange ==
  ASSUME NEW n, NEW last, NEW next, NEW pc, Sound(n, last, next, pc), NEW x, Tidy(x),
         Chained(x, last), Abreast(n, last, next) => Abreast(x, last, next),
         x.rejection = NoRejection => n.rejection = NoRejection
  PROVE  Sound(x, last, next, pc)
BY DEF Sound, Live

\* A drain, by whichever thread.
LEMMA SoundDrain ==
  ASSUME NEW n, NEW last, NEW next, NEW pc, Sound(n, last, next, pc), NEW k \in Budgets(n)
  PROVE  /\ Sound(Drain(n, k).m, After(last, Drain(n, k).out), next, pc)
         /\ Unbroken(Drain(n, k).out, last)
<1>1. Tidy(n) /\ Chained(n, last) /\ last \in [seq : Nat, epoch : Nat]
  BY DEF Sound
<1> DEFINE x == Drain(n, k).m
           after == After(last, Drain(n, k).out)
<1>2. Kept(n, x, last, after) /\ Unbroken(Drain(n, k).out, last)
  BY <1>1, DrainFacts
<1> HIDE DEF x, after
<1>3. Sound(x, after, next, pc)
  BY <1>2 DEF Sound, Kept, Live
<1> QED
  BY <1>2, <1>3 DEF x, after

\* The sender outside send_access_unit.
LEMMA CallerSound ==
  ASSUME NEW pc \in {"idle", "settle", "done"}
  PROVE  SenderSound(Caller(pc)) /\ Caller(pc).pc = pc
<1>1. Caller(pc) = [pc |-> pc, epoch |-> 0, idr |-> FALSE, size |-> 0, batch |-> <<>>]
  BY DEF Caller
<1> DEFINE c == Caller(pc)
<1>2. c.pc = pc /\ DOMAIN c = {"pc", "epoch", "idr", "size", "batch"}
  BY <1>1
<1> HIDE DEF c
<1>3. SenderSound(c)
  BY <1>2 DEF SenderSound
<1> QED
  BY <1>2, <1>3 DEF c

\* The history of a drain whose releases form a chain.
LEMMA RecordFacts ==
  ASSUME NEW out, RecordDrain(out), drained.unbroken = TRUE, Unbroken(out, drained.last)
  PROVE  drained'.last = After(drained.last, out) /\ drained'.unbroken = TRUE
<1> DEFINE end == Preceding(drained.last, out, Len(out) + 1)
           ok == /\ drained.unbroken
                 /\ \A i \in FirstSent(out) : Continues(out[i], Preceding(drained.last, out, i))
<1>1. drained' = [last |-> [seq |-> end.seq, epoch |-> end.epoch], unbroken |-> ok]
  BY DEF RecordDrain
<1>2. ok = TRUE
  BY Zenon DEF Unbroken
<1>3. After(drained.last, out) = [seq |-> end.seq, epoch |-> end.epoch]
  BY DEF After
<1> HIDE DEF end, ok
<1> QED
  BY <1>1, <1>2, <1>3

\* The responder as it is constructed.
LEMMA ResponderInit == RspInit => ResponderInv
<1> SUFFICES ASSUME RspInit PROVE ResponderInv
  OBVIOUS
<1>1. /\ m = Initial /\ nextSeq = 1 /\ sender = Caller("idle")
      /\ drained = [last |-> NothingReleased, unbroken |-> TRUE]
  BY DEF RspInit
<1>2. /\ drained.last = [seq |-> 0, epoch |-> 0] /\ drained.unbroken = TRUE
  BY <1>1, Zenon DEF NothingReleased
<1>3. SenderSound(sender) /\ sender.pc = "idle"
  BY <1>1, CallerSound
<1> DEFINE n == Initial
           last == [seq |-> 0, epoch |-> 0]
<1>4. /\ DOMAIN n = RspFields /\ n.awaiting = TRUE /\ n.stopped = FALSE /\ n.active = 0
      /\ n.abandoned = 0 /\ n.queue = <<>> /\ n.cache = <<>>
  BY DEF Initial, RspFields
<1>5. last \in [seq : Nat, epoch : Nat] /\ last.epoch = 0
  OBVIOUS
<1> HIDE DEF n, last
<1>6. /\ <<>> \in Seq(Packet) /\ Len(<<>>) = 0 /\ DOMAIN <<>> = {} /\ FirstSent(<<>>) = {}
      /\ IsFiniteSet({}) /\ {} \in SUBSET Nat
  BY NoPackets
<1>7. Tidy(n)
  <2>1. Len(n.queue) <= PacerCapacity /\ \A i \in 1 .. Len(n.queue) : n.queue[i].epoch = n.active
    BY <1>4, <1>6, RspBounds
  <2>2. n.awaiting \in BOOLEAN /\ n.stopped \in BOOLEAN
    BY <1>4
  <2>3. n.active \in Nat /\ n.abandoned \in Nat
    BY <1>4
  <2>4. n.queue \in Seq(Packet) /\ ~(n.queue # <<>>) /\ DOMAIN n.cache = {} /\ DOMAIN n = RspFields
    BY <1>4, <1>6
  <2> QED
    BY <1>6, <2>1, <2>2, <2>3, <2>4 DEF Tidy
<1>8. Chained(n, last)
  BY <1>4, <1>5, <1>6 DEF Chained
<1>9. Abreast(n, last, 1)
  BY <1>4, Fallen
<1>10. Sound(n, last, 1, "idle")
  BY <1>5, <1>7, <1>8, <1>9 DEF Sound
<1> QED
  BY <1>1, <1>2, <1>3, <1>10 DEF ResponderInv, n, last

\* send_access_unit up to the peer's mutex.
LEMMA SendKeeps ==
  ASSUME ResponderInv, NEW epoch, NEW idr \in BOOLEAN, NEW size \in AccessUnitSizes,
         SendAccessUnit(epoch, idr, size)
  PROVE  ResponderInv'
<1>1. /\ sender.pc = "idle" /\ epoch \in Nat \ {0}
      /\ m' = m /\ nextSeq' = nextSeq /\ drained' = drained
      /\ \/ sender' = Caller("done")
         \/ sender' = [sender EXCEPT !.pc = IF epoch # peer.epoch THEN "begin" ELSE "outgoing",
                                     !.epoch = epoch, !.idr = idr, !.size = size]
  BY RspBounds DEF SendAccessUnit
<1>2. size \in Nat \ {0} /\ idr \in Flag
  BY RspBounds DEF Flag
<1>3. SenderSound(sender') /\ sender'.pc \in {"begin", "outgoing", "done"}
  <2>1. CASE sender' = Caller("done")
    BY <2>1, CallerSound
  <2>2. CASE sender' = [sender EXCEPT !.pc = IF epoch # peer.epoch THEN "begin" ELSE "outgoing",
                                      !.epoch = epoch, !.idr = idr, !.size = size]
    <3> DEFINE to == IF epoch # peer.epoch THEN "begin" ELSE "outgoing"
    <3>1. to \in {"begin", "outgoing"} /\ sender' = [sender EXCEPT !.pc = to, !.epoch = epoch,
                                                      !.idr = idr, !.size = size]
      BY <2>2
    <3>2. DOMAIN sender = {"pc", "epoch", "idr", "size", "batch"}
      BY DEF ResponderInv, SenderSound
    <3> HIDE DEF to
    <3>3. /\ sender'.pc = to /\ sender'.epoch = epoch /\ sender'.idr = idr /\ sender'.size = size
          /\ DOMAIN sender' = {"pc", "epoch", "idr", "size", "batch"}
      BY <3>1, <3>2
    <3>4. sender'.pc \in {"begin", "outgoing"} /\ sender'.epoch \in Nat \ {0}
          /\ sender'.size \in Nat \ {0}
      BY <1>1, <1>2, <3>1, <3>3
    <3>5. sender'.idr \in Flag
      BY <1>2, <3>3
    <3> QED
      BY <3>3, <3>4, <3>5 DEF SenderSound
  <2> QED
    BY <1>1, <2>1, <2>2
<1>4. Live(sender'.pc, m.rejection) => Live(sender.pc, m.rejection)
  BY <1>1 DEF Live
<1>5. Sound(m, drained.last, nextSeq, sender'.pc)
  BY <1>4, SoundCaller DEF ResponderInv
<1> QED
  BY <1>1, <1>3, <1>5 DEF ResponderInv

\* A new epoch leaves the state of the pacer, or gives up the epoch before.
LEMMA EpochFacts ==
  ASSUME Tidy(m), NEW last \in [seq : Nat, epoch : Nat], Chained(m, last), NEW e
  PROVE  LET x == EnterEpoch(BeginRecoveryEpoch(Fenced(e), e), e)
         IN  /\ Tidy(x) /\ Chained(x, last) /\ x.rejection = m.rejection
             /\ \A next : Abreast(m, last, next) => Abreast(x, last, next)
<1> DEFINE f == Fenced(e)
           b == BeginRecoveryEpoch(f, e)
           x == EnterEpoch(b, e)
<1> SUFFICES /\ Tidy(x) /\ Chained(x, last) /\ x.rejection = m.rejection
             /\ \A next : Abreast(m, last, next) => Abreast(x, last, next)
  OBVIOUS
<1>1. /\ Tidy(f) /\ Chained(f, last) /\ f.rejection = m.rejection
      /\ \A next : Abreast(m, last, next) => Abreast(f, last, next)
  <2>1. /\ Tidy(RequireRecovery(m)) /\ Chained(RequireRecovery(m), last)
        /\ RequireRecovery(m).rejection = m.rejection
        /\ RequireRecovery(m).awaiting \/ RequireRecovery(m).stopped
    BY RecoveryFacts DEF Given
  <2>2. \A next : Abreast(RequireRecovery(m), last, next)
    BY <2>1, Fallen
  <2>3. f = m \/ f = RequireRecovery(m)
    BY DEF Fenced
  <2> HIDE DEF f
  <2> QED
    BY <2>1, <2>2, <2>3
<1> HIDE DEF f
<1>2. DOMAIN f = RspFields
  BY <1>1 DEF Tidy
<1>3. Beside(f, b)
  <2> DEFINE r == ResetEpoch(f, e)
             g == [r EXCEPT !.recEpoch = e, !.feedback = <<>>, !.nacks = <<>>,
                            !.overload = NoOverload, !.lastIdr = 0]
  <2>1. Beside(f, f) /\ Beside(f, RequestForcedIdr(f)) /\ Beside(f, r)
    BY <1>2, BesideItself, BesideRecovery, BesideCache
  <2> HIDE DEF r
  <2>2. DOMAIN r = RspFields
    BY <2>1 DEF Beside
  <2>3. Beside(r, g)
    BY <2>2 DEF Beside, RspFields
  <2> HIDE DEF g
  <2>4. Beside(f, g)
    BY <2>1, <2>3, BesideBeside
  <2>5. b = f \/ b = RequestForcedIdr(f) \/ b = g
    BY DEF BeginRecoveryEpoch, r, g
  <2> HIDE DEF b
  <2> QED
    BY <2>1, <2>4, <2>5
<1> HIDE DEF b
<1>4. DOMAIN b = RspFields
  BY <1>3 DEF Beside
<1>5. Beside(b, x)
  <2>1. Beside(b, b) /\ Beside(b, [b EXCEPT !.epoch = e, !.notified = FALSE])
    BY <1>4 DEF Beside, RspFields
  <2> QED
    BY <2>1 DEF EnterEpoch
<1> HIDE DEF x
<1>6. Beside(f, x)
  BY <1>3, <1>5, BesideBeside
<1>7. /\ Tidy(x) /\ Chained(x, last) /\ x.rejection = m.rejection
      /\ \A next : Abreast(f, last, next) => Abreast(x, last, next)
  BY <1>1, <1>6, BesideKeeps
<1> QED
  BY <1>1, <1>7

\* begin_epoch gives up the epoch before it, and the sender goes on.
LEMMA BeginKeeps ==
  ASSUME ResponderInv, BeginEpoch
  PROVE  ResponderInv'
<1> DEFINE e == sender.epoch
           x == EnterEpoch(BeginRecoveryEpoch(Fenced(e), e), e)
<1>1. /\ sender.pc = "begin" /\ m' = x /\ nextSeq' = nextSeq /\ drained' = drained
      /\ sender' = [sender EXCEPT !.pc = "outgoing"] \/ sender' = Caller("done")
  BY DEF BeginEpoch
<1>2. /\ Tidy(m) /\ Chained(m, drained.last) /\ drained.last \in [seq : Nat, epoch : Nat]
      /\ Sound(m, drained.last, nextSeq, sender.pc) /\ SenderSound(sender)
  BY DEF ResponderInv, Sound
<1>3. /\ Tidy(x) /\ Chained(x, drained.last) /\ x.rejection = m.rejection
      /\ \A next : Abreast(m, drained.last, next) => Abreast(x, drained.last, next)
  BY <1>2, EpochFacts
<1> HIDE DEF x, e
<1>4. Sound(x, drained.last, nextSeq, sender.pc)
  BY <1>2, <1>3, SoundChange
<1>5. SenderSound(sender') /\ sender'.pc \in {"outgoing", "done"}
  <2>1. CASE sender' = Caller("done")
    BY <2>1, CallerSound
  <2>2. CASE sender' = [sender EXCEPT !.pc = "outgoing"]
    <3>1. DOMAIN sender = {"pc", "epoch", "idr", "size", "batch"}
          /\ sender.epoch \in Nat \ {0} /\ sender.idr \in Flag /\ sender.size \in Nat \ {0}
      BY <1>1, <1>2 DEF SenderSound
    <3>2. /\ DOMAIN sender' = {"pc", "epoch", "idr", "size", "batch"} /\ sender'.pc = "outgoing"
          /\ sender'.epoch = sender.epoch /\ sender'.idr = sender.idr
          /\ sender'.size = sender.size
      BY <2>2, <3>1
    <3> QED
      BY <3>1, <3>2 DEF SenderSound
  <2> QED
    BY <1>1, <2>1, <2>2
<1>6. Live(sender'.pc, x.rejection) => Live(sender.pc, x.rejection)
  BY <1>1, <1>5 DEF Live
<1>7. Sound(x, drained.last, nextSeq, sender'.pc)
  BY <1>4, <1>6, SoundCaller
<1> QED
  BY <1>1, <1>5, <1>7 DEF ResponderInv

\* An access unit that is taken, and drained as far as the tokens go.
LEMMA OutgoingKeeps ==
  ASSUME ResponderInv, Outgoing
  PROVE  ResponderInv'
<1> DEFINE seq == nextSeq
           last == drained.last
           size == sender.size
           r == AdmitAccessUnit(m, Packets(nextSeq, sender.epoch, sender.idr, sender.size))
<1>1. /\ sender.pc = "outgoing" /\ Sound(m, last, nextSeq, sender.pc) /\ SenderSound(sender)
      /\ nextSeq' = nextSeq + size /\ drained.unbroken = TRUE
  BY DEF ResponderInv, Outgoing
<1>2. /\ Tidy(m) /\ Chained(m, last) /\ last \in [seq : Nat, epoch : Nat] /\ nextSeq \in Nat \ {0}
      /\ Abreast(m, last, nextSeq)
  BY <1>1 DEF Sound, Live
<1>3. sender.epoch \in Nat \ {0} /\ sender.idr \in Flag /\ size \in Nat \ {0}
      /\ DOMAIN sender = {"pc", "epoch", "idr", "size", "batch"}
  BY <1>1 DEF SenderSound
<1>4. Admitted(m, r, last, nextSeq, size)
  BY <1>2, <1>3, AdmitFacts
<1>5. nextSeq' \in Nat \ {0}
  BY <1>1, <1>2, <1>3
<1>6. \/ /\ r.reason # NoRejection /\ m' = [r.m EXCEPT !.rejection = r.reason]
         /\ sender' = [sender EXCEPT !.pc = "sending", !.batch = <<>>]
         /\ drained' = drained
      \/ /\ r.reason = NoRejection
         /\ \E n \in Budgets(r.m) :
              /\ m' = Drain(r.m, n).m
              /\ sender' = [sender EXCEPT !.pc = "sending", !.batch = Batch(Drain(r.m, n).out)]
              /\ RecordDrain(Drain(r.m, n).out)
  BY DEF Outgoing
<1> HIDE DEF r
<1> DEFINE x == r.m
<1>7. Tidy(x) /\ Chained(x, last) /\ (r.reason = NoRejection => Abreast(x, last, nextSeq'))
  BY <1>1, <1>4 DEF Admitted
<1> HIDE DEF x
<1>8. ASSUME NEW batch, sender' = [sender EXCEPT !.pc = "sending", !.batch = batch]
      PROVE  SenderSound(sender') /\ sender'.pc = "sending"
  <2>1. sender'.pc = "sending" /\ DOMAIN sender' = {"pc", "epoch", "idr", "size", "batch"}
    BY <1>3, <1>8
  <2> QED
    BY <2>1 DEF SenderSound
<1>9. CASE /\ r.reason # NoRejection /\ m' = [x EXCEPT !.rejection = r.reason]
           /\ sender' = [sender EXCEPT !.pc = "sending", !.batch = <<>>]
           /\ drained' = drained
  <2> DEFINE why == r.reason
             y == [x EXCEPT !.rejection = why]
  <2>1. why # NoRejection /\ m' = y
    BY <1>9
  <2> HIDE DEF why
  <2>2. Tidy(y) /\ Chained(y, last) /\ y.rejection = why
    BY <1>7, Noted
  <2> HIDE DEF y
  <2>3. SenderSound(sender') /\ sender'.pc = "sending"
    BY <1>8, <1>9
  <2>4. ~Live(sender'.pc, y.rejection)
    BY <2>1, <2>2, <2>3 DEF Live
  <2>5. Sound(y, last, nextSeq', sender'.pc)
    BY <1>2, <1>5, <2>2, <2>4 DEF Sound
  <2>6. drained' = drained
    BY <1>9
  <2> QED
    BY <1>1, <2>1, <2>3, <2>5, <2>6 DEF ResponderInv
<1>10. ASSUME r.reason = NoRejection, NEW n \in Budgets(x), m' = Drain(x, n).m,
              sender' = [sender EXCEPT !.pc = "sending", !.batch = Batch(Drain(x, n).out)],
              RecordDrain(Drain(x, n).out)
       PROVE  ResponderInv'
  <2>1. Sound(x, last, nextSeq', "sending")
    BY <1>2, <1>5, <1>7, <1>10 DEF Sound
  <2> DEFINE out == Drain(x, n).out
             after == After(last, out)
  <2>2. Sound(m', after, nextSeq', "sending") /\ Unbroken(out, last)
    BY <1>10, <2>1, SoundDrain
  <2>3. RecordDrain(out)
    BY <1>10
  <2>4. SenderSound(sender') /\ sender'.pc = "sending"
    BY <1>8, <1>10
  <2> HIDE DEF out
  <2>5. drained'.last = after /\ drained'.unbroken = TRUE
    BY <1>1, <2>2, <2>3, RecordFacts
  <2> HIDE DEF after
  <2> QED
    BY <2>2, <2>4, <2>5 DEF ResponderInv
<1> QED
  BY <1>6, <1>9, <1>10 DEF x

\* An access unit that the packetizer refuses.
LEMMA PacketizerKeeps ==
  ASSUME ResponderInv, PacketizerRejects
  PROVE  ResponderInv'
<1> DEFINE last == drained.last
           x == ExpireIfNeeded(m)
           why == "PACER_ACCESS_UNIT_INVALID"
           y == [x EXCEPT !.rejection = why]
<1>1. /\ m' = y /\ sender' = Caller("done") /\ nextSeq' = nextSeq /\ drained' = drained
  BY DEF PacketizerRejects
<1>2. /\ Tidy(m) /\ Chained(m, last) /\ last \in [seq : Nat, epoch : Nat] /\ nextSeq \in Nat \ {0}
      /\ drained.unbroken = TRUE
  BY DEF ResponderInv, Sound
<1>3. Tidy(x) /\ Chained(x, last)
  BY <1>2, ExpireFacts DEF Given
<1> HIDE DEF x, why
<1>4. Tidy(y) /\ Chained(y, last)
  BY <1>3, Noted
<1> HIDE DEF y
<1>5. SenderSound(sender') /\ sender'.pc = "done"
  BY <1>1, CallerSound
<1>6. Sound(y, last, nextSeq, sender'.pc)
  BY <1>2, <1>4, <1>5 DEF Sound, Live
<1> QED
  BY <1>1, <1>2, <1>5, <1>6 DEF ResponderInv

\* What the sender does without the responder.
LEMMA CallerKeeps ==
  ASSUME ResponderInv, NEW pc \in {"settle", "done"}, sender' = Caller(pc), m' = m,
         nextSeq' = nextSeq, drained' = drained, pc = "settle" => sender.pc = "sending"
  PROVE  ResponderInv'
<1>1. SenderSound(sender') /\ sender'.pc = pc
  BY CallerSound
<1>2. Live(pc, m.rejection) => Live(sender.pc, m.rejection)
  BY DEF Live
<1>3. Sound(m, drained.last, nextSeq, pc)
  BY <1>2, SoundCaller DEF ResponderInv
<1> QED
  BY <1>1, <1>3 DEF ResponderInv

\* take_last_pacer_rejection: only without a rejection may the sender go on.
LEMMA SettleKeeps ==
  ASSUME ResponderInv, Settle
  PROVE  ResponderInv'
<1> DEFINE last == drained.last
           y == [m EXCEPT !.rejection = NoRejection]
<1>1. /\ sender.pc = "settle" /\ m' = y /\ nextSeq' = nextSeq /\ drained' = drained
      /\ \/ m.rejection = NoRejection /\ sender' = Caller("idle")
         \/ sender' = Caller("done")
  BY DEF Settle
<1>2. /\ Tidy(m) /\ Chained(m, last) /\ last \in [seq : Nat, epoch : Nat] /\ nextSeq \in Nat \ {0}
      /\ Live(sender.pc, m.rejection) => Abreast(m, last, nextSeq)
      /\ drained.unbroken = TRUE
  BY DEF ResponderInv, Sound
<1> DEFINE why == NoRejection
<1> HIDE DEF why
<1>3. /\ Tidy(y) /\ Chained(y, last)
      /\ \A next : Abreast(m, last, next) => Abreast(y, last, next)
  <2>1. LET z == [m EXCEPT !.rejection = why]
        IN  /\ Tidy(z) /\ Chained(z, last)
            /\ \A next : Abreast(m, last, next) => Abreast(z, last, next)
    BY <1>2, Noted
  <2> QED
    BY <2>1 DEF why
<1> HIDE DEF y
<1>4. CASE m.rejection = NoRejection /\ sender' = Caller("idle")
  <2>1. SenderSound(sender') /\ sender'.pc = "idle"
    BY <1>4, CallerSound
  <2>2. Live(sender.pc, m.rejection)
    BY <1>1, <1>4 DEF Live
  <2>3. Sound(y, last, nextSeq, sender'.pc)
    BY <1>2, <1>3, <2>2 DEF Sound
  <2> QED
    BY <1>1, <1>2, <2>1, <2>3 DEF ResponderInv
<1>5. CASE sender' = Caller("done")
  <2>1. SenderSound(sender') /\ sender'.pc = "done"
    BY <1>5, CallerSound
  <2>2. Sound(y, last, nextSeq, sender'.pc)
    BY <1>2, <1>3, <2>1 DEF Sound, Live
  <2> QED
    BY <1>1, <1>2, <2>1, <2>2 DEF ResponderInv
<1> QED
  BY <1>1, <1>4, <1>5

\* Any drain that leaves the sender where it is.
LEMMA DrainKeeps ==
  ASSUME ResponderInv, NEW n, Sound(n, drained.last, nextSeq, sender.pc), NEW k \in Budgets(n),
         m' = Drain(n, k).m, RecordDrain(Drain(n, k).out), nextSeq' = nextSeq, sender' = sender
  PROVE  ResponderInv'
<1> DEFINE out == Drain(n, k).out
           last == drained.last
           after == After(last, out)
<1>1. Sound(m', after, nextSeq, sender.pc) /\ Unbroken(out, last)
  BY SoundDrain
<1>2. RecordDrain(out) /\ drained.unbroken = TRUE /\ SenderSound(sender)
  BY DEF ResponderInv
<1> HIDE DEF out
<1>3. drained'.last = after /\ drained'.unbroken = TRUE
  BY <1>1, <1>2, RecordFacts
<1> HIDE DEF after
<1> QED
  BY <1>1, <1>2, <1>3 DEF ResponderInv

\* Any change of the responder that leaves the sender where it is.
LEMMA ChangeKeeps ==
  ASSUME ResponderInv, Tidy(m'), Chained(m', drained.last),
         Abreast(m, drained.last, nextSeq) => Abreast(m', drained.last, nextSeq),
         m'.rejection = NoRejection => m.rejection = NoRejection,
         nextSeq' = nextSeq, sender' = sender, drained' = drained
  PROVE  ResponderInv'
<1>1. Sound(m', drained.last, nextSeq, sender.pc)
  BY SoundChange DEF ResponderInv
<1> QED
  BY <1>1 DEF ResponderInv

\* The retransmissions of one decision as a sequence.
LEMMA OrderedAgain ==
  ASSUME NEW S \in SUBSET Nat, IsFiniteSet(S), NEW order \in Orders(S), NEW epoch
  PROVE  [i \in DOMAIN order |-> Retransmission(order[i], epoch)] \in Seq(Again(epoch))
<1> DEFINE c == Cardinality(S)
           p == [i \in 1 .. c |-> Retransmission(order[i], epoch)]
<1>1. c \in Nat
  BY FS_CardinalityType
<1>2. order \in [1 .. c -> S]
  BY DEF Orders
<1>3. \A i \in 1 .. c : Retransmission(order[i], epoch) \in Again(epoch)
  BY <1>2 DEF Again
<1> HIDE DEF c
<1>4. p \in [1 .. c -> Again(epoch)]
  BY <1>3
<1>5. p \in Seq(Again(epoch))
  BY <1>1, <1>4, SeqDef
<1>6. DOMAIN order = 1 .. c
  BY <1>2
<1> QED
  BY <1>5, <1>6

\* One feedback message: a decision, its retransmissions, and a drain.
LEMMA FeedbackKeeps ==
  ASSUME ResponderInv, NEW d, Decided(m, d), Feedback(d)
  PROVE  ResponderInv'
<1> DEFINE last == drained.last
<1>1. /\ Sound(m, last, nextSeq, sender.pc)
      /\ Tidy(m) /\ Chained(m, last) /\ last \in [seq : Nat, epoch : Nat]
  BY DEF ResponderInv, Sound
<1> DEFINE x == d.m
<1>2. Beside(m, x) /\ d.resend \subseteq DOMAIN m.cache
  BY DEF Decided
<1>3. d.resend \in SUBSET Nat /\ IsFiniteSet(d.resend)
  <2>1. DOMAIN m.cache \in SUBSET Nat /\ IsFiniteSet(DOMAIN m.cache)
    BY <1>1 DEF Tidy
  <2> QED
    BY <1>2, <2>1, FS_Subset
<1> HIDE DEF x
<1>4. /\ Tidy(x) /\ Chained(x, last) /\ x.rejection = m.rejection
      /\ \A next : Abreast(m, last, next) => Abreast(x, last, next)
  BY <1>1, <1>2, BesideKeeps
<1>5. PICK order \in Orders(d.resend) :
        LET r == AdmitRetransmissions(d.m,
                   [i \in DOMAIN order |-> Retransmission(order[i], m.epoch)])
            n == [r.m EXCEPT
                    !.rejection = IF r.reason = NoRejection THEN r.m.rejection ELSE r.reason,
                    !.notified = r.m.notified \/ r.m.flooded]
        IN  \E k \in Budgets(n) :
              m' = Drain(n, k).m /\ RecordDrain(Drain(n, k).out)
  BY DEF Feedback
<1> DEFINE p == [i \in DOMAIN order |-> Retransmission(order[i], m.epoch)]
           r == AdmitRetransmissions(x, p)
           y == r.m
           why == IF r.reason = NoRejection THEN y.rejection ELSE r.reason
           told == y.notified \/ y.flooded
           z == [y EXCEPT !.rejection = why]
           n == [y EXCEPT !.rejection = why, !.notified = told]
<1>6. p \in Seq(Again(m.epoch))
  BY <1>3, OrderedAgain
<1> HIDE DEF p
<1>7. Repeated(x, r, last)
  BY <1>1, <1>4, <1>6, ResendFacts
<1>8. \E k \in Budgets(n) : m' = Drain(n, k).m /\ RecordDrain(Drain(n, k).out)
  BY <1>5 DEF p, x
<1> HIDE DEF r
<1>9. /\ Tidy(y) /\ Chained(y, last) /\ y.rejection = m.rejection
      /\ \A next : Abreast(m, last, next) => Abreast(y, last, next)
  BY <1>4, <1>7 DEF Repeated
<1>10. why = NoRejection => y.rejection = NoRejection
  OBVIOUS
<1> HIDE DEF y, why, told
<1>11. /\ Tidy(z) /\ z.rejection = why /\ Chained(z, last)
       /\ \A next : Abreast(y, last, next) => Abreast(z, last, next)
  BY <1>9, Noted
<1>12. Beside(z, n)
  <2>1. DOMAIN z = RspFields
    BY <1>11 DEF Tidy
  <2>2. DOMAIN y = RspFields
    BY <1>9 DEF Tidy
  <2> QED
    BY <2>1, <2>2 DEF Beside, RspFields
<1> HIDE DEF z, n
<1>13. /\ Tidy(n) /\ Chained(n, last) /\ n.rejection = why
       /\ \A next : Abreast(z, last, next) => Abreast(n, last, next)
  BY <1>11, <1>12, BesideKeeps
<1>14. Sound(n, last, nextSeq, sender.pc)
  BY <1>1, <1>9, <1>10, <1>11, <1>13, SoundChange
<1>15. nextSeq' = nextSeq /\ sender' = sender
  BY DEF Feedback
<1>16. PICK k \in Budgets(n) : m' = Drain(n, k).m /\ RecordDrain(Drain(n, k).out)
  BY <1>8
<1> QED
  BY <1>14, <1>15, <1>16, DrainKeeps

\* The network thread: NACK, PLI and the transport.
LEMMA NetworkKeeps ==
  ASSUME ResponderInv, NetworkStep
  PROVE  ResponderInv'
<1>0. DOMAIN m = RspFields
  BY DEF ResponderInv, Sound, Tidy
<1>1. CASE IncomingNack
  <2>1. PICK ids \in Nacks : \E d \in HandleNack(m, m.epoch, ids) : Feedback(d)
    BY <1>1 DEF IncomingNack
  <2>2. PICK d \in HandleNack(m, m.epoch, ids) : Feedback(d)
    BY <2>1
  <2>3. Decided(m, d)
    BY <1>0, NackFacts
  <2> QED
    BY <2>2, <2>3, FeedbackKeeps
<1>2. CASE IncomingPli
  <2>1. Decided(m, HandlePli(m, m.epoch))
    BY <1>0, PliFacts
  <2>2. Feedback(HandlePli(m, m.epoch))
    BY <1>2 DEF IncomingPli
  <2> QED
    BY <2>1, <2>2, FeedbackKeeps
<1>3. CASE NetworkTransmit \/ NetworkTransmitFails
  BY <1>3 DEF NetworkTransmit, NetworkTransmitFails, ResponderInv
<1> QED
  BY <1>1, <1>2, <1>3 DEF NetworkStep

\* The worker thread: drain, transport, recovery and exit.
LEMMA WorkerKeeps ==
  ASSUME ResponderInv, WorkerStep
  PROVE  ResponderInv'
<1> DEFINE last == drained.last
<1>1. CASE WorkerDrain
  <2>1. PICK k \in Budgets(m) : m' = Drain(m, k).m /\ RecordDrain(Drain(m, k).out)
    BY <1>1 DEF WorkerDrain
  <2>2. nextSeq' = nextSeq /\ sender' = sender /\ Sound(m, last, nextSeq, sender.pc)
    BY <1>1 DEF WorkerDrain, ResponderInv
  <2> QED
    BY <2>1, <2>2, DrainKeeps
<1>2. CASE WorkerRecover
  <2> DEFINE x == RequireRecovery(m)
             why == "PACER_ASYNC_TRANSPORT_SEND_FAILED"
             y == [x EXCEPT !.rejection = why]
  <2>1. m' = y /\ nextSeq' = nextSeq /\ sender' = sender /\ drained' = drained
    BY <1>2 DEF WorkerRecover
  <2>2. Tidy(m) /\ Chained(m, last) /\ last \in [seq : Nat, epoch : Nat]
    BY DEF ResponderInv, Sound
  <2>3. Tidy(x) /\ Chained(x, last) /\ (x.awaiting \/ x.stopped)
    BY <2>2, RecoveryFacts DEF Given
  <2>4. why # NoRejection
    BY DEF NoRejection
  <2> HIDE DEF x, why
  <2>5. /\ Tidy(y) /\ Chained(y, last) /\ y.rejection = why
        /\ y.awaiting = x.awaiting /\ y.stopped = x.stopped
    BY <2>3, Noted
  <2> HIDE DEF y
  <2>6. Abreast(y, last, nextSeq)
    BY <2>3, <2>5, Fallen
  <2> QED
    BY <2>1, <2>4, <2>5, <2>6, ChangeKeeps
<1>3. CASE WorkerTransmit \/ WorkerTransmitFails \/ WorkerExit
  BY <1>3 DEF WorkerTransmit, WorkerTransmitFails, WorkerExit, ResponderInv
<1> QED
  BY <1>1, <1>2, <1>3 DEF WorkerStep

\* The stop purges the queue and the cache for good.
LEMMA StopKeeps ==
  ASSUME ResponderInv, StopResponder
  PROVE  ResponderInv'
<1> DEFINE last == drained.last
           s == StopPacer(m)
           w == StopRecovery(s)
           x == [w EXCEPT !.stopping = TRUE, !.epoch = 0]
<1>1. /\ m' = x /\ nextSeq' = nextSeq /\ sender' = sender /\ drained' = drained
  BY DEF StopResponder
<1>2. Tidy(m) /\ Chained(m, last) /\ last \in [seq : Nat, epoch : Nat]
  BY DEF ResponderInv, Sound
<1>3. /\ Tidy(s) /\ Chained(s, last) /\ s.rejection = m.rejection /\ s.stopped
  <2>1. CASE m.stopped
    <3>1. s = m
      BY <2>1 DEF StopPacer
    <3> QED
      BY <1>2, <2>1, <3>1
  <2>2. CASE ~m.stopped
    <3> DEFINE u == Purge(m, FALSE)
               v == [u EXCEPT !.stopped = TRUE]
    <3>1. s = v
      BY <2>2 DEF StopPacer
    <3>2. /\ Tidy(u) /\ Chained(u, last) /\ u.rejection = m.rejection /\ u.queue = <<>>
          /\ u.cache = <<>> /\ u.awaiting = FALSE
      <4>1. FALSE \in BOOLEAN
        OBVIOUS
      <4> QED
        BY <1>2, <4>1, PurgeFacts, PurgeChained
    <3> HIDE DEF u
    <3>3. DOMAIN u = RspFields
      BY <3>2 DEF Tidy
    <3>4. /\ DOMAIN v = RspFields /\ v.queue = u.queue /\ v.cache = u.cache
          /\ v.awaiting = u.awaiting /\ v.active = u.active /\ v.abandoned = u.abandoned
          /\ v.rejection = u.rejection /\ v.stopped = TRUE
      BY <3>3 DEF RspFields
    <3> HIDE DEF v
    <3>5. Tidy(v)
      <4>1. /\ v.queue \in Seq(Packet) /\ Len(v.queue) <= PacerCapacity
            /\ \A i \in 1 .. Len(v.queue) : v.queue[i].epoch = v.active
            /\ v.awaiting \in BOOLEAN /\ v.active \in Nat /\ v.abandoned \in Nat
        BY <3>2, <3>4 DEF Tidy
      <4>2. v.stopped \in BOOLEAN /\ ~(v.queue # <<>>) /\ DOMAIN v.cache = {}
        BY <3>2, <3>4, NoPackets
      <4> QED
        BY <3>4, <4>1, <4>2, NoPackets DEF Tidy
    <3>6. Chained(v, last)
      BY <3>2, <3>4 DEF Chained
    <3> QED
      BY <3>1, <3>2, <3>4, <3>5, <3>6
  <2> QED
    BY <2>1, <2>2
<1> HIDE DEF s
<1>4. DOMAIN s = RspFields
  BY <1>3 DEF Tidy
<1>5. Beside(s, w)
  <2> DEFINE c == Clear(s)
  <2>1. Beside(s, c)
    BY <1>4, BesideCache
  <2> HIDE DEF c
  <2>2. DOMAIN c = RspFields
    BY <2>1 DEF Beside
  <2>3. Beside(c, [c EXCEPT !.recStopped = TRUE, !.feedback = <<>>, !.nacks = <<>>])
    BY <2>2 DEF Beside, RspFields
  <2>4. w = [c EXCEPT !.recStopped = TRUE, !.feedback = <<>>, !.nacks = <<>>]
    BY DEF StopRecovery, c
  <2> HIDE DEF w
  <2> QED
    BY <2>1, <2>3, <2>4, BesideBeside
<1> HIDE DEF w
<1>6. Beside(w, x)
  <2>1. DOMAIN w = RspFields
    BY <1>5 DEF Beside
  <2> QED
    BY <2>1 DEF Beside, RspFields
<1> HIDE DEF x
<1>7. Beside(s, x)
  BY <1>5, <1>6, BesideBeside
<1>8. Tidy(x) /\ Chained(x, last) /\ x.rejection = m.rejection
  BY <1>3, <1>7, BesideKeeps
<1>9. Abreast(x, last, nextSeq)
  <2>1. x.stopped = s.stopped
    BY <1>7 DEF Beside
  <2> QED
    BY <1>3, <2>1, Fallen
<1> QED
  BY <1>1, <1>8, <1>9, ChangeKeeps

\* The clock.
LEMMA TickKeeps ==
  ASSUME ResponderInv, RspTick
  PROVE  ResponderInv'
<1> DEFINE last == drained.last
           x == Aged(m)
<1>1. m' = x /\ nextSeq' = nextSeq /\ sender' = sender /\ drained' = drained
  BY DEF RspTick
<1>2. Tidy(m) /\ Chained(m, last) /\ last \in [seq : Nat, epoch : Nat]
  BY DEF ResponderInv, Sound
<1>3. /\ Tidy(x) /\ Chained(x, last) /\ x.rejection = m.rejection
      /\ \A next : Abreast(m, last, next) => Abreast(x, last, next)
  BY <1>2, AgedFacts
<1> HIDE DEF x
<1> QED
  BY <1>1, <1>3, ChangeKeeps

\* Every step of the three threads and of the clock keeps the invariant.
LEMMA ResponderStep == ResponderInv /\ [RspNext]_rspVars => ResponderInv'
<1> SUFFICES ASSUME ResponderInv, [RspNext]_rspVars PROVE ResponderInv'
  OBVIOUS
<1>1. ASSUME NEW epoch \in 1 .. RspMaxEpoch, NEW idr \in BOOLEAN, NEW size \in AccessUnitSizes,
             SendAccessUnit(epoch, idr, size)
      PROVE  ResponderInv'
  BY <1>1, SendKeeps
<1>2. CASE BeginEpoch
  BY <1>2, BeginKeeps
<1>3. CASE Outgoing
  BY <1>3, OutgoingKeeps
<1>4. CASE PacketizerRejects
  BY <1>4, PacketizerKeeps
<1>5. CASE SenderTransmit
  BY <1>5, CallerKeeps DEF SenderTransmit
<1>6. CASE SenderTransmitFails
  BY <1>6, CallerKeeps DEF SenderTransmitFails
<1>7. CASE Settle
  BY <1>7, SettleKeeps
<1>8. CASE NetworkStep
  BY <1>8, NetworkKeeps
<1>9. CASE WorkerStep
  BY <1>9, WorkerKeeps
<1>10. CASE StopBegin
  BY <1>10, CallerKeeps DEF StopBegin
<1>11. CASE StopResponder
  BY <1>11, StopKeeps
<1>12. CASE StopJoin
  BY <1>12 DEF StopJoin, ResponderInv
<1>13. CASE RspTick
  BY <1>13, TickKeeps
<1>14. CASE UNCHANGED rspVars
  BY <1>14 DEF rspVars, ResponderInv
<1> QED
  BY <1>1, <1>2, <1>3, <1>4, <1>5, <1>6, <1>7, <1>8, <1>9, <1>10, <1>11, <1>12, <1>13, <1>14
     DEF RspNext, SenderStep, StopStep

\* The inductive invariant of the responder and its sender.
THEOREM ResponderIsSound == RspSpec => []ResponderInv
BY ResponderInit, ResponderStep, PTL DEF RspSpec

\* The queue holds one epoch within its bound, and the cache none that was
\* purged, for every interleaving of the sender, network and worker threads.
THEOREM OneEpochIsInFlight == RspSpec => []OneEpochInFlight
<1>1. ResponderInv => OneEpochInFlight
  <2> SUFFICES ASSUME Tidy(m) PROVE OneEpochInFlight
    BY DEF ResponderInv, Sound
  <2>1. DOMAIN m.queue = 1 .. Len(m.queue)
    <3>1. m.queue \in Seq(Packet)
      BY DEF Tidy
    <3> QED
      BY <3>1, LenProperties
  <2> QED
    BY <2>1 DEF Tidy, OneEpochInFlight
<1> QED
  BY <1>1, ResponderIsSound, PTL

\* No packet is released after a gap unless it starts the IDR access unit of a
\* later dependency epoch, whichever thread purged, refused or failed before.
THEOREM ChainIsUnbroken == RspSpec => []ChainUnbroken
<1>1. ResponderInv => ChainUnbroken
  BY DEF ResponderInv, ChainUnbroken
<1> QED
  BY <1>1, ResponderIsSound, PTL
-----------------------------------------------------------------------------
(***************************************************************************)
(* Retransmissions.  The cache is counted when a NACK is resolved; the     *)
(* packet then waits in the queue, is drained by any thread and sent by    *)
(* it after the mutex.  Accounts follows every copy of it:                 *)
(*   Typed    the fields of the recovery controller and of the pacer;      *)
(*   Stocked  the cache holds the last packets released, without a gap, no *)
(*            more of them than its bound and the older the longer;        *)
(*   Rising   the queue continues above what was released, so that a       *)
(*            number is cached once;                                       *)
(*   Ledger   the copies of a packet that were sent, are in the hands of a *)
(*            thread or are queued are counted by its cache entry, and are *)
(*            within the limit when it has none any more.                  *)
(***************************************************************************)

\* The copies of a packet among the elements of a queue or of a batch.
Copies(q, s) == {i \in 1 .. Len(q) : q[i].rtx = TRUE /\ q[i].seq = s}

Times(q, s) == Cardinality(Copies(q, s))

\* A set of places moved up is as large.
LEMMA ShiftedPlaces ==
  ASSUME NEW n \in Nat, NEW k \in Nat, NEW B \in SUBSET (1 .. k)
  PROVE  LET T == {i \in n + 1 .. n + k : i - n \in B}
         IN  IsFiniteSet(B) /\ IsFiniteSet(T) /\ Cardinality(T) = Cardinality(B)
<1> DEFINE T == {i \in n + 1 .. n + k : i - n \in B}
           f == [b \in B |-> n + b]
<1>1. IsFiniteSet(B)
  <2>1. IsFiniteSet(1 .. k)
    BY FS_Interval
  <2> QED
    BY <2>1, FS_Subset
<1>2. \A b \in B : b \in Nat /\ f[b] = n + b /\ n + b \in n + 1 .. n + k /\ (n + b) - n = b
  OBVIOUS
<1>3. f \in [B -> T]
  BY <1>2
<1>4. \A a, b \in B : f[a] = f[b] => a = b
  <2> TAKE a, b \in B
  <2>1. \A x, y \in Nat : n + x = n + y => x = y
    OBVIOUS
  <2> HIDE DEF f
  <2> QED
    BY <1>2, <2>1
<1>5. \A t \in T : \E b \in B : f[b] = t
  <2> TAKE t \in T
  <2>1. t - n \in B /\ n + (t - n) = t
    OBVIOUS
  <2>2. f[t - n] = t
    BY <1>2, <2>1
  <2> QED
    BY <2>1, <2>2
<1> HIDE DEF T, f
<1>6. f \in Bijection(B, T)
  BY <1>3, <1>4, <1>5 DEF Bijection, Injection, Surjection, IsInjective
<1>7. ExistsBijection(B, T)
  BY <1>6 DEF ExistsBijection
<1>8. IsFiniteSet(T) /\ Cardinality(T) = Cardinality(B)
  BY <1>1, <1>7, FS_Bijection
<1> QED
  BY <1>1, <1>8 DEF T

\* Copies are counted.
LEMMA TimesType ==
  ASSUME NEW T, NEW q \in Seq(T), NEW s
  PROVE  Times(q, s) \in Nat /\ IsFiniteSet(Copies(q, s)) /\ Copies(q, s) \in SUBSET (1 .. Len(q))
<1>1. Len(q) \in Nat
  BY LenProperties
<1>2. IsFiniteSet(1 .. Len(q)) /\ Copies(q, s) \in SUBSET (1 .. Len(q))
  BY <1>1, FS_Interval DEF Copies
<1>3. IsFiniteSet(Copies(q, s))
  BY <1>2, FS_Subset
<1> QED
  BY <1>2, <1>3, FS_CardinalityType DEF Times

\* One sequence behind another.
Joined(q, a, b) ==
  /\ Len(q) = Len(a) + Len(b)
  /\ \A i \in 1 .. Len(a) : q[i] = a[i]
  /\ \A i \in 1 .. Len(b) : q[Len(a) + i] = b[i]

\* The copies in a joined queue are those of its two parts.
LEMMA TimesJoin ==
  ASSUME NEW T, NEW q \in Seq(T), NEW a \in Seq(T), NEW b \in Seq(T), NEW s, Joined(q, a, b)
  PROVE  Times(q, s) = Times(a, s) + Times(b, s)
<1> DEFINE n == Len(a)
           k == Len(b)
           A == Copies(a, s)
           B == Copies(b, s)
           U == {i \in n + 1 .. n + k : i - n \in B}
<1>1. /\ n \in Nat /\ k \in Nat /\ Len(q) = n + k
      /\ \A i \in 1 .. n : q[i] = a[i]
      /\ \A i \in 1 .. k : q[n + i] = b[i]
  BY LenProperties DEF Joined
<1>2. /\ A \in SUBSET (1 .. n) /\ IsFiniteSet(A) /\ B \in SUBSET (1 .. k) /\ IsFiniteSet(B)
      /\ Cardinality(A) \in Nat /\ Cardinality(B) \in Nat
  BY TimesType DEF Times
<1>3. IsFiniteSet(U) /\ Cardinality(U) = Cardinality(B)
  <2> HIDE DEF B, n, k
  <2> QED
    BY <1>1, <1>2, ShiftedPlaces
<1>4. \A i \in 1 .. n : i \in Copies(q, s) <=> i \in A
  BY <1>1 DEF Copies
<1>5. \A i \in n + 1 .. n + k : i \in Copies(q, s) <=> i \in U
  <2> TAKE i \in n + 1 .. n + k
  <2>1. i - n \in 1 .. k /\ n + (i - n) = i /\ i \in 1 .. n + k
    BY <1>1
  <2>2. q[i] = b[i - n]
    <3>1. q[n + (i - n)] = b[i - n]
      BY <1>1, <2>1
    <3> QED
      BY <2>1, <3>1
  <2>3. i \in Copies(q, s) <=> i - n \in B
    BY <1>1, <2>1, <2>2 DEF Copies
  <2> HIDE DEF B
  <2> QED
    BY <2>3
<1>6. Copies(q, s) \in SUBSET (1 .. n + k)
  BY <1>1 DEF Copies
<1>7. \A i \in 1 .. n + k : i \in 1 .. n \/ i \in n + 1 .. n + k
  BY <1>1
<1>8. U \in SUBSET (n + 1 .. n + k) /\ A \cap U = {}
  BY <1>1, <1>2
<1> HIDE DEF A, B, U, n, k
<1>9. Copies(q, s) = A \cup U
  BY <1>1, <1>2, <1>4, <1>5, <1>6, <1>7, <1>8
<1>10. Cardinality(A \cup U) = Cardinality(A) + Cardinality(U)
  <2>1. Cardinality(A \cup U) = Cardinality(A) + Cardinality(U) - Cardinality(A \cap U)
    BY <1>2, <1>3, FS_Union
  <2>2. Cardinality(A \cap U) = 0
    BY <1>8, FS_EmptySet
  <2> QED
    BY <1>2, <1>3, <2>1, <2>2
<1> QED
  BY <1>3, <1>9, <1>10 DEF Times, A, B

\* No copies among no packets, or among first transmissions.
LEMMA TimesNone ==
  ASSUME NEW T, NEW q \in Seq(T), NEW s, \A i \in 1 .. Len(q) : q[i].rtx = FALSE
  PROVE  Times(q, s) = 0
<1>1. Copies(q, s) = {}
  BY DEF Copies
<1> QED
  BY <1>1, FS_EmptySet DEF Times

\* The copies of another queue of the same packets.
LEMMA TimesAlike ==
  ASSUME NEW q, NEW r, NEW s, Len(r) = Len(q),
         \A i \in 1 .. Len(q) : r[i].rtx = q[i].rtx /\ r[i].seq = q[i].seq
  PROVE  Times(r, s) = Times(q, s)
<1>1. Copies(r, s) = Copies(q, s)
  BY DEF Copies
<1> QED
  BY <1>1 DEF Times

\* What a transport takes of a batch is no more than the batch.
LEMMA TimesSent ==
  ASSUME NEW T, NEW q \in Seq(T), NEW k \in 0 .. Len(q), NEW s
  PROVE  Retransmissions(q, k, s) \in Nat /\ Retransmissions(q, k, s) <= Times(q, s)
<1> DEFINE S == {i \in 1 .. k : q[i] = [seq |-> s, rtx |-> TRUE]}
<1>1. Len(q) \in Nat
  BY LenProperties
<1>2. S \in SUBSET Copies(q, s)
  <2> SUFFICES ASSUME NEW i \in S PROVE i \in Copies(q, s)
    OBVIOUS
  <2>1. q[i].seq = s /\ q[i].rtx = TRUE /\ i \in 1 .. Len(q)
    BY <1>1
  <2> QED
    BY <2>1 DEF Copies
<1> HIDE DEF S
<1>3. IsFiniteSet(S) /\ Cardinality(S) <= Cardinality(Copies(q, s))
  BY <1>2, TimesType, FS_Subset
<1>4. Cardinality(S) \in Nat
  BY <1>3, FS_CardinalityType
<1> QED
  BY <1>3, <1>4 DEF S, Retransmissions, Times

\* A function on 1 .. n has a bound.
LEMMA ValuesBounded ==
  ASSUME NEW n \in Nat, NEW f \in [1 .. n -> Nat]
  PROVE  \E b \in Nat : \A i \in 1 .. n : f[i] <= b
<1> DEFINE free == {k \in 0 .. n : ~\E b \in Nat : \A i \in 1 .. k : f[i] <= b}
<1>1. CASE free = {}
  <2>1. n \in 0 .. n
    OBVIOUS
  <2> QED
    BY <1>1, <2>1
<1>2. CASE free # {}
  <2>1. free \in SUBSET Nat
    OBVIOUS
  <2> HIDE DEF free
  <2>2. PICK k \in free : \A j \in free : k <= j
    BY <1>2, <2>1, LeastNumber
  <2>3. k \in 0 .. n /\ ~\E b \in Nat : \A i \in 1 .. k : f[i] <= b
    BY <2>2 DEF free
  <2>4. CASE k = 0
    <3>1. \A i \in 1 .. k : f[i] <= 0
      BY <2>4
    <3> QED
      BY <2>3, <3>1
  <2>5. CASE k # 0
    <3>1. k - 1 \in 0 .. n /\ ~(k <= k - 1)
      BY <2>3, <2>5
    <3>2. k - 1 \notin free
      BY <2>2, <3>1
    <3>3. PICK b \in Nat : \A i \in 1 .. k - 1 : f[i] <= b
      BY <3>1, <3>2 DEF free
    <3>4. f[k] \in Nat /\ b + f[k] \in Nat
      BY <2>3, <2>5
    <3>5. \A i \in 1 .. k : f[i] <= b + f[k]
      <4> TAKE i \in 1 .. k
      <4>1. CASE i = k
        BY <3>4, <4>1
      <4>2. CASE i # k
        <5>1. i \in 1 .. k - 1 /\ f[i] \in Nat
          BY <2>3, <4>2
        <5>2. f[i] <= b
          BY <3>3, <5>1
        <5> QED
          BY <3>4, <5>1, <5>2
      <4> QED
        BY <4>1, <4>2
    <3> QED
      BY <2>3, <3>4, <3>5
  <2> QED
    BY <2>4, <2>5
<1> QED
  BY <1>1, <1>2

\* The largest access unit, and the numbers there are for all of them.
LEMMA LargestUnit ==
  /\ Largest(AccessUnitSizes) \in Nat \ {0}
  /\ \A size \in AccessUnitSizes : size \in Nat \ {0} /\ size <= Largest(AccessUnitSizes)
  /\ MaxAccessUnits \in Nat \ {0} /\ MaxAccessUnits * Largest(AccessUnitSizes) \in Nat
  /\ Seqs = 1 .. MaxAccessUnits * Largest(AccessUnitSizes)
<1> DEFINE S == AccessUnitSizes
<1>1. /\ S \in SUBSET Nat /\ IsFiniteSet(S) /\ S # {} /\ MaxAccessUnits \in Nat \ {0}
      /\ \A size \in S : size \in Nat \ {0}
  BY ResponderAssumption
<1>2. PICK n \in Nat : ExistsSurjection(1 .. n, S)
  BY <1>1, FS_NatSurjection
<1>3. PICK f \in [1 .. n -> S] : \A t \in S : \E i \in 1 .. n : f[i] = t
  BY <1>2 DEF ExistsSurjection, Surjection
<1>4. f \in [1 .. n -> Nat]
  BY <1>1, <1>3
<1>5. PICK b \in Nat : \A i \in 1 .. n : f[i] <= b
  BY <1>4, ValuesBounded
<1>6. S \in SUBSET (0 .. b)
  BY <1>1, <1>3, <1>5
<1>7. Largest(S) \in S /\ \A k \in S : k <= Largest(S)
  BY <1>1, <1>6, GreatestNumber
<1>8. MaxAccessUnits * Largest(S) \in Nat
  <2>1. \A x, y \in Nat : x * y \in Nat
    OBVIOUS
  <2> QED
    BY <1>1, <1>7, <2>1
<1> QED
  BY <1>1, <1>7, <1>8 DEF Seqs

\* A multiple of a number that lies between zero and it is zero.
LEMMA SmallMultiple ==
  ASSUME NEW w \in Nat \ {0}, NEW k \in Int, w * k < w, 0 < w * k
  PROVE  FALSE
<1>1. CASE k <= 0
  <2>1. w * k <= 0
    BY <1>1
  <2> QED
    BY <2>1
<1>2. CASE k >= 1
  <2>1. w * k >= w
    BY <1>2
  <2> QED
    BY <2>1
<1> QED
  BY <1>1, <1>2

\* A number is its quotient and its remainder.
LEMMA Quotient ==
  ASSUME NEW s \in Int, NEW w \in Int, w > 0
  PROVE  s = w * (s \div w) + (s % w) /\ s \div w \in Int /\ s % w \in 0 .. w - 1
BY SMTT(30)

\* Two numbers closer than the modulus have different wire numbers.
LEMMA WireNumbers ==
  ASSUME NEW s \in Nat, NEW t \in Nat, s < t, t - s < WireModulus
  PROVE  s % WireModulus # t % WireModulus
<1> DEFINE w == WireModulus
<1>1. w \in Nat \ {0}
  BY RecoveryAssumption
<1> HIDE DEF w
<1>2. /\ s \div w \in Int /\ t \div w \in Int
      /\ s = w * (s \div w) + (s % w) /\ t = w * (t \div w) + (t % w)
      /\ s % w \in Int /\ t % w \in Int
  <2>1. s \in Int /\ t \in Int /\ w \in Int /\ w > 0
    BY <1>1
  <2>2. s = w * (s \div w) + (s % w) /\ s \div w \in Int /\ s % w \in 0 .. w - 1
    BY <2>1, Quotient
  <2>3. t = w * (t \div w) + (t % w) /\ t \div w \in Int /\ t % w \in 0 .. w - 1
    BY <2>1, Quotient
  <2> QED
    BY <2>1, <2>2, <2>3
<1>3. SUFFICES ASSUME s % w = t % w PROVE FALSE
  BY DEF w
<1> DEFINE k == (t \div w) - (s \div w)
<1>5. t - s = w * k /\ k \in Int
  <2>1. \A x, y, r \in Int : (w * y + r) - (w * x + r) = w * (y - x)
    BY <1>1
  <2> DEFINE a == s \div w
             b == t \div w
             r == s % w
  <2>2. a \in Int /\ b \in Int /\ r \in Int /\ s = w * a + r /\ t = w * b + r
    BY <1>2, <1>3
  <2> HIDE DEF a, b, r
  <2>3. (w * b + r) - (w * a + r) = w * (b - a)
    BY <2>1, <2>2
  <2>4. t - s = w * (b - a) /\ b - a \in Int
    BY <2>2, <2>3
  <2> QED
    BY <2>4 DEF a, b
<1> HIDE DEF k
<1>6. 0 < w * k /\ w * k < w
  BY <1>5 DEF w
<1> QED
  BY <1>1, <1>5, <1>6, SmallMultiple

\* A set without a gap up to its end has all the numbers in between.
LEMMA NoGap ==
  ASSUME NEW S \in SUBSET Nat, NEW b \in Nat,
         \A s \in S : s <= b /\ (s = b \/ s + 1 \in S),
         NEW s \in S
  PROVE  s .. b \in SUBSET S
<1> DEFINE miss == {t \in s .. b : t \notin S}
<1>1. s \in Nat /\ s <= b /\ miss \in SUBSET Nat
  OBVIOUS
<1>2. CASE miss = {}
  BY <1>2
<1>3. CASE miss # {}
  <2> HIDE DEF miss
  <2>1. PICK t \in miss : \A j \in miss : t <= j
    BY <1>1, <1>3, LeastNumber
  <2>2. t \in s .. b /\ t \notin S
    BY <2>1 DEF miss
  <2>3. t # s
    BY <2>2
  <2>4. t - 1 \in s .. b /\ ~(t <= t - 1) /\ t - 1 # b /\ (t - 1) + 1 = t
    BY <1>1, <2>2, <2>3
  <2>5. t - 1 \in S
    BY <2>1, <2>4 DEF miss
  <2>6. (t - 1) + 1 \in S
    BY <2>4, <2>5
  <2> QED
    BY <2>2, <2>4, <2>6
<1> QED
  BY <1>2, <1>3

-----------------------------------------------------------------------------
\* A packet in the queue and an entry of the cache.
Queued ==
  [seq : Seqs, epoch : Epochs, idr : Flag, start : Flag, rtx : Flag, age : 0 .. PacerAge]

Entry == [age : 0 .. CacheAge, resent : 0 .. MaxRetransmissions]

\* The fields of the pacer and those of the recovery controller.
Paced(n) ==
  /\ DOMAIN n = RspFields
  /\ n.active \in Epochs /\ n.abandoned \in Epochs /\ n.cacheEpoch \in Epochs
  /\ n.queue \in Seq(Queued) /\ n.rejection \in Rejections

Watched(n) ==
  /\ n.recEpoch \in Epochs /\ n.epoch \in Epochs /\ n.lastIdr \in 0 .. Window
  /\ n.feedback \in Seq(0 .. Window) /\ Len(n.feedback) <= MaxFeedback + 1
  /\ DOMAIN n.nacks \in SUBSET (0 .. WireModulus - 1) /\ Cardinality(DOMAIN n.nacks) <= MaxNackIds
  /\ \A i \in DOMAIN n.nacks : n.nacks[i] \in 0 .. Window
  /\ n.overload = NoOverload \/ n.overload \in 0 .. FloodTime
  /\ n.recStopped \in Flag /\ n.flooded \in Flag /\ n.stopping \in Flag /\ n.notified \in Flag

\* The cache holds the last packets released, without a gap.
Stocked(n, last) ==
  /\ DOMAIN n.cache \in SUBSET Seqs
  /\ \A s \in DOMAIN n.cache :
       /\ n.cache[s] \in Entry /\ s <= last.seq /\ last.seq - s < CachePackets
       /\ s = last.seq \/ s + 1 \in DOMAIN n.cache
       /\ \A t \in DOMAIN n.cache : s < t => n.cache[t].age <= n.cache[s].age
  /\ DOMAIN n.cache # {} => last.epoch = n.active

\* The first transmissions in the queue are above what was released.
Rising(q, last, next) ==
  /\ last.seq < next
  /\ \A i \in FirstSent(q) : last.seq < q[i].seq /\ q[i].seq < next
  /\ \A i, j \in FirstSent(q) : i < j => q[i].seq < q[j].seq

\* What was sent or is on its way to the transport (out), and what is queued.
Owed(n, out, s) == out[s] + Times(n.queue, s)

Ledger(n, out, last) ==
  \A s \in Seqs : /\ Owed(n, out, s) <= MaxRetransmissions
                  /\ s \in DOMAIN n.cache => Owed(n, out, s) <= n.cache[s].resent
                  /\ s > last.seq => Owed(n, out, s) = 0

Accounts(n, out, last, next) ==
  /\ out \in [Seqs -> Nat] /\ last \in [seq : Nat, epoch : Nat] /\ next \in Nat
  /\ Paced(n) /\ Watched(n)
  /\ Stocked(n, last) /\ Rising(n.queue, last, next) /\ Ledger(n, out, last)

\* The bounds of the recovery controller and of the pacer.
LEMMA RecoveryBounds ==
  /\ Window \in Nat \ {0} /\ FloodTime \in Nat \ {0} /\ MaxFeedback \in Nat \ {0}
  /\ MaxNackIds \in Nat \ {0} /\ CacheAge \in Nat \ {0} /\ CachePackets \in Nat \ {0}
  /\ MaxRetransmissions \in Nat \ {0} /\ WireModulus \in Nat \ {0} /\ CachePackets < WireModulus
  /\ PacerAge \in Nat \ {0} /\ RspMaxEpoch \in Nat \ {0} /\ 0 \in Epochs /\ Epochs \in SUBSET Nat
  /\ Seqs \in SUBSET (Nat \ {0})
<1>1. RspMaxEpoch \in Nat \ {0}
  BY ResponderAssumption
<1>2. 0 \in Epochs /\ Epochs \in SUBSET Nat
  BY <1>1 DEF Epochs
<1>3. Seqs \in SUBSET (Nat \ {0})
  BY LargestUnit
<1> QED
  BY <1>1, <1>2, <1>3, RecoveryAssumption, PacerAssumption

\* The packets of the queue have their fields.
LEMMA QueuedFacts ==
  ASSUME NEW q \in Seq(Queued)
  PROVE  /\ q \in Seq(Packet) /\ Len(q) \in Nat /\ DOMAIN q = 1 .. Len(q)
         /\ \A i \in 1 .. Len(q) : /\ q[i] \in Queued /\ q[i].seq \in Seqs /\ q[i].seq \in Nat
                                   /\ q[i].rtx \in Flag
         /\ FirstSent(q) \in SUBSET (1 .. Len(q))
         /\ \A s : Times(q, s) \in Nat
<1>1. Len(q) \in Nat /\ DOMAIN q = 1 .. Len(q) /\ \A i \in 1 .. Len(q) : q[i] \in Queued
  BY LenProperties, ElementOfSeq
<1>2. \A z \in Queued : z.seq \in Seqs /\ z.rtx \in Flag /\ z \in Packet
  <2> SUFFICES ASSUME NEW z \in Queued PROVE z.seq \in Seqs /\ z.rtx \in Flag /\ z \in Packet
    OBVIOUS
  <2>1. Seqs \in SUBSET Nat /\ Epochs \in SUBSET Nat /\ 0 .. PacerAge \in SUBSET Nat
    BY RecoveryBounds
  <2>2. Queued \in SUBSET Packet
    BY <2>1 DEF Queued, Packet
  <2> QED
    BY <2>2 DEF Queued
<1>3. q \in Seq(Packet)
  <2>1. q \in [1 .. Len(q) -> Queued]
    BY LenProperties
  <2>2. q \in [1 .. Len(q) -> Packet]
    BY <1>2, <2>1
  <2> QED
    BY <1>1, <2>2, SeqDef
<1>4. \A i \in 1 .. Len(q) : q[i].seq \in Seqs /\ q[i].seq \in Nat /\ q[i].rtx \in Flag
  BY <1>1, <1>2, RecoveryBounds
<1>5. FirstSent(q) \in SUBSET (1 .. Len(q))
  BY <1>1 DEF FirstSent
<1>6. \A s : Times(q, s) \in Nat
  BY TimesType
<1> QED
  BY <1>1, <1>3, <1>4, <1>5, <1>6

\* No packets: nothing is owed beyond what is out.
LEMMA NothingQueued ==
  /\ <<>> \in Seq(Queued) /\ Len(<<>>) = 0 /\ FirstSent(<<>>) = {} /\ DOMAIN <<>> = {}
  /\ \A s : Times(<<>>, s) = 0
<1>1. <<>> \in Seq(Queued) /\ Len(<<>>) = 0 /\ FirstSent(<<>>) = {} /\ DOMAIN <<>> = {}
  BY EmptySeq, NoPackets
<1>2. ASSUME NEW s PROVE Times(<<>>, s) = 0
  <2>1. \A i \in 1 .. Len(<<>>) : <<>>[i].rtx = FALSE
    BY <1>1
  <2> QED
    BY <1>1, <2>1, TimesNone
<1> QED
  BY <1>1, <1>2

\* A state without a queue and without a cache.
LEMMA EmptiedAccounts ==
  ASSUME NEW n, NEW out, NEW last, NEW next, Accounts(n, out, last, next),
         NEW x, Paced(x), Watched(x), x.queue = <<>>, x.cache = <<>>
  PROVE  Accounts(x, out, last, next)
<1>1. /\ out \in [Seqs -> Nat] /\ last \in [seq : Nat, epoch : Nat] /\ next \in Nat
      /\ n.queue \in Seq(Queued) /\ last.seq < next /\ Ledger(n, out, last)
  BY DEF Accounts, Paced, Rising
<1>2. Stocked(x, last)
  <2>1. DOMAIN x.cache = {}
    BY NothingQueued
  <2> QED
    BY <2>1 DEF Stocked
<1>3. Rising(x.queue, last, next)
  BY <1>1, NothingQueued DEF Rising
<1>4. Ledger(x, out, last)
  <2> SUFFICES ASSUME NEW s \in Seqs
               PROVE  /\ Owed(x, out, s) <= MaxRetransmissions /\ s \notin DOMAIN x.cache
                      /\ s > last.seq => Owed(x, out, s) = 0
    BY DEF Ledger
  <2>1. Times(n.queue, s) \in Nat /\ out[s] \in Nat
    BY <1>1, QueuedFacts
  <2>2. Owed(x, out, s) = out[s] + 0
    BY NothingQueued DEF Owed
  <2>3. /\ out[s] + Times(n.queue, s) <= MaxRetransmissions
        /\ s > last.seq => out[s] + Times(n.queue, s) = 0
    BY <1>1 DEF Ledger, Owed
  <2>4. out[s] + 0 <= MaxRetransmissions /\ (s > last.seq => out[s] + 0 = 0)
    BY <2>1, <2>3, RecoveryBounds
  <2>5. s \notin DOMAIN x.cache
    BY NothingQueued
  <2> QED
    BY <2>2, <2>4, <2>5
<1> QED
  BY <1>1, <1>2, <1>3, <1>4 DEF Accounts

\* Entries that are dropped are older than those that stay.
Thinned(c, d) ==
  /\ DOMAIN d \in SUBSET DOMAIN c
  /\ \A s \in DOMAIN d : /\ d[s] \in Entry /\ d[s].age = c[s].age
                         /\ \A t \in DOMAIN c : s < t => t \in DOMAIN d

\* A cache that loses its oldest entries stays without a gap.
LEMMA ThinnedStock ==
  ASSUME NEW n, NEW last \in [seq : Nat, epoch : Nat], Stocked(n, last),
         NEW x, x.active = n.active, Thinned(n.cache, x.cache)
  PROVE  Stocked(x, last)
<1>1. DOMAIN x.cache \in SUBSET DOMAIN n.cache /\ DOMAIN n.cache \in SUBSET Seqs
  BY DEF Stocked, Thinned
<1>2. ASSUME NEW s \in DOMAIN x.cache
      PROVE  /\ x.cache[s] \in Entry /\ s <= last.seq /\ last.seq - s < CachePackets
             /\ s = last.seq \/ s + 1 \in DOMAIN x.cache
             /\ \A t \in DOMAIN x.cache : s < t => x.cache[t].age <= x.cache[s].age
  <2>1. s \in DOMAIN n.cache /\ s \in Nat
    BY <1>1, <1>2, RecoveryBounds
  <2>2. /\ s <= last.seq /\ last.seq - s < CachePackets
        /\ s = last.seq \/ s + 1 \in DOMAIN n.cache
        /\ \A t \in DOMAIN n.cache : s < t => n.cache[t].age <= n.cache[s].age
    BY <2>1 DEF Stocked
  <2>3. s + 1 \in DOMAIN n.cache => s + 1 \in DOMAIN x.cache
    <3>1. s < s + 1
      BY <2>1
    <3> QED
      BY <3>1 DEF Thinned
  <2>4. \A t \in DOMAIN x.cache : x.cache[t].age = n.cache[t].age /\ t \in DOMAIN n.cache
    BY <1>1 DEF Thinned
  <2>5. x.cache[s] \in Entry
    BY DEF Thinned
  <2> QED
    BY <2>1, <2>2, <2>3, <2>4, <2>5
<1>3. DOMAIN x.cache # {} => last.epoch = x.active
  BY <1>1 DEF Stocked
<1>4. DOMAIN x.cache \in SUBSET Seqs
  BY <1>1
<1> QED
  BY <1>2, <1>3, <1>4 DEF Stocked

\* A cache thins itself to itself and to nothing.
LEMMA ThinnedSame ==
  ASSUME NEW n, NEW last, Stocked(n, last)
  PROVE  Thinned(n.cache, n.cache) /\ Thinned(n.cache, <<>>)
<1>1. Thinned(n.cache, n.cache)
  BY DEF Stocked, Thinned
<1>2. DOMAIN <<>> = {}
  BY NothingQueued
<1>3. Thinned(n.cache, <<>>)
  BY <1>2 DEF Thinned
<1> QED
  BY <1>1, <1>3

\* A state with the same queue and a thinned cache whose entries count as much.
LEMMA ThinnedAccounts ==
  ASSUME NEW n, NEW out, NEW last, NEW next, Accounts(n, out, last, next),
         NEW x, Paced(x), Watched(x), x.queue = n.queue, x.active = n.active,
         Thinned(n.cache, x.cache),
         \A s \in DOMAIN x.cache : x.cache[s].resent = n.cache[s].resent
  PROVE  Accounts(x, out, last, next)
<1>1. /\ out \in [Seqs -> Nat] /\ last \in [seq : Nat, epoch : Nat] /\ next \in Nat
      /\ Stocked(n, last) /\ Rising(n.queue, last, next) /\ Ledger(n, out, last)
  BY DEF Accounts
<1>2. Stocked(x, last)
  BY <1>1, ThinnedStock
<1>3. Ledger(x, out, last)
  <2>1. \A s : Owed(x, out, s) = Owed(n, out, s)
    BY DEF Owed
  <2>2. \A s \in DOMAIN x.cache : s \in DOMAIN n.cache
    BY DEF Thinned
  <2> QED
    BY <1>1, <2>1, <2>2 DEF Ledger
<1> QED
  BY <1>1, <1>2, <1>3 DEF Accounts

\* The ledger of less.
LEMMA EasedAccounts ==
  ASSUME NEW n, NEW out, NEW last, NEW next, Accounts(n, out, last, next),
         NEW less \in [Seqs -> Nat], \A s \in Seqs : less[s] <= out[s]
  PROVE  Accounts(n, less, last, next)
<1>1. out \in [Seqs -> Nat] /\ n.queue \in Seq(Queued) /\ Stocked(n, last) /\ Ledger(n, out, last)
  BY DEF Accounts, Paced
<1>2. Ledger(n, less, last)
  <2> SUFFICES ASSUME NEW s \in Seqs
               PROVE  /\ Owed(n, less, s) <= MaxRetransmissions
                      /\ s \in DOMAIN n.cache => Owed(n, less, s) <= n.cache[s].resent
                      /\ s > last.seq => Owed(n, less, s) = 0
    BY DEF Ledger
  <2>1. /\ Owed(n, out, s) <= MaxRetransmissions
        /\ s \in DOMAIN n.cache => Owed(n, out, s) <= n.cache[s].resent
        /\ s > last.seq => Owed(n, out, s) = 0
    BY <1>1 DEF Ledger
  <2>2. Times(n.queue, s) \in Nat /\ out[s] \in Nat /\ less[s] \in Nat /\ less[s] <= out[s]
    BY <1>1, QueuedFacts
  <2>3. Owed(n, out, s) \in Nat /\ Owed(n, less, s) \in Nat /\ Owed(n, less, s) <= Owed(n, out, s)
    BY <2>2 DEF Owed
  <2>4. s \in DOMAIN n.cache => n.cache[s].resent \in Nat
    <3>1. \A e \in Entry : e.resent \in Nat
      BY RecoveryBounds DEF Entry
    <3> QED
      BY <1>1, <3>1 DEF Stocked
  <2> QED
    BY <2>1, <2>3, <2>4, RecoveryBounds
<1> QED
  BY <1>2 DEF Accounts

\* The fields of the recovery controller are those of another state.
SameWatch(n, x) ==
  /\ x.recEpoch = n.recEpoch /\ x.epoch = n.epoch /\ x.lastIdr = n.lastIdr
  /\ x.feedback = n.feedback /\ x.nacks = n.nacks /\ x.overload = n.overload
  /\ x.recStopped = n.recStopped /\ x.flooded = n.flooded
  /\ x.stopping = n.stopping /\ x.notified = n.notified

\* What the recovery controller keeps is as typed as before.
LEMMA WatchedSame ==
  ASSUME NEW n, Watched(n), NEW x, SameWatch(n, x)
  PROVE  Watched(x)
BY DEF Watched, SameWatch

\* purge.
LEMMA PurgeAccounts ==
  ASSUME NEW n, NEW out, NEW last, NEW next, Accounts(n, out, last, next), NEW a
  PROVE  /\ Accounts(Purge(n, a), out, last, next)
         /\ Purge(n, a).queue = <<>> /\ Purge(n, a).cache = <<>>
<1> DEFINE p == Purge(n, a)
<1>1. DOMAIN n = RspFields /\ Paced(n) /\ Watched(n)
  BY DEF Accounts, Paced
<1>2. /\ DOMAIN p = RspFields /\ p.queue = <<>> /\ p.cache = <<>> /\ p.active = n.active
      /\ p.abandoned = (IF n.active # 0 THEN n.active ELSE n.abandoned)
      /\ p.cacheEpoch = 0 /\ p.rejection = n.rejection /\ SameWatch(n, p)
  BY <1>1 DEF Purge, Clear, RspFields, SameWatch
<1> HIDE DEF p
<1>3. Paced(p)
  <2>1. p.active \in Epochs /\ p.abandoned \in Epochs /\ p.cacheEpoch \in Epochs
    BY <1>1, <1>2, RecoveryBounds DEF Paced
  <2>2. p.queue \in Seq(Queued)
    BY <1>2, NothingQueued
  <2>3. p.rejection \in Rejections
    BY <1>1, <1>2 DEF Paced
  <2> QED
    BY <1>2, <2>1, <2>2, <2>3 DEF Paced
<1>4. Watched(p)
  BY <1>1, <1>2, WatchedSame
<1>5. Accounts(p, out, last, next)
  BY <1>2, <1>3, <1>4, EmptiedAccounts
<1> QED
  BY <1>2, <1>5 DEF p

\* A queue that has aged, or that must recover, is purged.
LEMMA ExpireAccounts ==
  ASSUME NEW n, NEW out, NEW last, NEW next, Accounts(n, out, last, next)
  PROVE  /\ Accounts(ExpireIfNeeded(n), out, last, next)
         /\ Accounts(RequireRecovery(n), out, last, next)
<1>1. Accounts(Purge(n, TRUE), out, last, next)
  BY PurgeAccounts
<1>2. Accounts(ExpireIfNeeded(n), out, last, next)
  BY <1>1 DEF ExpireIfNeeded
<1>3. Accounts(RequireRecovery(n), out, last, next)
  BY <1>1 DEF RequireRecovery
<1> QED
  BY <1>2, <1>3

\* A rejection is noted.
LEMMA NotedAccounts ==
  ASSUME NEW n, NEW out, NEW last, NEW next, Accounts(n, out, last, next),
         NEW reason \in Rejections
  PROVE  Accounts([n EXCEPT !.rejection = reason], out, last, next)
<1> DEFINE x == [n EXCEPT !.rejection = reason]
<1>1. DOMAIN n = RspFields /\ Paced(n) /\ Watched(n) /\ Stocked(n, last)
  BY DEF Accounts, Paced
<1>2. /\ DOMAIN x = RspFields /\ x.queue = n.queue /\ x.cache = n.cache /\ x.active = n.active
      /\ x.abandoned = n.abandoned /\ x.cacheEpoch = n.cacheEpoch /\ x.rejection = reason
      /\ SameWatch(n, x)
  BY <1>1 DEF RspFields, SameWatch
<1> HIDE DEF x
<1>3. Paced(x)
  BY <1>1, <1>2 DEF Paced
<1>4. Watched(x)
  BY <1>1, <1>2, WatchedSame
<1>5. Thinned(n.cache, x.cache) /\ \A s \in DOMAIN x.cache : x.cache[s].resent = n.cache[s].resent
  BY <1>1, <1>2, ThinnedSame
<1>6. Accounts(x, out, last, next)
  BY <1>2, <1>3, <1>4, <1>5, ThinnedAccounts
<1> QED
  BY <1>6 DEF x

\* Which rejections there are.
LEMMA RejectionFacts ==
  /\ NoRejection \in Rejections
  /\ {"PACER_STOPPED", "PACER_ACCESS_UNIT_INVALID", "PACER_AWAITING_RECOVERY_IDR",
      "PACER_ABANDONED_DEPENDENCY_EPOCH", "PACER_NEW_EPOCH_REQUIRES_RECOVERY_IDR",
      "PACER_RECOVERY_ACCESS_UNIT_TOO_LARGE", "PACER_CAPACITY_PURGED_DEPENDENCY_EPOCH",
      "PACER_AGE_PURGED_DEPENDENCY_EPOCH", "PACER_RETRANSMISSION_EPOCH_REJECTED",
      "PACER_RETRANSMISSION_CAPACITY_PURGED_DEPENDENCY_EPOCH",
      "PACER_RETRANSMISSION_CACHE_REJECTED", "PACER_ASYNC_TRANSPORT_SEND_FAILED"}
       \subseteq Rejections
BY DEF Rejections

\* The packets of an access unit fit the queue while there are numbers left.
LEMMA QueuedMember ==
  ASSUME NEW seq \in Seqs, NEW epoch \in Epochs, NEW idr \in Flag, NEW start \in Flag, NEW rtx \in Flag
  PROVE  [seq |-> seq, epoch |-> epoch, idr |-> idr, start |-> start, rtx |-> rtx, age |-> 0]
           \in Queued
<1>1. 0 \in 0 .. PacerAge
  BY RecoveryBounds
<1> QED
  BY <1>1, Zenon DEF Queued

\* The packets of one access unit are of the type of the queue.
LEMMA QueuedPackets ==
  ASSUME NEW seq \in Nat \ {0}, NEW epoch \in Epochs, NEW idr \in Flag, NEW n \in Nat \ {0},
         seq + n <= 1 + MaxAccessUnits * Largest(AccessUnitSizes)
  PROVE  Packets(seq, epoch, idr, n) \in Seq(Queued)
<1> DEFINE p == Packets(seq, epoch, idr, n)
           b == MaxAccessUnits * Largest(AccessUnitSizes)
<1>1. p = [i \in 1 .. n |-> [seq |-> seq + i - 1, epoch |-> epoch, idr |-> idr, start |-> i = 1,
                             rtx |-> FALSE, age |-> 0]]
  BY DEF Packets
<1>2. b \in Nat /\ Seqs = 1 .. b /\ seq + n <= 1 + b
  BY LargestUnit
<1> HIDE DEF p, b
<1>3. ASSUME NEW i \in 1 .. n PROVE p[i] \in Queued
  <2>1. seq + i - 1 \in Seqs
    BY <1>2
  <2>2. (i = 1) \in Flag /\ FALSE \in Flag
    BY Zenon DEF Flag
  <2>3. [seq |-> seq + i - 1, epoch |-> epoch, idr |-> idr, start |-> i = 1,
         rtx |-> FALSE, age |-> 0] \in Queued
    BY <2>1, <2>2, QueuedMember, Zenon
  <2> QED
    BY <1>1, <2>3, Zenon
<1>4. p \in [1 .. n -> Queued]
  <2>1. p = [i \in 1 .. n |-> p[i]]
    BY <1>1, Zenon
  <2> QED
    BY <1>3, <2>1
<1>5. p \in Seq(Queued)
  BY <1>4, IsASeq
<1> QED
  BY <1>5 DEF p

\* An access unit behind the queue is above everything in it.
LEMMA RisingFacts ==
  ASSUME NEW q \in Seq(Queued), NEW last \in [seq : Nat, epoch : Nat], NEW next \in Nat,
         Rising(q, last, next), NEW n \in Nat \ {0}, NEW p \in Seq(Queued), Len(p) = n,
         AllFirst(p, n), \A i \in 1 .. n : p[i].seq = next + i - 1
  PROVE  /\ q \o p \in Seq(Queued) /\ Rising(q \o p, last, next + n)
         /\ \A s : Times(q \o p, s) = Times(q, s)
<1> DEFINE r == q \o p
           L == Len(q)
<1>1. q \in Seq(Packet) /\ p \in Seq(Packet) /\ FirstSent(q) \in SUBSET (1 .. L) /\ L \in Nat
  BY QueuedFacts
<1>2. Appended(q, p, r, L, n, last)
  BY <1>1, AppendFacts
<1>3. r \in Seq(Queued)
  BY ConcatProperties
<1> HIDE DEF r
<1>4. /\ Len(r) = L + n
      /\ \A i \in 1 .. L : r[i] = q[i] /\ (i \in FirstSent(r) <=> i \in FirstSent(q))
      /\ \A i \in 1 .. n : r[L + i] = p[i]
  BY <1>2 DEF Appended
<1>5. FirstSent(r) \in SUBSET (1 .. L + n)
  BY <1>3, <1>4, QueuedFacts
<1>6. \A i \in 1 .. L : q[i].seq \in Nat
  BY QueuedFacts
<1> HIDE DEF L
<1>7. last.seq \in Nat /\ last.seq < next
  BY DEF Rising
<1>8. ASSUME NEW i \in FirstSent(r)
      PROVE  \/ i \in FirstSent(q) /\ i \in 1 .. L /\ r[i] = q[i]
             \/ i \in L + 1 .. L + n /\ r[i].seq = next + (i - L) - 1
  <2>1. CASE i \in 1 .. L
    BY <1>4, <1>8, <2>1
  <2>2. CASE i \notin 1 .. L
    <3>1. i \in L + 1 .. L + n /\ i - L \in 1 .. n /\ L + (i - L) = i
      BY <1>1, <1>5, <1>8, <2>2
    <3>2. r[i] = p[i - L]
      BY <1>4, <3>1
    <3> QED
      BY <3>1, <3>2
  <2> QED
    BY <2>1, <2>2
<1>9. ASSUME NEW i \in FirstSent(r) PROVE last.seq < r[i].seq /\ r[i].seq < next + n
  <2>1. CASE i \in FirstSent(q) /\ i \in 1 .. L /\ r[i] = q[i]
    <3>1. last.seq < q[i].seq /\ q[i].seq < next /\ q[i].seq \in Nat
      BY <1>6, <2>1 DEF Rising
    <3> QED
      BY <2>1, <3>1
  <2>2. CASE i \in L + 1 .. L + n /\ r[i].seq = next + (i - L) - 1
    BY <1>1, <1>7, <2>2
  <2> QED
    BY <1>8, <2>1, <2>2
<1>10. ASSUME NEW i \in FirstSent(r), NEW j \in FirstSent(r), i < j PROVE r[i].seq < r[j].seq
  <2>1. CASE j \in FirstSent(q) /\ j \in 1 .. L /\ r[j] = q[j]
    <3>1. i \in FirstSent(q) /\ r[i] = q[i]
      BY <1>1, <1>5, <1>8, <1>10, <2>1
    <3> QED
      BY <1>10, <2>1, <3>1 DEF Rising
  <2>2. CASE j \in L + 1 .. L + n /\ r[j].seq = next + (j - L) - 1
    <3>1. CASE i \in FirstSent(q) /\ i \in 1 .. L /\ r[i] = q[i]
      <4>1. q[i].seq < next /\ q[i].seq \in Nat
        BY <1>6, <3>1 DEF Rising
      <4> QED
        BY <1>1, <2>2, <3>1, <4>1
    <3>2. CASE i \in L + 1 .. L + n /\ r[i].seq = next + (i - L) - 1
      BY <1>1, <1>10, <2>2, <3>2
    <3> QED
      BY <1>8, <3>1, <3>2
  <2> QED
    BY <1>8, <2>1, <2>2
<1>11. Rising(r, last, next + n)
  <2>1. last.seq < next + n
    BY <1>7
  <2> QED
    BY <1>9, <1>10, <2>1 DEF Rising
<1>12. ASSUME NEW s PROVE Times(r, s) = Times(q, s)
  <2>0. Joined(r, q, p)
    BY <1>4 DEF L, Joined
  <2>1. Times(r, s) = Times(q, s) + Times(p, s)
    BY <1>3, <2>0, TimesJoin
  <2>2. Times(p, s) = 0
    <3>1. \A i \in 1 .. Len(p) : p[i].rtx = FALSE
      BY DEF AllFirst
    <3> QED
      BY <3>1, TimesNone
  <2>3. Times(q, s) \in Nat
    BY QueuedFacts
  <2> QED
    BY <2>1, <2>2, <2>3
<1> QED
  BY <1>3, <1>11, <1>12 DEF r

\* A state with a longer queue, and the same cache or none.
LEMMA LongerAccounts ==
  ASSUME NEW n, NEW out, NEW last, NEW next, Accounts(n, out, last, next),
         NEW x, Paced(x), Watched(x), NEW after \in Nat, Rising(x.queue, last, after),
         \A s : Times(x.queue, s) = Times(n.queue, s),
         x.cache = <<>> \/ (x.cache = n.cache /\ x.active = n.active)
  PROVE  Accounts(x, out, last, after)
<1>1. /\ out \in [Seqs -> Nat] /\ last \in [seq : Nat, epoch : Nat]
      /\ Stocked(n, last) /\ Ledger(n, out, last)
  BY DEF Accounts
<1>2. DOMAIN <<>> = {}
  BY NothingQueued
<1>3. Stocked(x, last)
  BY <1>1, <1>2 DEF Stocked
<1>4. \A s : Owed(x, out, s) = Owed(n, out, s)
  BY DEF Owed
<1>5. Ledger(x, out, last)
  BY <1>1, <1>2, <1>4 DEF Ledger
<1> QED
  BY <1>1, <1>3, <1>5 DEF Accounts

\* Enqueue: the numbers of the access unit are new.
LEMMA EnqueueAccounts ==
  ASSUME NEW x, NEW out, NEW last, NEW next, Accounts(x, out, last, next),
         NEW epoch \in Epochs, epoch # 0, NEW idr \in Flag, NEW n \in Nat \ {0},
         next + n <= 1 + MaxAccessUnits * Largest(AccessUnitSizes)
  PROVE  Accounts(Enqueue(x, Packets(next, epoch, idr, n)), out, last, next + n)
<1> DEFINE p == Packets(next, epoch, idr, n)
           e == Enqueue(x, p)
           r == x.queue \o p
<1>1. /\ Paced(x) /\ Watched(x) /\ DOMAIN x = RspFields /\ x.queue \in Seq(Queued)
      /\ last \in [seq : Nat, epoch : Nat] /\ next \in Nat /\ Rising(x.queue, last, next)
  BY DEF Accounts, Paced
<1>2. next \in Nat \ {0} /\ epoch \in Nat \ {0}
  <2>1. last.seq \in Nat /\ last.seq < next
    BY <1>1 DEF Rising
  <2>2. epoch \in Nat
    BY RecoveryBounds
  <2> QED
    BY <1>1, <2>1, <2>2
<1>3. p \in Seq(Queued)
  BY <1>2, QueuedPackets
<1>4. Numbered(p, next, epoch, n) /\ Marked(p, idr, n)
  BY <1>2, PacketsFacts
<1> HIDE DEF p
<1>5. Len(p) = n /\ (\A i \in 1 .. n : p[i].seq = next + i - 1) /\ p[1].epoch = epoch
  BY <1>4 DEF Numbered
<1>6. AllFirst(p, n)
  BY <1>4, Zenon DEF Marked, AllFirst
<1>7. /\ r \in Seq(Queued) /\ Rising(r, last, next + n)
      /\ \A s : Times(r, s) = Times(x.queue, s)
  <2> DEFINE q == x.queue
  <2>1. q \in Seq(Queued) /\ Rising(q, last, next) /\ Len(p) = n
        /\ \A i \in 1 .. n : p[i].seq = next + i - 1
    BY <1>1, <1>5
  <2> HIDE DEF q
  <2>2. /\ q \o p \in Seq(Queued) /\ Rising(q \o p, last, next + n)
        /\ \A s : Times(q \o p, s) = Times(q, s)
    BY <1>1, <1>3, <1>6, <2>1, RisingFacts
  <2> QED
    BY <2>2 DEF q
<1> HIDE DEF r
<1>8. /\ DOMAIN e = RspFields /\ e.queue = r /\ e.rejection = x.rejection /\ SameWatch(x, e)
      /\ \/ /\ e.cache = <<>> /\ e.active = epoch /\ e.abandoned = 0 /\ e.cacheEpoch = epoch
         \/ /\ e.cache = x.cache /\ e.active = x.active /\ e.abandoned = x.abandoned
            /\ e.cacheEpoch = x.cacheEpoch
  <2>1. CASE x.awaiting
    <3>1. e = [ResetEpoch(x, epoch) EXCEPT !.active = epoch, !.awaiting = FALSE, !.abandoned = 0,
                                           !.queue = r]
      BY <1>5, <2>1 DEF Enqueue, r
    <3> QED
      BY <1>1, <3>1 DEF ResetEpoch, RspFields, SameWatch
  <2>2. CASE ~x.awaiting
    <3>1. e = [x EXCEPT !.queue = r]
      BY <2>2 DEF Enqueue, r
    <3> QED
      BY <1>1, <3>1 DEF RspFields, SameWatch
  <2> QED
    BY <2>1, <2>2
<1> HIDE DEF e
<1>9. Paced(e)
  BY <1>1, <1>7, <1>8, RecoveryBounds DEF Paced
<1>10. Watched(e)
  BY <1>1, <1>8, WatchedSame
<1>11. next + n \in Nat
  BY <1>1
<1>12. Accounts(e, out, last, next + n)
  BY <1>7, <1>8, <1>9, <1>10, <1>11, LongerAccounts
<1> QED
  BY <1>12 DEF e, p

\* Numbers that are used up without being queued.
LEMMA LaterAccounts ==
  ASSUME NEW n, NEW out, NEW last, NEW next, Accounts(n, out, last, next),
         NEW after \in Nat, next <= after
  PROVE  Accounts(n, out, last, after)
<1>1. /\ n.queue \in Seq(Queued) /\ last.seq \in Nat /\ next \in Nat /\ Rising(n.queue, last, next)
      /\ Paced(n) /\ Watched(n)
  BY DEF Accounts, Paced
<1>2. \A i \in FirstSent(n.queue) : n.queue[i].seq \in Nat
  BY <1>1, QueuedFacts
<1>3. Rising(n.queue, last, after)
  BY <1>1, <1>2 DEF Rising
<1> QED
  BY <1>1, <1>3, LongerAccounts

\* An outcome of an admission.
Booked(r, out, last, next) == Accounts(r.m, out, last, next) /\ r.reason \in Rejections

\* Acceptance and refusal leave the account as it is.
LEMMA BookedOutcomes ==
  ASSUME NEW n, NEW out, NEW last, NEW next, Accounts(n, out, last, next)
  PROVE  /\ Booked(Accepted(n), out, last, next)
         /\ \A reason \in Rejections : \A ask : Booked(Rejected(n, reason, ask), out, last, next)
BY Outcomes, RejectionFacts DEF Booked

\* An access unit that is queued whole, refused, or purges.
LEMMA FittingBooked ==
  ASSUME NEW x, NEW out, NEW last, NEW next, Accounts(x, out, last, next),
         NEW epoch \in Epochs, epoch # 0, NEW idr \in Flag, NEW n \in Nat \ {0},
         next + n <= 1 + MaxAccessUnits * Largest(AccessUnitSizes)
  PROVE  Booked(AdmitFitting(x, Packets(next, epoch, idr, n)), out, last, next + n)
<1> DEFINE p == Packets(next, epoch, idr, n)
<1>1. next \in Nat /\ next + n \in Nat /\ next <= next + n
  BY DEF Accounts
<1>2. Accounts(x, out, last, next + n)
  BY <1>1, LaterAccounts
<1>3. Accounts(Purge(x, TRUE), out, last, next + n)
  BY <1>2, PurgeAccounts
<1>4. Accounts(Enqueue(x, p), out, last, next + n)
  BY EnqueueAccounts
<1> HIDE DEF p
<1>5. Booked(Rejected(x, "PACER_RECOVERY_ACCESS_UNIT_TOO_LARGE", TRUE), out, last, next + n)
  BY <1>2, BookedOutcomes, RejectionFacts
<1>6. Booked(Rejected(Purge(x, TRUE), "PACER_CAPACITY_PURGED_DEPENDENCY_EPOCH", TRUE),
             out, last, next + n)
  BY <1>3, BookedOutcomes, RejectionFacts
<1>7. Booked(Accepted(Enqueue(x, p)), out, last, next + n)
  BY <1>4, BookedOutcomes
<1>8. Booked(AdmitFitting(x, p), out, last, next + n)
  BY <1>5, <1>6, <1>7 DEF AdmitFitting
<1> QED
  BY <1>8 DEF p

\* submit_access_unit, in every one of its outcomes.
LEMMA AdmitBooked ==
  ASSUME NEW x, NEW out, NEW last, NEW next, Accounts(x, out, last, next),
         NEW epoch \in Epochs, epoch # 0, NEW idr \in Flag, NEW n \in Nat \ {0},
         next + n <= 1 + MaxAccessUnits * Largest(AccessUnitSizes)
  PROVE  Booked(AdmitAccessUnit(x, Packets(next, epoch, idr, n)), out, last, next + n)
<1> DEFINE p == Packets(next, epoch, idr, n)
           y == ExpireIfNeeded(x)
           other == Purge(y, TRUE)
<1>1. next \in Nat /\ next + n \in Nat /\ next <= next + n
  BY DEF Accounts
<1>2. Accounts(y, out, last, next)
  BY ExpireAccounts
<1> HIDE DEF y
<1>3. Accounts(other, out, last, next)
  BY <1>2, PurgeAccounts
<1> HIDE DEF other
<1>4. Accounts(y, out, last, next + n) /\ Accounts(other, out, last, next + n)
  BY <1>1, <1>2, <1>3, LaterAccounts
<1>5. /\ Booked(AdmitFitting(y, p), out, last, next + n)
      /\ Booked(AdmitFitting(other, p), out, last, next + n)
  BY <1>2, <1>3, FittingBooked
<1> HIDE DEF p
<1>6. /\ Booked(Rejected(y, "PACER_STOPPED", FALSE), out, last, next + n)
      /\ Booked(Rejected(y, "PACER_AWAITING_RECOVERY_IDR", TRUE), out, last, next + n)
      /\ Booked(Rejected(y, "PACER_ABANDONED_DEPENDENCY_EPOCH", TRUE), out, last, next + n)
  BY <1>4, BookedOutcomes, RejectionFacts
<1>7. Booked(Rejected(other, "PACER_NEW_EPOCH_REQUIRES_RECOVERY_IDR", TRUE), out, last, next + n)
  BY <1>4, BookedOutcomes, RejectionFacts
<1>8. Booked(AdmitAccessUnit(x, p), out, last, next + n)
  BY <1>5, <1>6, <1>7 DEF AdmitAccessUnit, y, other
<1> QED
  BY <1>8 DEF p

-----------------------------------------------------------------------------
\* The live entries are the youngest ones of the cache.
LEMMA LiveFacts ==
  ASSUME NEW n, NEW last, Stocked(n, last)
  PROVE  /\ LiveEntries(n) \in SUBSET DOMAIN n.cache /\ LiveEntries(n) \in SUBSET Seqs
         /\ \A s \in LiveEntries(n), t \in DOMAIN n.cache : s < t => t \in LiveEntries(n)
<1>1. LiveEntries(n) \in SUBSET DOMAIN n.cache /\ DOMAIN n.cache \in SUBSET Seqs
  BY DEF LiveEntries, Stocked
<1>2. ASSUME NEW s \in LiveEntries(n), NEW t \in DOMAIN n.cache, s < t PROVE t \in LiveEntries(n)
  <2>1. s \in DOMAIN n.cache /\ n.cache[s].age < CacheAge
    BY DEF LiveEntries
  <2>2. n.cache[t].age <= n.cache[s].age /\ n.cache[t] \in Entry /\ n.cache[s] \in Entry
    BY <1>2, <2>1 DEF Stocked
  <2>3. n.cache[t].age \in Nat /\ n.cache[s].age \in Nat
    BY <2>2, RecoveryBounds DEF Entry
  <2>4. n.cache[t].age < CacheAge
    BY <2>1, <2>2, <2>3, RecoveryBounds
  <2> QED
    BY <2>4 DEF LiveEntries
<1> QED
  BY <1>1, <1>2

\* The numbers a drain releases for the first time, between last and after.
Following(n, seqs, last, after) ==
  /\ last.seq <= after.seq
  /\ \A s \in seqs : last.seq < s /\ s <= after.seq /\ (s = after.seq \/ s + 1 \in seqs)
  /\ IF seqs = {} THEN after = last ELSE after.seq \in seqs /\ after.epoch = n.active
  /\ DOMAIN n.cache # {} /\ seqs # {} => last.seq + 1 \in seqs

\* Of a finite set the newest are kept, and what follows one of them.
LEMMA NewestFacts ==
  ASSUME NEW S \in SUBSET Nat, NEW b \in Nat, \A s \in S : s <= b /\ (s = b \/ s + 1 \in S)
  PROVE  /\ Newest(S) \in SUBSET S
         /\ \A s \in Newest(S) : b - s < CachePackets /\ (s = b \/ s + 1 \in Newest(S))
<1>1. Newest(S) \in SUBSET S
  BY DEF Newest
<1>2. IsFiniteSet(S)
  <2>1. IsFiniteSet(0 .. b)
    BY FS_Interval
  <2>2. S \in SUBSET (0 .. b)
    OBVIOUS
  <2> QED
    BY <2>1, <2>2, FS_Subset
<1>3. ASSUME NEW s \in Newest(S) PROVE b - s < CachePackets /\ (s = b \/ s + 1 \in Newest(S))
  <2> DEFINE above(k) == {t \in S : t > k}
  <2>1. s \in S /\ s \in Nat /\ Cardinality(above(s)) < CachePackets
    BY DEF Newest
  <2>2. IsFiniteSet(above(s)) /\ Cardinality(above(s)) \in Nat
    <3>1. above(s) \in SUBSET S
      OBVIOUS
    <3> HIDE DEF above
    <3> QED
      BY <1>2, <3>1, FS_Subset, FS_CardinalityType
  <2>3. b - s <= Cardinality(above(s))
    <3>1. s .. b \in SUBSET S
      BY <2>1, NoGap
    <3>2. s + 1 .. b \in SUBSET above(s)
      BY <2>1, <3>1
    <3>3. Cardinality(s + 1 .. b) <= Cardinality(above(s))
      <4> HIDE DEF above
      <4> QED
        BY <2>2, <3>2, FS_Subset
    <3>4. s <= b
      BY <2>1
    <3>5. Cardinality(s + 1 .. b) = b - s
      <4>1. Cardinality(s + 1 .. b) = IF s + 1 > b THEN 0 ELSE b - (s + 1) + 1
        BY <2>1, FS_Interval
      <4>2. (s + 1 > b => b - s = 0) /\ b - (s + 1) + 1 = b - s
        BY <2>1, <3>4
      <4> QED
        BY <4>1, <4>2
    <3> QED
      BY <3>3, <3>5
  <2>4. b - s < CachePackets
    <3>1. b - s \in Int
      BY <2>1
    <3> HIDE DEF above
    <3> QED
      BY <2>1, <2>2, <2>3, <3>1, RecoveryBounds
  <2>5. ASSUME s # b PROVE s + 1 \in Newest(S)
    <3>1. s + 1 \in S
      BY <2>1, <2>5
    <3>2. above(s + 1) \in SUBSET above(s)
      <4> SUFFICES ASSUME NEW t \in S, t > s + 1 PROVE t > s
        OBVIOUS
      <4>1. t \in Nat
        OBVIOUS
      <4> QED
        BY <2>1, <4>1
    <3>3. IsFiniteSet(above(s + 1)) /\ Cardinality(above(s + 1)) <= Cardinality(above(s))
      <4> HIDE DEF above
      <4> QED
        BY <2>2, <3>2, FS_Subset
    <3>4. Cardinality(above(s + 1)) \in Nat
      <4> HIDE DEF above
      <4> QED
        BY <3>3, FS_CardinalityType
    <3>5. Cardinality(above(s + 1)) < CachePackets
      <4> HIDE DEF above
      <4> QED
        BY <2>1, <2>2, <3>3, <3>4, RecoveryBounds
    <3> QED
      BY <3>1, <3>5 DEF Newest
  <2> QED
    BY <2>4, <2>5
<1> QED
  BY <1>1, <1>3

\* store: the cache holds the last packets released, also the new ones.
LEMMA StoreStock ==
  ASSUME NEW n, DOMAIN n = RspFields, NEW last \in [seq : Nat, epoch : Nat], Stocked(n, last),
         NEW after \in [seq : Nat, epoch : Nat], NEW seqs \in SUBSET Seqs,
         Following(n, seqs, last, after)
  PROVE  /\ Stocked(StoreAll(n, seqs), after)
         /\ \A s \in DOMAIN StoreAll(n, seqs).cache :
              \/ s \in seqs /\ StoreAll(n, seqs).cache[s].resent = 0
              \/ s \in DOMAIN n.cache /\ StoreAll(n, seqs).cache[s].resent = n.cache[s].resent
<1> DEFINE live == LiveEntries(n)
           all == live \cup seqs
           new == [s \in Newest(all) |-> IF s \in seqs THEN [age |-> 0, resent |-> 0]
                                          ELSE n.cache[s]]
           x == StoreAll(n, seqs)
           b == after.seq
<1>1. /\ live \in SUBSET DOMAIN n.cache /\ live \in SUBSET Seqs
      /\ \A s \in live, t \in DOMAIN n.cache : s < t => t \in live
  BY LiveFacts
<1>2. x.cache = new /\ x.active = n.active
  <2>1. x = [n EXCEPT !.cache = new]
    BY DEF StoreAll
  <2> HIDE DEF new, x
  <2> QED
    BY <2>1 DEF RspFields
<1>3. \A s \in Seqs : s \in Nat
  BY RecoveryBounds
<1>4. /\ last.seq \in Nat /\ b \in Nat /\ last.seq <= b
      /\ \A s \in seqs : last.seq < s /\ s <= b /\ (s = b \/ s + 1 \in seqs)
      /\ seqs = {} => after = last
      /\ seqs # {} => b \in seqs /\ after.epoch = n.active
      /\ DOMAIN n.cache # {} /\ seqs # {} => last.seq + 1 \in seqs
  BY DEF Following
<1>5. \A s \in DOMAIN n.cache :
        /\ n.cache[s] \in Entry /\ s <= last.seq
        /\ s = last.seq \/ s + 1 \in DOMAIN n.cache
        /\ \A t \in DOMAIN n.cache : s < t => n.cache[t].age <= n.cache[s].age
  BY DEF Stocked
<1> HIDE DEF live
<1>6. ASSUME NEW s \in all PROVE s \in Nat /\ s <= b /\ (s = b \/ s + 1 \in all)
  <2>1. CASE s \in seqs
    BY <1>3, <1>4, <2>1
  <2>2. CASE s \in live
    <3>1. s \in Nat /\ s \in DOMAIN n.cache /\ s <= last.seq
      BY <1>1, <1>3, <1>5, <2>2
    <3>2. CASE s = last.seq
      <4>1. CASE seqs = {}
        BY <1>4, <3>1, <3>2, <4>1
      <4>2. CASE seqs # {}
        BY <1>4, <3>1, <3>2, <4>2
      <4> QED
        BY <4>1, <4>2
    <3>3. CASE s # last.seq
      <4>1. s + 1 \in DOMAIN n.cache /\ s < s + 1
        BY <1>5, <3>1, <3>3
      <4>2. s + 1 \in live
        BY <1>1, <2>2, <4>1
      <4> QED
        BY <1>4, <3>1, <4>2
    <3> QED
      BY <3>2, <3>3
  <2> QED
    BY <2>1, <2>2
<1>7. all \in SUBSET Nat
  BY <1>6
<1> HIDE DEF all
<1>8. /\ Newest(all) \in SUBSET all
      /\ \A s \in Newest(all) : b - s < CachePackets /\ (s = b \/ s + 1 \in Newest(all))
  BY <1>4, <1>6, <1>7, NewestFacts
<1>9. DOMAIN new = Newest(all)
  OBVIOUS
<1>10. \A s \in Newest(all) : IF s \in seqs THEN new[s] = [age |-> 0, resent |-> 0]
                              ELSE new[s] = n.cache[s] /\ s \in live
  <2> TAKE s \in Newest(all)
  <2>1. s \in seqs \/ s \in live
    BY <1>8 DEF all
  <2> QED
    BY <2>1
<1> HIDE DEF new
<1>11. [age |-> 0, resent |-> 0] \in Entry
  BY RecoveryBounds DEF Entry
<1>12. ASSUME NEW s \in Newest(all)
       PROVE  /\ new[s] \in Entry
              /\ s \in seqs => new[s].age = 0 /\ new[s].resent = 0
              /\ s \notin seqs => new[s] = n.cache[s] /\ s \in DOMAIN n.cache
  <2>1. CASE s \in seqs
    BY <1>10, <1>11, <2>1
  <2>2. CASE s \notin seqs
    BY <1>1, <1>5, <1>10, <2>2
  <2> QED
    BY <2>1, <2>2
<1>13. \A e \in Entry : e.age \in Nat
  BY RecoveryBounds DEF Entry
<1>14. ASSUME NEW s \in Newest(all), NEW t \in Newest(all), s < t PROVE new[t].age <= new[s].age
  <2>1. CASE t \in seqs
    <3>1. new[t].age = 0 /\ new[s].age \in Nat
      BY <1>12, <1>13, <2>1
    <3> QED
      BY <3>1
  <2>2. CASE t \notin seqs
    <3>1. new[t] = n.cache[t] /\ t \in DOMAIN n.cache /\ t <= last.seq
      BY <1>5, <1>12, <2>2
    <3>2. s \notin seqs
      <4>1. s \in Nat /\ t \in Nat
        BY <1>7, <1>8
      <4> QED
        BY <1>4, <1>14, <3>1, <4>1
    <3>3. new[s] = n.cache[s] /\ s \in DOMAIN n.cache
      BY <1>12, <3>2
    <3> QED
      BY <1>5, <1>14, <3>1, <3>3
  <2> QED
    BY <2>1, <2>2
<1>15. Newest(all) # {} => after.epoch = n.active
  <2>1. CASE seqs # {}
    BY <1>4, <2>1
  <2>2. CASE seqs = {}
    <3>1. after = last
      BY <1>4, <2>2
    <3>2. Newest(all) # {} => DOMAIN n.cache # {}
      BY <1>12, <2>2
    <3> QED
      BY <3>1, <3>2 DEF Stocked
  <2> QED
    BY <2>1, <2>2
<1>16. Newest(all) \in SUBSET Seqs
  BY <1>1, <1>8 DEF all
<1> HIDE DEF x
<1>17. Stocked(x, after)
  <2>1. DOMAIN x.cache = Newest(all)
    BY <1>2, <1>9
  <2>2. \A s \in Newest(all) : s <= b
    BY <1>6, <1>8
  <2> QED
    BY <1>2, <1>8, <1>12, <1>14, <1>15, <1>16, <2>1, <2>2 DEF Stocked
<1>18. \A s \in DOMAIN x.cache :
         \/ s \in seqs /\ x.cache[s].resent = 0
         \/ s \in DOMAIN n.cache /\ x.cache[s].resent = n.cache[s].resent
  BY <1>2, <1>9, <1>12
<1> QED
  BY <1>17, <1>18 DEF x

\* What a drain releases for the first time follows what was released before.
LEMMA FollowingFacts ==
  ASSUME NEW n, Tidy(n), NEW last \in [seq : Nat, epoch : Nat], Chained(n, last), Stocked(n, last),
         NEW q \in Seq(Queued), q = n.queue, NEW next \in Nat, Rising(q, last, next),
         NEW k \in 0 .. Len(q)
  PROVE  /\ Following(n, FirstTransmissions(SubSeq(q, 1, k)), last, After(last, SubSeq(q, 1, k)))
         /\ FirstTransmissions(SubSeq(q, 1, k)) \in SUBSET Seqs
         /\ After(last, SubSeq(q, 1, k)) \in [seq : Nat, epoch : Nat]
         /\ Rising(SubSeq(q, k + 1, Len(q)), After(last, SubSeq(q, 1, k)), next)
<1> DEFINE o == SubSeq(q, 1, k)
           rest == SubSeq(q, k + 1, Len(q))
           after == After(last, o)
           F == FirstSent(o)
           seqs == FirstTransmissions(o)
<1>1. /\ q \in Seq(Packet) /\ Len(q) \in Nat /\ DOMAIN q = 1 .. Len(q)
      /\ \A i \in 1 .. Len(q) : q[i].seq \in Seqs /\ q[i].seq \in Nat
      /\ FirstSent(q) \in SUBSET (1 .. Len(q)) /\ k \in Nat /\ k <= Len(q)
  BY QueuedFacts
<1>2. Front(q, o, k, last)
  BY <1>1, FrontFacts
<1>3. /\ o \in Seq(Packet) /\ Len(o) = k /\ F \in SUBSET (1 .. k)
      /\ \A i \in 1 .. k : o[i] = q[i] /\ (i \in FirstSent(o) <=> i \in FirstSent(q))
      /\ \A i \in 1 .. k + 1 : Preceding(last, o, i) = Preceding(last, q, i)
  BY <1>2 DEF Front
<1>4. seqs = {o[i].seq : i \in F}
  BY DEF FirstTransmissions, FirstSent
<1>5. after = [seq |-> Preceding(last, o, k + 1).seq, epoch |-> Preceding(last, o, k + 1).epoch]
  BY <1>3 DEF After
<1>6. \A i \in 1 .. Len(q) : q[i].epoch = n.active
  BY DEF Tidy
<1>7. \A i \in FirstSent(q) : Continues(q[i], Preceding(last, q, i))
  BY DEF Chained
<1>8. last.seq \in Nat /\ last.epoch \in Nat /\ n.active \in Nat /\ last.epoch <= n.active
  BY DEF Chained, Tidy
<1> HIDE DEF o, rest, after, F, seqs
<1>9. /\ last.seq < next
      /\ \A i \in F : /\ last.seq < o[i].seq /\ o[i].seq < next /\ o[i].seq \in Seqs
                      /\ o[i].seq \in Nat /\ o[i].epoch = n.active /\ i \in 1 .. k /\ i \in Nat
                      /\ Continues(o[i], Preceding(last, o, i))
      /\ \A i, j \in F : i < j => o[i].seq < o[j].seq
  <2>1. \A i \in F : i \in 1 .. k /\ i \in 1 .. Len(q) /\ i \in 1 .. k + 1 /\ i \in FirstSent(q)
    BY <1>1, <1>3 DEF F
  <2>2. \A i \in F : o[i] = q[i] /\ Preceding(last, o, i) = Preceding(last, q, i)
    BY <1>3, <2>1
  <2>3. \A i \in F : Continues(o[i], Preceding(last, o, i))
    BY <1>7, <2>1, <2>2
  <2>4. \A i \in F : o[i].seq \in Seqs /\ o[i].seq \in Nat /\ o[i].epoch = n.active /\ i \in Nat
    <3>1. \A i \in 1 .. Len(q) : i \in Nat
      OBVIOUS
    <3> QED
      BY <1>1, <1>6, <2>1, <2>2, <3>1
  <2>5. last.seq < next /\ \A i \in F : last.seq < o[i].seq /\ o[i].seq < next
    BY <2>1, <2>2 DEF Rising
  <2>6. \A i, j \in F : i < j => o[i].seq < o[j].seq
    BY <2>1, <2>2 DEF Rising
  <2> QED
    BY <2>1, <2>3, <2>4, <2>5, <2>6
<1>10. \A i \in F : \A p : p.epoch = n.active /\ Continues(o[i], p) => o[i].seq = p.seq + 1
  <2> SUFFICES ASSUME NEW i \in F, NEW p, p.epoch = n.active, Continues(o[i], p)
               PROVE  o[i].seq = p.seq + 1
    OBVIOUS
  <2>1. o[i].epoch = n.active /\ ~(n.active > n.active)
    BY <1>8, <1>9
  <2> QED
    BY <2>1 DEF Continues
\* The last of them.
<1>11. CASE F = {}
  <2>1. Preceding(last, o, k + 1) = last
    <3>1. \A j \in FirstSent(o) : ~(j < k + 1)
      BY <1>11 DEF F
    <3>2. k + 1 \in Nat
      BY <1>1
    <3> QED
      BY <1>3, <3>1, <3>2, PrecedingFacts
  <2>2. after = last
    BY <1>5, <2>1
  <2>3. seqs = {}
    BY <1>4, <1>11
  <2>4. Following(n, seqs, last, after) /\ seqs \in SUBSET Seqs
    BY <1>8, <2>2, <2>3 DEF Following
  <2>5. \A i \in FirstSent(q) : i > k
    BY <1>1, <1>3, <1>11 DEF F
  <2>6. after.seq < next /\ \A i \in FirstSent(q) : i > k => after.seq < q[i].seq
    BY <2>2 DEF Rising
  <2>7. Rising(rest, after, next)
    <3>1. Back(q, rest, k, last, after)
      <4>1. SameEnd(after, Preceding(last, q, k + 1))
        <5>1. k + 1 \in 1 .. k + 1
          BY <1>1
        <5> QED
          BY <1>3, <2>1, <2>2, <5>1 DEF SameEnd
      <4> QED
        BY <1>1, <4>1, BackFacts DEF rest
    <3>2. \A i \in FirstSent(rest) : /\ i \in 1 .. Len(q) - k /\ rest[i] = q[k + i]
                                     /\ k + i \in FirstSent(q) /\ k + i > k /\ i \in Nat
      BY <1>1, <3>1 DEF Back
    <3>3. \A i \in FirstSent(q) : q[i].seq < next
      BY DEF Rising
    <3>4. \A i \in FirstSent(rest) : after.seq < rest[i].seq /\ rest[i].seq < next
      BY <2>6, <3>2, <3>3
    <3>5. \A i, j \in FirstSent(rest) : i < j => rest[i].seq < rest[j].seq
      <4> TAKE i, j \in FirstSent(rest)
      <4> HAVE i < j
      <4>1. k + i < k + j
        BY <1>1, <3>2
      <4> QED
        BY <3>2, <4>1 DEF Rising
    <3> QED
      BY <2>6, <3>4, <3>5 DEF Rising
  <2> QED
    BY <2>2, <2>4, <2>7 DEF o, rest, after, seqs
<1>12. CASE F # {}
  <2>0. F \in SUBSET (0 .. k)
    BY <1>1, <1>3
  <2>1. PICK g \in F : \A j \in F : j <= g
    BY <1>1, <1>12, <2>0, GreatestNumber
  <2>2. Preceding(last, o, k + 1) = o[g]
    <3>1. g < k + 1 /\ k + 1 \in Nat
      BY <1>1, <1>9
    <3>2. g \in FirstSent(o) /\ \A j \in FirstSent(o) : j < k + 1 => j <= g
      BY <2>1 DEF F
    <3> QED
      BY <1>3, <3>1, <3>2, PrecedingFacts
  <2>3. after.seq = o[g].seq /\ after.epoch = n.active /\ after \in [seq : Nat, epoch : Nat]
    BY <1>5, <1>8, <1>9, <2>2
  <2>4. after.seq \in seqs /\ seqs # {} /\ seqs \in SUBSET Seqs
    BY <1>4, <1>9, <2>3
  <2>5. ASSUME NEW i \in F
        PROVE  /\ last.seq < o[i].seq /\ o[i].seq <= after.seq
               /\ o[i].seq = after.seq \/ o[i].seq + 1 \in seqs
    <3>1. i = g \/ i < g
      BY <1>9, <2>1
    <3>2. CASE i = g
      BY <1>9, <2>3, <3>2
    <3>3. CASE i < g
      <4> DEFINE later == {j \in F : i < j}
      <4>1. later \in SUBSET Nat /\ later # {}
        BY <1>9, <3>3
      <4> HIDE DEF later
      <4>2. PICK j \in later : \A h \in later : j <= h
        BY <4>1, LeastNumber
      <4>3. j \in F /\ i < j
        BY <4>2 DEF later
      <4>4. \A h \in F : h < j => h <= i
        BY <1>9, <4>2, <4>3 DEF later
      <4>5. Preceding(last, o, j) = o[i]
        <5>1. i \in FirstSent(o) /\ j \in Nat /\ \A h \in FirstSent(o) : h < j => h <= i
          BY <1>9, <4>3, <4>4 DEF F
        <5> QED
          BY <1>3, <4>3, <5>1, PrecedingFacts
      <4>6. o[j].seq = o[i].seq + 1
        BY <1>9, <1>10, <4>3, <4>5
      <4>7. o[i].seq < o[g].seq
        BY <1>9, <3>3
      <4> QED
        BY <1>4, <1>9, <2>3, <4>3, <4>6, <4>7
    <3> QED
      BY <3>1, <3>2, <3>3
  <2>6. \A s \in seqs : last.seq < s /\ s <= after.seq /\ (s = after.seq \/ s + 1 \in seqs)
    BY <1>4, <2>5
  <2>7. last.seq <= after.seq
    BY <1>8, <1>9, <2>3
  <2>8. ASSUME DOMAIN n.cache # {} PROVE last.seq + 1 \in seqs
    <3>1. F \in SUBSET Nat
      BY <1>9
    <3>2. PICK i \in F : \A j \in F : i <= j
      BY <1>12, <3>1, LeastNumber
    <3>3. Preceding(last, o, i) = last
      <4>1. \A j \in FirstSent(o) : ~(j < i)
        BY <1>9, <3>2 DEF F
      <4>2. i \in Nat
        BY <3>1
      <4> QED
        BY <1>3, <4>1, <4>2, PrecedingFacts
    <3>4. last.epoch = n.active
      BY <2>8 DEF Stocked
    <3>5. o[i].seq = last.seq + 1
      BY <1>9, <1>10, <3>3, <3>4
    <3> QED
      BY <1>4, <3>5
  <2>9. Following(n, seqs, last, after)
    BY <2>3, <2>4, <2>6, <2>7, <2>8 DEF Following
  <2>10. Rising(rest, after, next)
    <3>1. Back(q, rest, k, last, after)
      <4>1. SameEnd(after, Preceding(last, q, k + 1))
        <5>1. k + 1 \in 1 .. k + 1
          BY <1>1
        <5>2. Preceding(last, q, k + 1) = o[g]
          BY <1>3, <2>2, <5>1
        <5> QED
          BY <1>9, <2>3, <5>2 DEF SameEnd
      <4> QED
        BY <1>1, <4>1, BackFacts DEF rest
    <3>2. \A i \in FirstSent(rest) : /\ i \in 1 .. Len(q) - k /\ rest[i] = q[k + i]
                                     /\ k + i \in FirstSent(q) /\ k + i > k /\ i \in Nat
      BY <1>1, <3>1 DEF Back
    <3>3. g \in FirstSent(q) /\ o[g] = q[g] /\ g <= k /\ g \in Nat
      BY <1>1, <1>3, <1>9 DEF F
    <3>4. after.seq < next
      BY <1>9, <2>3
    <3>5. \A i \in FirstSent(rest) : after.seq < rest[i].seq /\ rest[i].seq < next
      <4> TAKE i \in FirstSent(rest)
      <4>1. g < k + i
        <5>1. \A x, y, z \in Nat : x <= y /\ y + z > y => x < y + z
          OBVIOUS
        <5> QED
          BY <1>1, <3>2, <3>3, <5>1
      <4>2. q[g].seq < q[k + i].seq /\ q[k + i].seq < next
        BY <3>2, <3>3, <4>1 DEF Rising
      <4> QED
        BY <2>3, <3>2, <3>3, <4>2
    <3>6. \A i, j \in FirstSent(rest) : i < j => rest[i].seq < rest[j].seq
      <4> TAKE i, j \in FirstSent(rest)
      <4> HAVE i < j
      <4>1. k + i < k + j
        BY <1>1, <3>2
      <4> QED
        BY <3>2, <4>1 DEF Rising
    <3> QED
      BY <3>4, <3>5, <3>6 DEF Rising
  <2> QED
    BY <2>3, <2>4, <2>9, <2>10 DEF o, rest, after, seqs
<1> QED
  BY <1>11, <1>12

\* What is out when a drain hands packets to a thread.
Handed(out, o) == [s \in Seqs |-> out[s] + Times(o, s)]

\* What is on its way grows by the copies handed to the transport.
LEMMA HandedFacts ==
  ASSUME NEW out \in [Seqs -> Nat], NEW T, NEW o \in Seq(T)
  PROVE  Handed(out, o) \in [Seqs -> Nat] /\ \A s \in Seqs : Handed(out, o)[s] = out[s] + Times(o, s)
<1>1. \A s \in Seqs : Times(o, s) \in Nat /\ out[s] \in Nat
  BY TimesType
<1>2. \A x, y \in Nat : x + y \in Nat
  OBVIOUS
<1> QED
  BY <1>1, <1>2 DEF Handed

\* A purge, in the fields it leaves.
LEMMA PurgeFields ==
  ASSUME NEW n, Paced(n), Watched(n), NEW a
  PROVE  /\ Paced(Purge(n, a)) /\ Watched(Purge(n, a))
         /\ Purge(n, a).queue = <<>> /\ Purge(n, a).cache = <<>>
<1> DEFINE p == Purge(n, a)
<1>1. DOMAIN n = RspFields
  BY DEF Paced
<1>2. /\ DOMAIN p = RspFields /\ p.queue = <<>> /\ p.cache = <<>> /\ p.active = n.active
      /\ p.abandoned = (IF n.active # 0 THEN n.active ELSE n.abandoned)
      /\ p.cacheEpoch = 0 /\ p.rejection = n.rejection /\ SameWatch(n, p)
  BY <1>1 DEF Purge, Clear, RspFields, SameWatch
<1> HIDE DEF p
<1>3. Paced(p)
  <2>1. p.active \in Epochs /\ p.abandoned \in Epochs /\ p.cacheEpoch \in Epochs
    BY <1>2, RecoveryBounds DEF Paced
  <2>2. p.queue \in Seq(Queued)
    BY <1>2, NothingQueued
  <2>3. p.rejection \in Rejections
    BY <1>2 DEF Paced
  <2> QED
    BY <1>2, <2>1, <2>2, <2>3 DEF Paced
<1>4. Watched(p)
  BY <1>2, WatchedSame
<1> QED
  BY <1>2, <1>3, <1>4 DEF p

\* A queue parted in two.
LEMMA PartedFacts ==
  ASSUME NEW q \in Seq(Queued), NEW k \in 0 .. Len(q)
  PROVE  /\ SubSeq(q, 1, k) \in Seq(Queued) /\ SubSeq(q, k + 1, Len(q)) \in Seq(Queued)
         /\ Joined(q, SubSeq(q, 1, k), SubSeq(q, k + 1, Len(q)))
         /\ \A s : Times(q, s) = Times(SubSeq(q, 1, k), s) + Times(SubSeq(q, k + 1, Len(q)), s)
<1> DEFINE o == SubSeq(q, 1, k)
           r == SubSeq(q, k + 1, Len(q))
<1>1. Len(q) \in Nat /\ k \in Nat /\ k <= Len(q) /\ \A i \in 1 .. Len(q) : q[i] \in Queued
  BY QueuedFacts
<1>2. /\ o \in Seq(Queued) /\ Len(o) = IF 1 <= k THEN k - 1 + 1 ELSE 0
      /\ \A i \in 1 .. k - 1 + 1 : o[i] = q[1 + i - 1]
  <2>1. \A i \in 1 .. k : q[i] \in Queued
    BY <1>1
  <2> QED
    BY <1>1, <2>1, SubSeqProperties
<1>3. /\ r \in Seq(Queued) /\ Len(r) = IF k + 1 <= Len(q) THEN Len(q) - (k + 1) + 1 ELSE 0
      /\ \A i \in 1 .. Len(q) - (k + 1) + 1 : r[i] = q[k + 1 + i - 1]
  <2>1. \A i \in k + 1 .. Len(q) : q[i] \in Queued
    BY <1>1
  <2>2. k + 1 \in Int /\ Len(q) \in Int
    BY <1>1
  <2> QED
    BY <2>1, <2>2, SubSeqProperties
<1> HIDE DEF o, r
<1>4. Len(o) = k /\ Len(r) = Len(q) - k
  BY <1>1, <1>2, <1>3
<1>5. \A i \in 1 .. k : q[i] = o[i]
  <2> TAKE i \in 1 .. k
  <2>1. i \in 1 .. k - 1 + 1 /\ 1 + i - 1 = i
    BY <1>1
  <2> QED
    BY <1>2, <2>1
<1>6. \A i \in 1 .. Len(r) : q[k + i] = r[i]
  <2> TAKE i \in 1 .. Len(r)
  <2>1. i \in 1 .. Len(q) - (k + 1) + 1 /\ k + 1 + i - 1 = k + i
    BY <1>1, <1>4
  <2> QED
    BY <1>3, <2>1
<1>7. Joined(q, o, r)
  <2>1. Len(q) = Len(o) + Len(r)
    BY <1>1, <1>4
  <2> QED
    BY <1>4, <1>5, <1>6, <2>1 DEF Joined
<1>8. \A s : Times(q, s) = Times(o, s) + Times(r, s)
  BY <1>2, <1>3, <1>7, TimesJoin
<1> QED
  BY <1>2, <1>3, <1>7, <1>8 DEF o, r

\* The front of a queue, the state that has stored it, and the one without it.
Foremost(x, k) == SubSeq(x.queue, 1, k)

Stores(x, k) == StoreAll(x, FirstTransmissions(Foremost(x, k)))

Takes(x, k) == [Stores(x, k) EXCEPT !.queue = SubSeq(x.queue, k + 1, Len(x.queue))]

\* What a drain takes from the front of the queue is stored, and out.
LEMMA TakenAccounts ==
  ASSUME NEW x, NEW out, NEW last, NEW next, Accounts(x, out, last, next),
         Tidy(x), Chained(x, last), NEW k \in 0 .. Len(x.queue)
  PROVE  /\ Accounts(Takes(x, k), Handed(out, Foremost(x, k)), After(last, Foremost(x, k)), next)
         /\ Foremost(x, k) \in Seq(Queued) /\ Paced(Stores(x, k)) /\ Watched(Stores(x, k))
<1> DEFINE q == x.queue
           o == Foremost(x, k)
           y == Stores(x, k)
           z == Takes(x, k)
           seqs == FirstTransmissions(o)
           after == After(last, o)
           rest == SubSeq(q, k + 1, Len(q))
           now == Handed(out, o)
<1>1. /\ out \in [Seqs -> Nat] /\ last \in [seq : Nat, epoch : Nat] /\ next \in Nat
      /\ DOMAIN x = RspFields /\ q \in Seq(Queued) /\ Paced(x) /\ Watched(x)
      /\ Stocked(x, last) /\ Rising(q, last, next) /\ Ledger(x, out, last)
  BY DEF Accounts, Paced
<1>0. o = SubSeq(q, 1, k) /\ k \in 0 .. Len(q) /\ q = x.queue
  BY DEF Foremost
<1>2. /\ Following(x, seqs, last, after) /\ seqs \in SUBSET Seqs
      /\ after \in [seq : Nat, epoch : Nat] /\ Rising(rest, after, next)
  BY <1>0, <1>1, FollowingFacts
<1>3. /\ o \in Seq(Queued) /\ rest \in Seq(Queued)
      /\ \A s : Times(q, s) = Times(o, s) + Times(rest, s)
  BY <1>0, <1>1, PartedFacts
<1>4. now \in [Seqs -> Nat] /\ \A s \in Seqs : now[s] = out[s] + Times(o, s)
  BY <1>1, <1>3, HandedFacts
<1> HIDE DEF seqs, after, rest, now, q, o, y, z
<1>5. /\ Stocked(y, after)
      /\ \A s \in DOMAIN y.cache : \/ s \in seqs /\ y.cache[s].resent = 0
                                   \/ s \in DOMAIN x.cache /\ y.cache[s].resent = x.cache[s].resent
  BY <1>1, <1>2, StoreStock DEF seqs, y, Stores, o
<1>6. /\ DOMAIN y = RspFields /\ y.queue = q /\ y.active = x.active /\ y.abandoned = x.abandoned
      /\ y.cacheEpoch = x.cacheEpoch /\ y.rejection = x.rejection /\ SameWatch(x, y)
  BY <1>1 DEF StoreAll, RspFields, SameWatch, y, Stores, q
<1>7. /\ DOMAIN z = RspFields /\ z.queue = rest /\ z.active = x.active /\ z.abandoned = x.abandoned
      /\ z.cacheEpoch = x.cacheEpoch /\ z.rejection = x.rejection /\ z.cache = y.cache
      /\ SameWatch(y, z)
  BY <1>6 DEF Takes, rest, RspFields, SameWatch, y, z, q
<1>8. Paced(y) /\ Watched(y)
  <2>1. Paced(y)
    BY <1>1, <1>6 DEF Paced
  <2> QED
    BY <1>1, <1>6, <2>1, WatchedSame
<1>9. Paced(z) /\ Watched(z)
  <2>1. Paced(z)
    BY <1>1, <1>3, <1>7 DEF Paced
  <2> QED
    BY <1>7, <1>8, <2>1, WatchedSame
<1>10. Stocked(z, after)
  <2>1. z.active = y.active /\ z.cache = y.cache
    BY <1>6, <1>7
  <2> QED
    BY <1>5, <2>1 DEF Stocked
<1>11. \A s \in Seqs : Owed(z, now, s) = Owed(x, out, s)
  <2> TAKE s \in Seqs
  <2>1. Times(o, s) \in Nat /\ Times(rest, s) \in Nat /\ out[s] \in Nat
    BY <1>1, <1>3, QueuedFacts
  <2>2. Owed(z, now, s) = (out[s] + Times(o, s)) + Times(rest, s)
    BY <1>4, <1>7 DEF Owed
  <2>3. Owed(x, out, s) = out[s] + (Times(o, s) + Times(rest, s))
    BY <1>0, <1>3 DEF Owed
  <2>4. \A a, b, c \in Nat : (a + b) + c = a + (b + c)
    OBVIOUS
  <2> QED
    BY <2>1, <2>2, <2>3, <2>4
<1>12. Ledger(z, now, after)
  <2> SUFFICES ASSUME NEW s \in Seqs
               PROVE  /\ Owed(x, out, s) <= MaxRetransmissions
                      /\ s \in DOMAIN z.cache => Owed(x, out, s) <= z.cache[s].resent
                      /\ s > after.seq => Owed(x, out, s) = 0
    BY <1>11 DEF Ledger
  <2>1. /\ Owed(x, out, s) <= MaxRetransmissions
        /\ s \in DOMAIN x.cache => Owed(x, out, s) <= x.cache[s].resent
        /\ s > last.seq => Owed(x, out, s) = 0
    BY <1>1 DEF Ledger
  <2>2. s \in Nat /\ last.seq \in Nat /\ after.seq \in Nat /\ last.seq <= after.seq
    BY <1>1, <1>2, RecoveryBounds DEF Following
  <2>3. ASSUME s \in seqs PROVE Owed(x, out, s) = 0
    <3>1. last.seq < s
      BY <1>2, <2>3 DEF Following
    <3> QED
      BY <2>1, <3>1
  <2>4. s \in DOMAIN z.cache => Owed(x, out, s) <= z.cache[s].resent
    <3> SUFFICES ASSUME s \in DOMAIN z.cache PROVE Owed(x, out, s) <= z.cache[s].resent
      OBVIOUS
    <3>1. CASE s \in seqs /\ y.cache[s].resent = 0
      <4>1. Owed(x, out, s) = 0 /\ z.cache[s].resent = 0
        BY <1>7, <2>3, <3>1
      <4> QED
        BY <4>1
    <3>2. CASE s \in DOMAIN x.cache /\ y.cache[s].resent = x.cache[s].resent
      BY <1>7, <2>1, <3>2
    <3> QED
      BY <1>5, <1>7, <3>1, <3>2
  <2>5. s > after.seq => s > last.seq
    BY <2>2
  <2> QED
    BY <2>1, <2>4, <2>5
<1>13. Accounts(z, now, after, next)
  BY <1>1, <1>2, <1>4, <1>7, <1>9, <1>10, <1>12 DEF Accounts
<1> QED
  BY <1>3, <1>8, <1>13 DEF now, after, o, y, z

\* A drain hands the packets of its batch from the queue to its thread.
LEMMA DrainAccounts ==
  ASSUME NEW x, NEW out, NEW last, NEW next, Accounts(x, out, last, next),
         Tidy(x), Chained(x, last), NEW n \in Budgets(x)
  PROVE  /\ Accounts(Drain(x, n).m, Handed(out, Drain(x, n).out), After(last, Drain(x, n).out), next)
         /\ Drain(x, n).out \in Seq(Queued)
<1> DEFINE q == x.queue
           o == Released(x, n)
           y == StoreAll(x, FirstTransmissions(o))
           z == [y EXCEPT !.queue = SubSeq(q, n + 1, Len(q))]
           now == Handed(out, o)
           after == After(last, o)
<1>1. /\ out \in [Seqs -> Nat] /\ last \in [seq : Nat, epoch : Nat]
      /\ q \in Seq(Queued) /\ Len(q) \in Nat /\ n \in 0 .. Len(q) /\ n \in Nat
  BY LenProperties DEF Accounts, Paced, Budgets
<1>2. CASE Expired(x)
  <2> DEFINE p == Purge(x, TRUE)
             r == "PACER_AGE_PURGED_DEPENDENCY_EPOCH"
             e == [p EXCEPT !.rejection = r]
  <2>1. Drain(x, n).m = e /\ Drain(x, n).out = <<>>
    <3>1. Drain(x, n) = [m |-> e, out |-> <<>>]
      BY <1>2 DEF Drain
    <3> HIDE DEF e
    <3> QED
      BY <3>1
  <2>2. Accounts(p, out, last, next) /\ r \in Rejections
    BY PurgeAccounts, RejectionFacts
  <2> HIDE DEF p, r
  <2>3. Accounts(e, out, last, next)
    BY <2>2, NotedAccounts
  <2> HIDE DEF e
  <2>4. <<>> \in Seq(Packet) /\ Len(<<>>) = 0 /\ FirstSent(<<>>) = {}
    BY NoPackets
  <2>5. After(last, <<>>) = last
    <3>1. Len(<<>>) + 1 \in Nat
      BY <2>4
    <3>2. Preceding(last, <<>>, Len(<<>>) + 1) = last
      BY <2>4, <3>1, PrecedingFacts
    <3>3. last.seq \in Nat /\ last.epoch \in Nat
      BY <1>1
    <3> QED
      BY <1>1, <2>4, <3>2, <3>3, AfterFacts
  <2>6. Handed(out, <<>>) \in [Seqs -> Nat] /\ \A s \in Seqs : Handed(out, <<>>)[s] <= out[s]
    <3>1. /\ Handed(out, <<>>) \in [Seqs -> Nat]
          /\ \A s \in Seqs : Handed(out, <<>>)[s] = out[s] + Times(<<>>, s)
      BY <1>1, NothingQueued, HandedFacts
    <3>2. \A s \in Seqs : out[s] \in Nat /\ Times(<<>>, s) = 0
      BY <1>1, NothingQueued
    <3> QED
      BY <3>1, <3>2
  <2>7. Accounts(e, Handed(out, <<>>), last, next)
    BY <2>3, <2>6, EasedAccounts
  <2> QED
    BY <2>1, <2>5, <2>7, NothingQueued
<1>3. CASE ~Expired(x)
  <2>1. /\ Drain(x, n).out = o
        /\ Refused(x, n) = {} => Drain(x, n).m = z
        /\ Refused(x, n) # {} =>
             Drain(x, n).m = [RequireRecovery(y) EXCEPT
                                !.rejection = "PACER_RETRANSMISSION_CACHE_REJECTED"]
    <3>1. CASE Refused(x, n) = {}
      BY <1>3, <3>1 DEF Drain
    <3>2. CASE Refused(x, n) # {}
      BY <1>3, <3>2 DEF Drain
    <3> QED
      BY <3>1, <3>2
  <2>2. PICK k \in 0 .. n : /\ o = SubSeq(q, 1, k)
                            /\ Refused(x, n) = {} => k = n
    BY <1>1, ReleasedFacts
  <2>3. Refused(x, n) # {} => q # <<>>
    BY <1>1, ReleasedFacts
  <2>4. k \in 0 .. Len(q) /\ k \in Nat
    BY <1>1
  <2> DEFINE w == [y EXCEPT !.queue = SubSeq(q, k + 1, Len(q))]
  <2>5. /\ Accounts(w, now, after, next) /\ o \in Seq(Queued)
        /\ Paced(y) /\ Watched(y)
    <3>1. /\ Accounts(Takes(x, k), Handed(out, Foremost(x, k)), After(last, Foremost(x, k)), next)
          /\ Foremost(x, k) \in Seq(Queued) /\ Paced(Stores(x, k)) /\ Watched(Stores(x, k))
      BY <2>4, TakenAccounts
    <3>2. Foremost(x, k) = o
      BY <2>2 DEF Foremost
    <3> HIDE DEF o
    <3>3. Stores(x, k) = y
      BY <3>2 DEF Stores
    <3>4. Takes(x, k) = w
      BY <3>3 DEF Takes
    <3> HIDE DEF y, w
    <3> QED
      BY <3>1, <3>2, <3>3, <3>4
  <2>6. CASE Refused(x, n) = {}
    <3>1. w = z /\ k = n
      BY <2>2, <2>6
    <3> QED
      BY <2>1, <2>5, <2>6, <3>1
  <2>7. CASE Refused(x, n) # {}
    <3> DEFINE p == Purge(y, TRUE)
               r == "PACER_RETRANSMISSION_CACHE_REJECTED"
    <3>1. y.stopped = x.stopped /\ y.awaiting = x.awaiting
      BY DEF StoreAll, Tidy, RspFields
    <3>2. ~y.stopped /\ ~y.awaiting
      BY <2>3, <2>7, <3>1 DEF Tidy
    <3> HIDE DEF y
    <3>3. RequireRecovery(y) = p
      BY <3>2 DEF RequireRecovery
    <3>4. Paced(p) /\ Watched(p) /\ p.queue = <<>> /\ p.cache = <<>>
      BY <2>5, PurgeFields
    <3>5. r \in Rejections
      BY RejectionFacts
    <3> HIDE DEF p, r, w, now, after
    <3>6. Accounts(p, now, after, next)
      BY <2>5, <3>4, EmptiedAccounts
    <3>7. Accounts([p EXCEPT !.rejection = r], now, after, next)
      BY <3>5, <3>6, NotedAccounts
    <3>8. Drain(x, n).m = [p EXCEPT !.rejection = r]
      BY <2>1, <2>7, <3>3 DEF r
    <3> HIDE DEF o
    <3> QED
      BY <2>1, <2>5, <3>7, <3>8 DEF now, after
  <2> QED
    BY <2>6, <2>7
<1> QED
  BY <1>2, <1>3

-----------------------------------------------------------------------------
\* What the recovery controller leaves alone.
SamePacer(n, x) ==
  /\ DOMAIN x = RspFields /\ x.queue = n.queue /\ x.active = n.active
  /\ x.abandoned = n.abandoned /\ x.rejection = n.rejection

\* A change of the recovery controller alone, or one that clears the cache.
LEMMA BesideAccounts ==
  ASSUME NEW n, NEW out, NEW last, NEW next, Accounts(n, out, last, next),
         NEW x, SamePacer(n, x), x.cacheEpoch \in Epochs, Watched(x),
         x.cache = n.cache \/ x.cache = <<>>
  PROVE  Accounts(x, out, last, next)
<1>1. Paced(n) /\ Stocked(n, last)
  BY DEF Accounts
<1>2. Paced(x)
  BY <1>1 DEF Paced, SamePacer
<1>3. x.queue = n.queue /\ x.active = n.active
  BY DEF SamePacer
<1>4. CASE x.cache = n.cache
  <2>1. Thinned(n.cache, x.cache)
    BY <1>1, <1>4, ThinnedSame
  <2>2. \A s \in DOMAIN x.cache : x.cache[s].resent = n.cache[s].resent
    BY <1>4
  <2> QED
    BY <1>2, <1>3, <2>1, <2>2, ThinnedAccounts
<1>5. CASE x.cache = <<>>
  <2>1. Thinned(n.cache, x.cache)
    BY <1>1, <1>5, ThinnedSame
  <2>2. \A s \in DOMAIN x.cache : x.cache[s].resent = n.cache[s].resent
    BY <1>5, NothingQueued
  <2> QED
    BY <1>2, <1>3, <2>1, <2>2, ThinnedAccounts
<1> QED
  BY <1>4, <1>5

\* The overload of a flood: the time it lasts, its end, and the session's.
LEMMA FloodAccounts ==
  ASSUME NEW n, NEW out, NEW last, NEW next, Accounts(n, out, last, next)
  PROVE  /\ Accounts(FloodExceeded(n), out, last, next)
         /\ Accounts(FloodRelaxed(n), out, last, next)
         /\ Accounts(RequestForcedIdr(n), out, last, next)
<1>1. DOMAIN n = RspFields /\ n.cacheEpoch \in Epochs /\ Watched(n)
  BY DEF Accounts, Paced
<1>2. 0 \in Epochs /\ 0 \in 0 .. FloodTime /\ 0 \in 0 .. Window /\ TRUE \in Flag
  <2>1. FloodTime \in Nat /\ Window \in Nat /\ 0 \in Epochs
    BY RecoveryBounds
  <2>2. 0 \in 0 .. FloodTime /\ 0 \in 0 .. Window
    BY <2>1
  <2> QED
    BY <2>1, <2>2, FlagFacts
<1>3. ASSUME NEW v, v = NoOverload \/ v \in 0 .. FloodTime
      PROVE  Accounts([n EXCEPT !.overload = v], out, last, next)
  <2> DEFINE x == [n EXCEPT !.overload = v]
  <2>1. /\ SamePacer(n, x) /\ x.cacheEpoch = n.cacheEpoch /\ x.cache = n.cache /\ x.overload = v
        /\ x.recEpoch = n.recEpoch /\ x.epoch = n.epoch /\ x.lastIdr = n.lastIdr
        /\ x.feedback = n.feedback /\ x.nacks = n.nacks /\ x.recStopped = n.recStopped
        /\ x.flooded = n.flooded /\ x.stopping = n.stopping /\ x.notified = n.notified
    BY <1>1 DEF SamePacer, RspFields
  <2> HIDE DEF x
  <2>2. Watched(x)
    BY <1>1, <1>3, <2>1 DEF Watched
  <2>3. Accounts(x, out, last, next)
    BY <1>1, <2>1, <2>2, BesideAccounts
  <2> QED
    BY <2>3 DEF x
<1>4. Accounts([Clear(n) EXCEPT !.flooded = TRUE, !.recStopped = TRUE], out, last, next)
  <2> DEFINE x == [Clear(n) EXCEPT !.flooded = TRUE, !.recStopped = TRUE]
  <2>1. /\ SamePacer(n, x) /\ x.cacheEpoch = 0 /\ x.cache = <<>> /\ x.overload = n.overload
        /\ x.recEpoch = n.recEpoch /\ x.epoch = n.epoch /\ x.lastIdr = n.lastIdr
        /\ x.feedback = n.feedback /\ x.nacks = n.nacks /\ x.recStopped = TRUE
        /\ x.flooded = TRUE /\ x.stopping = n.stopping /\ x.notified = n.notified
    BY <1>1 DEF SamePacer, RspFields, Clear
  <2> HIDE DEF x
  <2>2. Watched(x)
    BY <1>1, <1>2, <2>1 DEF Watched
  <2>3. Accounts(x, out, last, next)
    BY <1>2, <2>1, <2>2, BesideAccounts
  <2> QED
    BY <2>3 DEF x
<1>5. Accounts([n EXCEPT !.lastIdr = 0], out, last, next)
  <2> DEFINE x == [n EXCEPT !.lastIdr = 0]
  <2>1. /\ SamePacer(n, x) /\ x.cacheEpoch = n.cacheEpoch /\ x.cache = n.cache /\ x.lastIdr = 0
        /\ x.recEpoch = n.recEpoch /\ x.epoch = n.epoch /\ x.overload = n.overload
        /\ x.feedback = n.feedback /\ x.nacks = n.nacks /\ x.recStopped = n.recStopped
        /\ x.flooded = n.flooded /\ x.stopping = n.stopping /\ x.notified = n.notified
    BY <1>1 DEF SamePacer, RspFields
  <2> HIDE DEF x
  <2>2. Watched(x)
    BY <1>1, <1>2, <2>1 DEF Watched
  <2>3. Accounts(x, out, last, next)
    BY <1>1, <2>1, <2>2, BesideAccounts
  <2> QED
    BY <2>3 DEF x
<1>6. Accounts(FloodExceeded(n), out, last, next)
  <2>1. Accounts([n EXCEPT !.overload = 0], out, last, next)
    BY <1>2, <1>3
  <2> QED
    BY <1>4, <2>1 DEF FloodExceeded
<1>7. Accounts(FloodRelaxed(n), out, last, next)
  <2>1. Accounts([n EXCEPT !.overload = NoOverload], out, last, next)
    BY <1>3
  <2> QED
    BY <2>1 DEF FloodRelaxed
<1>8. Accounts(RequestForcedIdr(n), out, last, next)
  BY <1>5 DEF RequestForcedIdr
<1> QED
  BY <1>6, <1>7, <1>8

\* The messages counted in the window are one more than their limit at most.
LEMMA RecentFacts ==
  ASSUME NEW n, Watched(n)
  PROVE  RecentFeedback(n) \in Seq(0 .. Window) /\ Len(RecentFeedback(n)) <= MaxFeedback + 1
<1> DEFINE q == n.feedback
           expired == {i \in DOMAIN q : q[i] >= Window}
           c == Cardinality(expired) + 1
           recent == SubSeq(q, c, Len(q))
           times == Append(recent, 0)
           W == 0 .. Window
<1>1. q \in Seq(W) /\ Len(q) \in Nat /\ Len(q) <= MaxFeedback + 1 /\ DOMAIN q = 1 .. Len(q)
  BY LenProperties DEF Watched
<1>2. c \in Nat \ {0}
  <2>1. IsFiniteSet(1 .. Len(q)) /\ expired \in SUBSET (1 .. Len(q))
    BY <1>1, FS_Interval
  <2> HIDE DEF expired
  <2>2. Cardinality(expired) \in Nat
    BY <2>1, FS_Subset, FS_CardinalityType
  <2> QED
    BY <2>2
<1>3. 0 \in W /\ MaxFeedback \in Nat
  BY RecoveryBounds
<1> HIDE DEF c, W, q
<1>4. recent \in Seq(W) /\ Len(recent) \in Nat /\ Len(recent) <= Len(q)
  <2>1. \A i \in c .. Len(q) : q[i] \in W
    BY <1>1, <1>2, ElementOfSeq
  <2>2. c \in Int /\ Len(q) \in Int
    BY <1>1, <1>2
  <2>3. recent \in Seq(W) /\ Len(recent) = IF c <= Len(q) THEN Len(q) - c + 1 ELSE 0
    <3> HIDE DEF recent
    <3>1. /\ SubSeq(q, c, Len(q)) \in Seq(W)
          /\ Len(SubSeq(q, c, Len(q))) = IF c <= Len(q) THEN Len(q) - c + 1 ELSE 0
      BY <1>1, <1>2, <2>1, <2>2, SubSeqProperties
    <3> QED
      BY <3>1 DEF recent
  <2> HIDE DEF recent
  <2> QED
    BY <1>1, <1>2, <2>3
<1> HIDE DEF recent
<1>5. times \in Seq(W) /\ Len(times) = Len(recent) + 1 /\ times # <<>>
  BY <1>3, <1>4, AppendProperties
<1> HIDE DEF times
<1>6. Tail(times) \in Seq(W) /\ Len(Tail(times)) = Len(recent)
  <2>1. Tail(times) \in Seq(W) /\ Len(Tail(times)) = Len(times) - 1
    BY <1>5, HeadTailProperties
  <2> QED
    BY <1>4, <1>5, <2>1
<1>7. RecentFeedback(n) = IF Len(times) > MaxFeedback + 1 THEN Tail(times) ELSE times
  BY DEF RecentFeedback, times, recent, c, q
<1>8. CASE Len(times) > MaxFeedback + 1
  <2>1. Len(Tail(times)) <= MaxFeedback + 1
    BY <1>1, <1>3, <1>4, <1>6
  <2> QED
    BY <1>6, <1>7, <1>8, <2>1 DEF W
<1>9. CASE ~(Len(times) > MaxFeedback + 1)
  <2>1. Len(times) <= MaxFeedback + 1
    BY <1>3, <1>4, <1>5, <1>9
  <2> QED
    BY <1>5, <1>7, <1>9, <2>1 DEF W
<1> QED
  BY <1>8, <1>9

\* admit_feedback_message.
LEMMA FeedbackAccounts ==
  ASSUME NEW n, NEW out, NEW last, NEW next, Accounts(n, out, last, next)
  PROVE  Accounts(AdmitFeedback(n), out, last, next)
<1>1. DOMAIN n = RspFields /\ n.cacheEpoch \in Epochs /\ Watched(n)
  BY DEF Accounts, Paced
<1> DEFINE x == CountFeedback(n)
           r == RecentFeedback(n)
<1>2. r \in Seq(0 .. Window) /\ Len(r) <= MaxFeedback + 1
  BY <1>1, RecentFacts
<1>3. /\ SamePacer(n, x) /\ x.cacheEpoch = n.cacheEpoch /\ x.cache = n.cache /\ x.feedback = r
      /\ x.recEpoch = n.recEpoch /\ x.epoch = n.epoch /\ x.lastIdr = n.lastIdr
      /\ x.overload = n.overload /\ x.nacks = n.nacks /\ x.recStopped = n.recStopped
      /\ x.flooded = n.flooded /\ x.stopping = n.stopping /\ x.notified = n.notified
  <2>1. x = [n EXCEPT !.feedback = r]
    BY DEF CountFeedback
  <2> HIDE DEF r, x
  <2> QED
    BY <1>1, <2>1 DEF SamePacer, RspFields
<1> HIDE DEF x, r
<1>4. Watched(x)
  BY <1>1, <1>2, <1>3 DEF Watched
<1>5. Accounts(x, out, last, next)
  BY <1>1, <1>3, <1>4, BesideAccounts
<1>6. Accounts(FloodExceeded(x), out, last, next) /\ Accounts(FloodRelaxed(x), out, last, next)
  BY <1>5, FloodAccounts
<1> QED
  BY <1>6 DEF AdmitFeedback, x

\* admit_nack_identifier: no more distinct identifiers than there is room for.
LEMMA AdmissionFacts ==
  ASSUME NEW n, Watched(n), NEW ids \in SUBSET (0 .. WireModulus - 1),
         NEW admitted \in NackAdmissions(n, ids)
  PROVE  /\ RecentNacks(n) \cup admitted \in SUBSET (0 .. WireModulus - 1)
         /\ Cardinality(RecentNacks(n) \cup admitted) <= MaxNackIds
         /\ admitted \in SUBSET ids
<1> DEFINE wire == 0 .. WireModulus - 1
           R == RecentNacks(n)
           new == ids \ R
           room == NackRoom(n)
           fit == IF room <= 0 THEN 0
                  ELSE IF Cardinality(new) <= room THEN Cardinality(new) ELSE room
<1>1. IsFiniteSet(wire) /\ DOMAIN n.nacks \in SUBSET wire /\ Cardinality(DOMAIN n.nacks) <= MaxNackIds
  <2>1. 0 \in Int /\ WireModulus - 1 \in Int
    BY RecoveryBounds
  <2> QED
    BY <2>1, FS_Interval DEF Watched
<1> HIDE DEF wire
<1>2. R \in SUBSET DOMAIN n.nacks
  BY DEF RecentNacks
<1>3. IsFiniteSet(DOMAIN n.nacks) /\ IsFiniteSet(R) /\ Cardinality(R) <= Cardinality(DOMAIN n.nacks)
  BY <1>1, <1>2, FS_Subset
<1>4. Cardinality(R) \in Nat /\ Cardinality(DOMAIN n.nacks) \in Nat
  BY <1>3, FS_CardinalityType
<1>5. room = MaxNackIds - Cardinality(R) /\ MaxNackIds \in Nat
  BY RecoveryBounds DEF NackRoom
<1>6. IsFiniteSet(new)
  <2>1. new \in SUBSET wire
    BY DEF wire
  <2> QED
    BY <1>1, <2>1, FS_Subset
<1>7. Cardinality(new) \in Nat
  BY <1>6, FS_CardinalityType
<1>8. fit \in Nat /\ fit <= room
  <2> HIDE DEF new, R, room
  <2>1. room \in Nat
    BY <1>1, <1>3, <1>4, <1>5
  <2>2. \A a, b \in Nat : LET f == IF b <= 0 THEN 0 ELSE IF a <= b THEN a ELSE b
                          IN  f \in Nat /\ f <= b
    OBVIOUS
  <2> QED
    BY <1>7, <2>1, <2>2
<1>9. PICK A \in SUBSET new : Cardinality(A) = fit /\ admitted = (ids \ new) \cup A
  BY DEF NackAdmissions
<1> HIDE DEF fit, room, R
<1>10. R \cup admitted = R \cup A
  BY <1>9
<1>11. IsFiniteSet(A) /\ Cardinality(A) \in Nat
  BY <1>6, <1>9, FS_Subset, FS_CardinalityType
<1>12. Cardinality(R \cup A) <= Cardinality(R) + Cardinality(A)
  <2>1. /\ IsFiniteSet(R \cup A)
        /\ Cardinality(R \cup A) = Cardinality(R) + Cardinality(A) - Cardinality(R \cap A)
    BY <1>3, <1>11, FS_Union
  <2>2. IsFiniteSet(R \cap A)
    BY <1>3, FS_Intersection
  <2>3. Cardinality(R \cap A) \in Nat
    BY <2>2, FS_CardinalityType
  <2> QED
    BY <1>4, <1>11, <2>1, <2>3
<1>13. Cardinality(R \cup A) <= MaxNackIds
  <2>1. Cardinality(R \cup A) \in Nat
    <3>1. IsFiniteSet(R \cup A)
      BY <1>3, <1>11, FS_Union
    <3> QED
      BY <3>1, FS_CardinalityType
  <2> QED
    BY <1>4, <1>5, <1>8, <1>9, <1>11, <1>12, <2>1
<1>14. R \cup A \in SUBSET wire
  BY <1>1, <1>2, <1>9 DEF wire
<1>15. admitted \in SUBSET ids
  BY <1>9
<1> QED
  BY <1>10, <1>13, <1>14, <1>15 DEF wire, R

\* The identifiers of a NACK are counted.
LEMMA NacksAccounts ==
  ASSUME NEW n, NEW out, NEW last, NEW next, Accounts(n, out, last, next),
         NEW admitted, RecentNacks(n) \cup admitted \in SUBSET (0 .. WireModulus - 1),
         Cardinality(RecentNacks(n) \cup admitted) <= MaxNackIds
  PROVE  Accounts(CountNacks(n, admitted), out, last, next)
<1> DEFINE x == CountNacks(n, admitted)
           D == RecentNacks(n) \cup admitted
           c == [i \in D |-> IF i \in admitted THEN 0 ELSE n.nacks[i]]
<1>1. DOMAIN n = RspFields /\ n.cacheEpoch \in Epochs /\ Watched(n)
  BY DEF Accounts, Paced
<1>2. /\ SamePacer(n, x) /\ x.cacheEpoch = n.cacheEpoch /\ x.cache = n.cache /\ x.nacks = c
      /\ x.recEpoch = n.recEpoch /\ x.epoch = n.epoch /\ x.lastIdr = n.lastIdr
      /\ x.overload = n.overload /\ x.feedback = n.feedback /\ x.recStopped = n.recStopped
      /\ x.flooded = n.flooded /\ x.stopping = n.stopping /\ x.notified = n.notified
  <2>1. x = [n EXCEPT !.nacks = c]
    BY DEF CountNacks
  <2> HIDE DEF c, x
  <2> QED
    BY <1>1, <2>1 DEF SamePacer, RspFields
<1>3. DOMAIN c = D /\ \A i \in DOMAIN c : c[i] \in 0 .. Window
  <2>1. 0 \in 0 .. Window
    <3>1. Window \in Nat
      BY RecoveryBounds
    <3> QED
      BY <3>1
  <2>2. \A i \in RecentNacks(n) : n.nacks[i] \in 0 .. Window
    BY <1>1 DEF Watched, RecentNacks
  <2> QED
    BY <2>1, <2>2
<1> HIDE DEF x, c
<1>4. Watched(x)
  BY <1>1, <1>2, <1>3 DEF Watched
<1>5. Accounts(x, out, last, next)
  BY <1>1, <1>2, <1>4, BesideAccounts
<1> QED
  BY <1>5 DEF x

\* What is out when the packets in S are to be sent again.
Charged(out, S) == [s \in Seqs |-> out[s] + (IF s \in S THEN 1 ELSE 0)]

\* One more copy is on its way of every packet to be retransmitted.
LEMMA ChargedFacts ==
  ASSUME NEW out \in [Seqs -> Nat], NEW S
  PROVE  /\ Charged(out, S) \in [Seqs -> Nat]
         /\ \A s \in Seqs : /\ Charged(out, S)[s] = out[s] + (IF s \in S THEN 1 ELSE 0)
                            /\ out[s] <= Charged(out, S)[s] /\ out[s] \in Nat
<1>1. \A s \in Seqs : LET v == out[s] + (IF s \in S THEN 1 ELSE 0)
                      IN  v \in Nat /\ out[s] <= v /\ out[s] \in Nat
  <2> TAKE s \in Seqs
  <2>1. out[s] \in Nat
    OBVIOUS
  <2>2. CASE s \in S
    BY <2>1, <2>2
  <2>3. CASE s \notin S
    BY <2>1, <2>3
  <2> QED
    BY <2>2, <2>3
<1> QED
  BY <1>1 DEF Charged

\* A resolved packet is counted by its entry before it is sent again.
LEMMA CountedAccounts ==
  ASSUME NEW n, NEW out, NEW last, NEW next, Accounts(n, out, last, next),
         NEW S, \A s \in S : s \in LiveEntries(n) /\ n.cache[s].resent < MaxRetransmissions
  PROVE  /\ Accounts(CountRetransmissions(n, S), Charged(out, S), last, next)
         /\ RecentNacks(CountRetransmissions(n, S)) = RecentNacks(n)
<1> DEFINE x == CountRetransmissions(n, S)
           now == Charged(out, S)
           live == LiveEntries(n)
           c == [s \in live |-> IF s \in S THEN [n.cache[s] EXCEPT !.resent = @ + 1] ELSE n.cache[s]]
<1>1. /\ out \in [Seqs -> Nat] /\ last \in [seq : Nat, epoch : Nat] /\ next \in Nat
      /\ DOMAIN n = RspFields /\ Paced(n) /\ Watched(n) /\ n.queue \in Seq(Queued)
      /\ Stocked(n, last) /\ Rising(n.queue, last, next) /\ Ledger(n, out, last)
  BY DEF Accounts, Paced
<1>2. /\ live \in SUBSET DOMAIN n.cache /\ live \in SUBSET Seqs
      /\ \A s \in live, t \in DOMAIN n.cache : s < t => t \in live
  BY <1>1, LiveFacts
<1>3. now \in [Seqs -> Nat] /\ \A s \in Seqs : now[s] = out[s] + (IF s \in S THEN 1 ELSE 0)
  BY <1>1, ChargedFacts
<1> HIDE DEF now
<1>4. /\ DOMAIN x = RspFields /\ x.queue = n.queue /\ x.active = n.active
      /\ x.abandoned = n.abandoned /\ x.cacheEpoch = n.cacheEpoch /\ x.rejection = n.rejection
      /\ x.cache = c /\ SameWatch(n, x)
  <2>1. x = [[n EXCEPT !.cache = [s \in live |-> n.cache[s]]] EXCEPT !.cache =
              [s \in live |-> IF s \in S
                 THEN [(n.cache)[s] EXCEPT !.resent = @ + 1] ELSE n.cache[s]]]
    <3>1. \A s \in live : EvictExpired(n).cache[s] = n.cache[s]
      BY <1>1 DEF EvictExpired, RspFields
    <3> QED
      BY <1>1 DEF CountRetransmissions, EvictExpired, RspFields
  <2> HIDE DEF c, x
  <2> QED
    BY <1>1, <2>1 DEF c, RspFields, SameWatch
<1> HIDE DEF x, live
<1>5. DOMAIN c = live
  OBVIOUS
<1>6. ASSUME NEW s \in live
      PROVE  /\ n.cache[s] \in Entry /\ n.cache[s].resent \in Nat /\ c[s] \in Entry
             /\ c[s].age = n.cache[s].age
             /\ c[s].resent = n.cache[s].resent + (IF s \in S THEN 1 ELSE 0)
  <2>1. n.cache[s] \in Entry
    BY <1>1, <1>2 DEF Stocked
  <2> DEFINE e == n.cache[s]
  <2>2. e \in [age : 0 .. CacheAge, resent : 0 .. MaxRetransmissions]
    BY <2>1 DEF Entry
  <2>3. c[s] = IF s \in S THEN [e EXCEPT !.resent = @ + 1] ELSE e
    BY <1>5
  <2> HIDE DEF e, c
  <2>4. e.resent \in Nat
    BY <2>2, RecoveryBounds
  <2>5. CASE s \in S
    <3>1. e.resent < MaxRetransmissions /\ MaxRetransmissions \in Nat
      BY <2>5, RecoveryBounds DEF e
    <3>2. e.resent + 1 \in 0 .. MaxRetransmissions
      BY <2>4, <3>1
    <3>3. [e EXCEPT !.resent = @ + 1] = [age |-> e.age, resent |-> e.resent + 1]
      BY <2>2
    <3>4. c[s] = [age |-> e.age, resent |-> e.resent + 1]
      BY <2>3, <2>5, <3>3
    <3>5. c[s] \in [age : 0 .. CacheAge, resent : 0 .. MaxRetransmissions]
      BY <2>2, <3>2, <3>4
    <3>6. c[s].age = e.age /\ c[s].resent = e.resent + 1
      BY <3>4
    <3> QED
      BY <2>1, <2>4, <2>5, <3>5, <3>6 DEF Entry, e
  <2>6. CASE s \notin S
    <3>1. c[s] = e /\ e.resent + 0 = e.resent
      BY <2>3, <2>4, <2>6
    <3> QED
      BY <2>1, <2>4, <2>6, <3>1 DEF e
  <2> QED
    BY <2>5, <2>6
<1> HIDE DEF c
<1>7. Paced(x) /\ Watched(x)
  <2>1. Paced(x)
    BY <1>1, <1>4 DEF Paced
  <2> QED
    BY <1>1, <1>4, <2>1, WatchedSame
<1>8. Stocked(x, last)
  <2>1. Thinned(n.cache, x.cache)
    <3>1. DOMAIN x.cache = live
      BY <1>4, <1>5
    <3>2. \A s \in live : x.cache[s] \in Entry /\ x.cache[s].age = n.cache[s].age
      BY <1>4, <1>6
    <3> QED
      BY <1>2, <3>1, <3>2 DEF Thinned
  <2> QED
    BY <1>1, <1>4, <2>1, ThinnedStock
<1>9. Ledger(x, now, last)
  <2> SUFFICES ASSUME NEW s \in Seqs
               PROVE  /\ Owed(x, now, s) <= MaxRetransmissions
                      /\ s \in DOMAIN x.cache => Owed(x, now, s) <= x.cache[s].resent
                      /\ s > last.seq => Owed(x, now, s) = 0
    BY DEF Ledger
  <2> DEFINE T == Times(n.queue, s)
             w == Owed(n, out, s)
  <2>1. /\ w <= MaxRetransmissions
        /\ s \in DOMAIN n.cache => w <= n.cache[s].resent
        /\ s > last.seq => w = 0
    BY <1>1 DEF Ledger
  <2>2. T \in Nat /\ out[s] \in Nat /\ w = out[s] + T /\ w \in Nat
    BY <1>1, QueuedFacts DEF Owed
  <2>3. Owed(x, now, s) = (out[s] + (IF s \in S THEN 1 ELSE 0)) + T
    BY <1>3, <1>4 DEF Owed
  <2>4. DOMAIN x.cache = live /\ live \in SUBSET DOMAIN n.cache
    BY <1>2, <1>4, <1>5
  <2> HIDE DEF T, w
  <2>5. CASE s \in S
    <3>1. Owed(x, now, s) = w + 1
      BY <2>2, <2>3, <2>5
    <3>2. s \in live /\ n.cache[s].resent < MaxRetransmissions
      BY <2>5 DEF live
    <3>3. x.cache[s].resent = n.cache[s].resent + 1 /\ n.cache[s].resent \in Nat
      BY <1>4, <1>6, <2>5, <3>2
    <3>4. w <= n.cache[s].resent
      BY <2>1, <2>4, <3>2
    <3>5. s <= last.seq
      BY <1>1, <2>4, <3>2 DEF Stocked
    <3>6. s \in Nat /\ last.seq \in Nat
      BY <1>1, RecoveryBounds
    <3> QED
      BY <2>2, <3>1, <3>2, <3>3, <3>4, <3>5, <3>6, RecoveryBounds
  <2>6. CASE s \notin S
    <3>1. Owed(x, now, s) = w
      BY <2>2, <2>3, <2>6
    <3>2. s \in live => x.cache[s].resent = n.cache[s].resent
      <4> SUFFICES ASSUME s \in live PROVE x.cache[s].resent = n.cache[s].resent
        OBVIOUS
      <4>1. n.cache[s].resent \in Nat /\ x.cache[s].resent = n.cache[s].resent + 0
        BY <1>4, <1>6, <2>6
      <4> QED
        BY <4>1
    <3> QED
      BY <2>1, <2>4, <3>1, <3>2
  <2> QED
    BY <2>5, <2>6
<1>10. Rising(x.queue, last, next)
  BY <1>1, <1>4
<1>11. Accounts(x, now, last, next)
  BY <1>1, <1>3, <1>7, <1>8, <1>9, <1>10 DEF Accounts
<1>12. RecentNacks(x) = RecentNacks(n)
  BY <1>4 DEF RecentNacks, SameWatch
<1> QED
  BY <1>11, <1>12 DEF x, now

\* The packets to send again are charged to what is out.
Booking(d, out, last, next) ==
  /\ d.resend \in SUBSET Seqs /\ IsFiniteSet(d.resend)
  /\ Accounts(d.m, Charged(out, d.resend), last, next)

\* A decision to send nothing again.
LEMMA NothingBooked ==
  ASSUME NEW n, NEW out, NEW last, NEW next, Accounts(n, out, last, next), NEW ask
  PROVE  Booking(Decision(n, {}, ask), out, last, next)
<1>1. out \in [Seqs -> Nat]
  BY DEF Accounts
<1>2. Charged(out, {}) \in [Seqs -> Nat] /\ \A s \in Seqs : Charged(out, {})[s] <= out[s]
  <2>1. /\ Charged(out, {}) \in [Seqs -> Nat]
        /\ \A s \in Seqs : Charged(out, {})[s] = out[s] + 0 /\ out[s] \in Nat
    BY <1>1, ChargedFacts
  <2> QED
    BY <2>1
<1>3. Accounts(n, Charged(out, {}), last, next)
  BY <1>2, EasedAccounts
<1> QED
  BY <1>3, FS_EmptySet DEF Booking, Decision

\* handle_pli.
LEMMA PliBooked ==
  ASSUME NEW n, NEW out, NEW last, NEW next, Accounts(n, out, last, next), NEW epoch
  PROVE  Booking(HandlePli(n, epoch), out, last, next)
<1> DEFINE f == AdmitFeedback(n)
<1>1. Accounts(f, out, last, next)
  BY FeedbackAccounts
<1> HIDE DEF f
<1>2. Accounts(RequestForcedIdr(f), out, last, next)
  BY <1>1, FloodAccounts
<1>3. /\ Booking(Decision(n, {}, FALSE), out, last, next)
      /\ Booking(Decision(f, {}, FALSE), out, last, next)
      /\ Booking(Decision(RequestForcedIdr(f), {}, MayRequestIdr(f)), out, last, next)
  BY <1>1, <1>2, NothingBooked
<1> QED
  BY <1>3 DEF HandlePli, f

\* One NACK: what it resolves is charged, then counted with its identifiers.
LEMMA ResolveBooked ==
  ASSUME NEW f, NEW out, NEW last, NEW next, Accounts(f, out, last, next), NEW epoch,
         NEW ids \in SUBSET (0 .. WireModulus - 1), NEW admitted \in NackAdmissions(f, ids), NEW lost
  PROVE  Booking(ResolveNack(f, epoch, ids, admitted, lost), out, last, next)
<1> DEFINE resolved == admitted \ lost
           resend == Retransmitted(f, epoch, resolved)
           spent == CountRetransmissions(f, resend)
           counted == CountNacks(spent, admitted)
           after == IF admitted # ids THEN FloodExceeded(counted) ELSE counted
           now == Charged(out, resend)
<1>1. out \in [Seqs -> Nat] /\ Watched(f) /\ Stocked(f, last)
  BY DEF Accounts
<1>2. \A s \in resend : s \in LiveEntries(f) /\ f.cache[s].resent < MaxRetransmissions
  BY DEF Retransmitted, Resolvable, Matches
<1>3. resend \in SUBSET Seqs /\ IsFiniteSet(resend)
  <2>1. LiveEntries(f) \in SUBSET Seqs
    BY <1>1, LiveFacts
  <2>2. resend \in SUBSET Seqs
    BY <1>2, <2>1
  <2>3. IsFiniteSet(Seqs)
    <3>1. 1 \in Int /\ MaxAccessUnits * Largest(AccessUnitSizes) \in Int
      BY LargestUnit
    <3>2. IsFiniteSet(1 .. MaxAccessUnits * Largest(AccessUnitSizes))
      BY <3>1, FS_Interval
    <3> QED
      BY <3>2, LargestUnit
  <2> QED
    BY <2>2, <2>3, FS_Subset
<1> HIDE DEF resend
<1>4. Accounts(spent, now, last, next) /\ RecentNacks(spent) = RecentNacks(f)
  BY <1>2, CountedAccounts
<1>5. /\ RecentNacks(f) \cup admitted \in SUBSET (0 .. WireModulus - 1)
      /\ Cardinality(RecentNacks(f) \cup admitted) <= MaxNackIds
  BY <1>1, AdmissionFacts
<1> HIDE DEF spent, now
<1>6. Accounts(counted, now, last, next)
  <2>1. /\ RecentNacks(spent) \cup admitted \in SUBSET (0 .. WireModulus - 1)
        /\ Cardinality(RecentNacks(spent) \cup admitted) <= MaxNackIds
    BY <1>4, <1>5
  <2> QED
    BY <1>4, <2>1, NacksAccounts
<1> HIDE DEF counted
<1>7. Accounts(after, now, last, next)
  BY <1>6, FloodAccounts
<1> HIDE DEF after
<1>8. Accounts(RequestForcedIdr(after), now, last, next)
  BY <1>7, FloodAccounts
<1>9. \A x, ask : Accounts(x, now, last, next) => Booking(Decision(x, resend, ask), out, last, next)
  BY <1>3 DEF Booking, Decision, now
<1>10. \/ ResolveNack(f, epoch, ids, admitted, lost) =
             Decision(RequestForcedIdr(after), resend, MayRequestIdr(after))
       \/ ResolveNack(f, epoch, ids, admitted, lost) = Decision(after, resend, FALSE)
  BY DEF ResolveNack, after, counted, spent, resend
<1> QED
  BY <1>7, <1>8, <1>9, <1>10

\* handle_nack, in every one of its outcomes.
LEMMA NackBooked ==
  ASSUME NEW n, NEW out, NEW last, NEW next, Accounts(n, out, last, next), NEW epoch,
         NEW ids \in SUBSET (0 .. WireModulus - 1), NEW d \in HandleNack(n, epoch, ids)
  PROVE  Booking(d, out, last, next)
<1> DEFINE f == AdmitFeedback(n)
<1>1. Accounts(f, out, last, next)
  BY FeedbackAccounts
<1> HIDE DEF f
<1>2. /\ Booking(Decision(n, {}, FALSE), out, last, next)
      /\ Booking(Decision(f, {}, FALSE), out, last, next)
  BY <1>1, NothingBooked
<1>3. \/ d = Decision(n, {}, FALSE) \/ d = Decision(f, {}, FALSE)
      \/ \E admitted \in NackAdmissions(f, ids) : \E lost : d = ResolveNack(f, epoch, ids, admitted, lost)
  BY DEF HandleNack, f
<1>4. \A admitted \in NackAdmissions(f, ids) : \A lost :
        Booking(ResolveNack(f, epoch, ids, admitted, lost), out, last, next)
  BY <1>1, ResolveBooked
<1> QED
  BY <1>2, <1>3, <1>4

-----------------------------------------------------------------------------
\* The retransmissions of a decision: one copy of each packet.
Copied(p, S) ==
  /\ p \in Seq(Queued) /\ \A i \in 1 .. Len(p) : p[i].rtx = TRUE
  /\ \A s \in Seqs : Times(p, s) = IF s \in S THEN 1 ELSE 0

\* The retransmissions of one decision hold one copy of each of its packets.
LEMMA OrderFacts ==
  ASSUME NEW S \in SUBSET Seqs, IsFiniteSet(S), NEW order \in Orders(S), NEW epoch \in Epochs
  PROVE  Copied([i \in DOMAIN order |-> Retransmission(order[i], epoch)], S)
<1> DEFINE c == Cardinality(S)
           D == 1 .. c
           p == [i \in D |-> Retransmission(order[i], epoch)]
<1>1. c \in Nat /\ IsFiniteSet(D) /\ Cardinality(D) = c
  <2>1. c \in Nat
    BY FS_CardinalityType
  <2> HIDE DEF c
  <2>2. 1 \in Int /\ c \in Int
    BY <2>1
  <2>3. IsFiniteSet(D) /\ Cardinality(D) = IF 1 > c THEN 0 ELSE c - 1 + 1
    BY <2>2, FS_Interval
  <2> QED
    BY <2>1, <2>3
<1>2. order \in [D -> S] /\ DOMAIN order = D /\ \A s \in S : \E i \in D : order[i] = s
  BY DEF Orders
<1> HIDE DEF c, D
<1>3. order \in Surjection(D, S)
  BY <1>2 DEF Surjection
<1>4. order \in Injection(D, S)
  <2>1. Cardinality(D) = Cardinality(S)
    BY <1>1 DEF c
  <2> QED
    BY <1>1, <1>3, <2>1, FS_SurjSameCardinalityImpliesInj
<1>5. \A i, j \in D : order[i] = order[j] => i = j
  BY <1>4 DEF Injection, IsInjective
<1>6. \A i \in D : p[i] = Retransmission(order[i], epoch) /\ order[i] \in S
  BY <1>2
<1>7. \A s \in Seqs : LET z == Retransmission(s, epoch) IN z \in Queued /\ z.rtx = TRUE /\ z.seq = s
  <2> TAKE s \in Seqs
  <2> DEFINE z == Retransmission(s, epoch)
  <2>1. z = [seq |-> s, epoch |-> epoch, idr |-> FALSE, start |-> FALSE, rtx |-> TRUE, age |-> 0]
    BY DEF Retransmission
  <2>2. TRUE \in Flag /\ FALSE \in Flag
    BY FlagFacts
  <2>3. z \in Queued
    <3> HIDE DEF z
    <3> QED
      BY <2>1, <2>2, QueuedMember
  <2>4. z.rtx = TRUE /\ z.seq = s
    <3> HIDE DEF z
    <3> QED
      BY <2>1, Zenon
  <2> QED
    BY <2>3, <2>4
<1>8. \A i \in D : p[i] \in Queued /\ p[i].rtx = TRUE /\ p[i].seq = order[i]
  BY <1>6, <1>7
<1>9. p \in Seq(Queued) /\ Len(p) = c
  <2>1. p \in [1 .. c -> Queued]
    <3> HIDE DEF p
    <3>1. p \in [D -> Queued]
      BY <1>8 DEF p
    <3> QED
      BY <3>1 DEF D
  <2> HIDE DEF p
  <2>2. p \in Seq(Queued)
    BY <1>1, <2>1, SeqDef
  <2>3. DOMAIN p = 1 .. c
    BY <2>1
  <2> QED
    BY <1>1, <2>2, <2>3, LenProperties
<1> HIDE DEF p
<1>10. \A s : Copies(p, s) = {i \in D : order[i] = s}
  BY <1>8, <1>9 DEF Copies, D
<1>11. \A s \in Seqs : Times(p, s) = IF s \in S THEN 1 ELSE 0
  <2> TAKE s \in Seqs
  <2>1. CASE s \in S
    <3>1. PICK i \in D : order[i] = s
      BY <1>2, <2>1
    <3>2. Copies(p, s) = {i}
      BY <1>5, <1>10, <3>1
    <3> QED
      BY <2>1, <3>2, FS_Singleton DEF Times
  <2>2. CASE s \notin S
    <3>1. Copies(p, s) = {}
      BY <1>6, <1>10, <2>2
    <3> QED
      BY <2>2, <3>1, FS_EmptySet DEF Times
  <2> QED
    BY <2>1, <2>2
<1>12. \A i \in 1 .. Len(p) : p[i].rtx = TRUE
  BY <1>8, <1>9 DEF D
<1>13. Copied(p, S)
  BY <1>9, <1>11, <1>12 DEF Copied
<1> QED
  BY <1>2, <1>13 DEF p

\* Retransmissions behind the queue: nothing that is released for the first time.
LEMMA BehindFacts ==
  ASSUME NEW q \in Seq(Queued), NEW last, NEW next, Rising(q, last, next), NEW S, NEW p, Copied(p, S)
  PROVE  /\ q \o p \in Seq(Queued) /\ Rising(q \o p, last, next)
         /\ \A s \in Seqs : Times(q \o p, s) = Times(q, s) + (IF s \in S THEN 1 ELSE 0)
<1> DEFINE r == q \o p
           L == Len(q)
           n == Len(p)
<1>1. p \in Seq(Queued) /\ (\A i \in 1 .. n : p[i].rtx = TRUE)
  BY DEF Copied
<1>2. /\ r \in Seq(Queued) /\ Len(r) = L + n /\ L \in Nat /\ n \in Nat
      /\ \A i \in 1 .. L + n : r[i] = IF i <= L THEN q[i] ELSE p[i - L]
  BY <1>1, ConcatProperties, LenProperties
<1>3. DOMAIN q = 1 .. L /\ DOMAIN r = 1 .. L + n
  BY <1>2, QueuedFacts
<1> HIDE DEF r, L, n
<1>4. \A i \in 1 .. L : r[i] = q[i] /\ i \in 1 .. L + n
  <2> TAKE i \in 1 .. L
  <2>1. i \in 1 .. L + n /\ i <= L
    BY <1>2
  <2> QED
    BY <1>2, <2>1
<1>5. \A i \in 1 .. n : r[L + i] = p[i]
  <2> TAKE i \in 1 .. n
  <2>1. L + i \in 1 .. L + n /\ ~(L + i <= L) /\ (L + i) - L = i
    BY <1>2
  <2> QED
    BY <1>2, <2>1
<1>6. \A i \in FirstSent(r) : i \in FirstSent(q) /\ i \in 1 .. L
  <2> TAKE i \in FirstSent(r)
  <2>1. i \in 1 .. L + n /\ ~r[i].rtx
    BY <1>3 DEF FirstSent
  <2>2. i \in 1 .. L
    <3> SUFFICES ASSUME i \notin 1 .. L PROVE FALSE
      OBVIOUS
    <3>1. i - L \in 1 .. n /\ L + (i - L) = i
      BY <1>2, <2>1
    <3>2. r[L + (i - L)] = p[i - L]
      BY <1>5, <3>1
    <3>3. r[i] = p[i - L] /\ p[i - L].rtx = TRUE
      BY <1>1, <3>1, <3>2 DEF n
    <3> QED
      BY <2>1, <3>3
  <2> QED
    BY <1>3, <1>4, <2>1, <2>2 DEF FirstSent
<1>7. Rising(r, last, next)
  <2>1. \A i \in FirstSent(r) : last.seq < r[i].seq /\ r[i].seq < next
    BY <1>4, <1>6 DEF Rising
  <2>2. \A i, j \in FirstSent(r) : i < j => r[i].seq < r[j].seq
    BY <1>4, <1>6 DEF Rising
  <2>3. last.seq < next
    BY DEF Rising
  <2> QED
    BY <2>1, <2>2, <2>3 DEF Rising
<1>8. Joined(r, q, p)
  BY <1>2, <1>4, <1>5 DEF Joined, L, n
<1>9. \A s \in Seqs : Times(r, s) = Times(q, s) + (IF s \in S THEN 1 ELSE 0)
  <2> TAKE s \in Seqs
  <2>1. Times(r, s) = Times(q, s) + Times(p, s)
    BY <1>1, <1>2, <1>8, TimesJoin
  <2>2. Times(p, s) = IF s \in S THEN 1 ELSE 0
    BY DEF Copied
  <2> QED
    BY <2>1, <2>2
<1> QED
  BY <1>2, <1>7, <1>9 DEF r

\* Charged retransmissions move from what is out into the queue.
LEMMA QueuedAgain ==
  ASSUME NEW y, NEW out \in [Seqs -> Nat], NEW S, NEW last, NEW next,
         Accounts(y, Charged(out, S), last, next), NEW p, Copied(p, S)
  PROVE  Accounts([y EXCEPT !.queue = y.queue \o p], out, last, next)
<1> DEFINE q == y.queue
           r == q \o p
           z == [y EXCEPT !.queue = r]
           now == Charged(out, S)
<1>1. /\ now \in [Seqs -> Nat] /\ last \in [seq : Nat, epoch : Nat] /\ next \in Nat
      /\ DOMAIN y = RspFields /\ Paced(y) /\ Watched(y) /\ q \in Seq(Queued)
      /\ Stocked(y, last) /\ Rising(q, last, next) /\ Ledger(y, now, last)
  BY DEF Accounts, Paced
<1>2. \A s \in Seqs : now[s] = out[s] + (IF s \in S THEN 1 ELSE 0)
  BY ChargedFacts
<1> HIDE DEF now, q
<1>3. /\ r \in Seq(Queued) /\ Rising(r, last, next)
      /\ \A s \in Seqs : Times(r, s) = Times(q, s) + (IF s \in S THEN 1 ELSE 0)
  BY <1>1, BehindFacts
<1> HIDE DEF r
<1>4. /\ DOMAIN z = RspFields /\ z.queue = r /\ z.active = y.active /\ z.cache = y.cache
      /\ z.abandoned = y.abandoned /\ z.cacheEpoch = y.cacheEpoch /\ z.rejection = y.rejection
      /\ SameWatch(y, z)
  BY <1>1 DEF RspFields, SameWatch
<1> HIDE DEF z
<1>5. Paced(z)
  BY <1>1, <1>3, <1>4 DEF Paced
<1>6. Watched(z)
  BY <1>1, <1>4, WatchedSame
<1>7. Stocked(z, last)
  BY <1>1, <1>4 DEF Stocked
<1>8. \A s \in Seqs : Owed(z, out, s) = Owed(y, now, s)
  <2> TAKE s \in Seqs
  <2>1. Owed(z, out, s) = out[s] + (Times(q, s) + (IF s \in S THEN 1 ELSE 0))
    BY <1>3, <1>4 DEF Owed
  <2>2. Owed(y, now, s) = (out[s] + (IF s \in S THEN 1 ELSE 0)) + Times(q, s)
    BY <1>2 DEF Owed, q
  <2>3. out[s] \in Nat /\ Times(q, s) \in Nat
    BY <1>1, QueuedFacts
  <2>4. \A a, b, k \in Nat : a + (b + k) = (a + k) + b
    OBVIOUS
  <2>5. (IF s \in S THEN 1 ELSE 0) \in Nat
    OBVIOUS
  <2> QED
    BY <2>1, <2>2, <2>3, <2>4, <2>5
<1>9. Ledger(z, out, last)
  BY <1>1, <1>4, <1>8 DEF Ledger
<1>10. Rising(z.queue, last, next)
  BY <1>3, <1>4
<1>11. Accounts(z, out, last, next)
  BY <1>1, <1>5, <1>6, <1>7, <1>9, <1>10 DEF Accounts
<1> QED
  BY <1>11 DEF z, r, q

\* The retransmissions of one NACK are queued, refused, or purge the queue.
LEMMA ResendBooked ==
  ASSUME NEW x, NEW out \in [Seqs -> Nat], NEW S, NEW last, NEW next,
         Accounts(x, Charged(out, S), last, next), NEW p, Copied(p, S)
  PROVE  Booked(AdmitRetransmissions(x, p), out, last, next)
<1> DEFINE y == ExpireIfNeeded(x)
           u == Purge(y, TRUE)
           r == AdmitRetransmissions(x, p)
           now == Charged(out, S)
<1>1. \A s \in Seqs : out[s] <= now[s]
  BY ChargedFacts
<1> HIDE DEF now
<1>2. \A n : Accounts(n, now, last, next) => Accounts(n, out, last, next)
  BY <1>1, EasedAccounts
<1>3. Accounts(y, now, last, next)
  BY ExpireAccounts DEF now
<1> HIDE DEF y
<1>4. Accounts(u, now, last, next)
  BY <1>3, PurgeAccounts
<1> HIDE DEF u
<1>5. Accounts(x, out, last, next) /\ Accounts(y, out, last, next) /\ Accounts(u, out, last, next)
  BY <1>2, <1>3, <1>4 DEF now
<1>6. CASE p = <<>>
  <2>1. r = Accepted(x)
    BY <1>6 DEF AdmitRetransmissions
  <2> HIDE DEF r
  <2>2. Booked(r, out, last, next)
    BY <1>5, <2>1, BookedOutcomes
  <2> QED
    BY <2>2 DEF r
<1>7. CASE p # <<>>
  <2> DEFINE reject == y.stopped \/ y.awaiting \/ p[1].epoch # y.active
             over == Len(p) > PacerCapacity - Len(y.queue)
             why == IF Len(p) > PacerCapacity - Len(y.queue) + 1
                    THEN "PACER_RETRANSMISSION_EPOCH_REJECTED"
                    ELSE "PACER_RETRANSMISSION_CAPACITY_PURGED_DEPENDENCY_EPOCH"
             z == [y EXCEPT !.queue = y.queue \o p]
  <2>1. r = IF reject THEN Rejected(y, "PACER_RETRANSMISSION_EPOCH_REJECTED", y.awaiting)
            ELSE IF over THEN Rejected(u, why, TRUE)
            ELSE Accepted(z)
    BY <1>7 DEF AdmitRetransmissions, y, u
  <2>2. why \in Rejections /\ "PACER_RETRANSMISSION_EPOCH_REJECTED" \in Rejections
    BY RejectionFacts
  <2>3. Accounts(z, out, last, next)
    <3> HIDE DEF z
    <3>1. Accounts([y EXCEPT !.queue = y.queue \o p], out, last, next)
      BY <1>3, QueuedAgain DEF now
    <3> QED
      BY <3>1 DEF z
  <2> HIDE DEF r, z, why, reject, over
  <2>4. /\ Booked(Rejected(y, "PACER_RETRANSMISSION_EPOCH_REJECTED", y.awaiting), out, last, next)
        /\ Booked(Rejected(u, why, TRUE), out, last, next)
        /\ Booked(Accepted(z), out, last, next)
    BY <1>5, <2>2, <2>3, BookedOutcomes
  <2>5. Booked(r, out, last, next)
    BY <2>1, <2>4
  <2> QED
    BY <2>5 DEF r
<1> QED
  BY <1>6, <1>7

\* begin_epoch of the recovery controller and of the responder.
LEMMA BeginAccounts ==
  ASSUME NEW n, NEW out, NEW last, NEW next, Accounts(n, out, last, next), NEW epoch \in Epochs
  PROVE  /\ Accounts(BeginRecoveryEpoch(n, epoch), out, last, next)
         /\ Accounts(EnterEpoch(n, epoch), out, last, next)
<1>1. DOMAIN n = RspFields /\ n.cacheEpoch \in Epochs /\ Watched(n)
  BY DEF Accounts, Paced
<1>2. 0 \in 0 .. Window /\ FALSE \in Flag /\ <<>> \in Seq(0 .. Window) /\ Len(<<>>) <= MaxFeedback + 1
  <2>1. Window \in Nat /\ MaxFeedback \in Nat
    BY RecoveryBounds
  <2>2. <<>> \in Seq(0 .. Window) /\ Len(<<>>) = 0
    BY EmptySeq
  <2>3. 0 <= MaxFeedback + 1 /\ (Window \in Nat => 0 \in 0 .. Window)
    BY <2>1
  <2>4. FALSE \in Flag /\ TRUE \in Flag
    BY FlagFacts
  <2>5. Len(<<>>) <= MaxFeedback + 1
    BY <2>2, <2>3
  <2> QED
    BY <2>1, <2>2, <2>3, <2>4, <2>5, Zenon
<1>3. DOMAIN <<>> = {} /\ Cardinality({}) = 0 /\ MaxNackIds \in Nat
  BY NothingQueued, FS_EmptySet, RecoveryBounds
<1>4. Accounts([ResetEpoch(n, epoch) EXCEPT !.recEpoch = epoch, !.feedback = <<>>, !.nacks = <<>>,
                  !.overload = NoOverload, !.lastIdr = 0], out, last, next)
  <2> DEFINE x == [ResetEpoch(n, epoch) EXCEPT !.recEpoch = epoch, !.feedback = <<>>,
                     !.nacks = <<>>, !.overload = NoOverload, !.lastIdr = 0]
  <2>1. /\ SamePacer(n, x) /\ x.cacheEpoch = epoch /\ x.cache = <<>> /\ x.lastIdr = 0
        /\ x.recEpoch = epoch /\ x.epoch = n.epoch /\ x.overload = NoOverload
        /\ x.feedback = <<>> /\ x.nacks = <<>> /\ x.recStopped = n.recStopped
        /\ x.flooded = n.flooded /\ x.stopping = n.stopping /\ x.notified = n.notified
    BY <1>1 DEF SamePacer, RspFields, ResetEpoch
  <2> HIDE DEF x
  <2>2. /\ DOMAIN x.nacks \in SUBSET (0 .. WireModulus - 1) /\ Cardinality(DOMAIN x.nacks) <= MaxNackIds
        /\ \A i \in DOMAIN x.nacks : x.nacks[i] \in 0 .. Window
    BY <1>3, <2>1
  <2>3. Watched(x)
    BY <1>1, <1>2, <2>1, <2>2 DEF Watched
  <2>4. Accounts(x, out, last, next)
    BY <2>1, <2>3, BesideAccounts
  <2> QED
    BY <2>4 DEF x
<1>5. Accounts(RequestForcedIdr(n), out, last, next)
  BY FloodAccounts
<1>6. Accounts([n EXCEPT !.epoch = epoch, !.notified = FALSE], out, last, next)
  <2> DEFINE x == [n EXCEPT !.epoch = epoch, !.notified = FALSE]
  <2>1. /\ SamePacer(n, x) /\ x.cacheEpoch = n.cacheEpoch /\ x.cache = n.cache
        /\ x.lastIdr = n.lastIdr /\ x.recEpoch = n.recEpoch /\ x.epoch = epoch
        /\ x.overload = n.overload /\ x.feedback = n.feedback /\ x.nacks = n.nacks
        /\ x.recStopped = n.recStopped
        /\ x.flooded = n.flooded /\ x.stopping = n.stopping /\ x.notified = FALSE
    BY <1>1 DEF SamePacer, RspFields
  <2> HIDE DEF x
  <2>2. Watched(x)
    BY <1>1, <1>2, <2>1 DEF Watched
  <2>3. Accounts(x, out, last, next)
    BY <1>1, <2>1, <2>2, BesideAccounts
  <2> QED
    BY <2>3 DEF x
<1>7. Accounts(BeginRecoveryEpoch(n, epoch), out, last, next)
  BY <1>4, <1>5 DEF BeginRecoveryEpoch
<1>8. Accounts(EnterEpoch(n, epoch), out, last, next)
  BY <1>6 DEF EnterEpoch
<1> QED
  BY <1>7, <1>8

\* The responder stops: pacer, then recovery controller.
LEMMA StopAccounts ==
  ASSUME NEW n, NEW out, NEW last, NEW next, Accounts(n, out, last, next)
  PROVE  Accounts([StopRecovery(StopPacer(n)) EXCEPT !.stopping = TRUE, !.epoch = 0], out, last, next)
<1> DEFINE u == Purge(n, FALSE)
           v == [u EXCEPT !.stopped = TRUE]
           y == StopPacer(n)
           x == [StopRecovery(y) EXCEPT !.stopping = TRUE, !.epoch = 0]
<1>1. Accounts(u, out, last, next)
  BY PurgeAccounts
<1>2. DOMAIN u = RspFields /\ u.cacheEpoch \in Epochs /\ Watched(u)
  BY <1>1 DEF Accounts, Paced
<1> HIDE DEF u
<1>3. SamePacer(u, v) /\ v.cacheEpoch = u.cacheEpoch /\ v.cache = u.cache /\ SameWatch(u, v)
  BY <1>2 DEF SamePacer, RspFields, SameWatch
<1> HIDE DEF v
<1>4. Watched(v)
  BY <1>2, <1>3, WatchedSame
<1>5. Accounts(v, out, last, next)
  BY <1>1, <1>2, <1>3, <1>4, BesideAccounts
<1>6. Accounts(y, out, last, next)
  BY <1>5 DEF StopPacer, v, u
<1>7. DOMAIN y = RspFields /\ y.cacheEpoch \in Epochs /\ Watched(y)
  BY <1>6 DEF Accounts, Paced
<1> HIDE DEF y
<1>8. /\ SamePacer(y, x) /\ x.cacheEpoch = 0 /\ x.cache = <<>> /\ x.lastIdr = y.lastIdr
      /\ x.recEpoch = y.recEpoch /\ x.epoch = 0 /\ x.overload = y.overload
      /\ x.feedback = <<>> /\ x.nacks = <<>> /\ x.recStopped = TRUE
      /\ x.flooded = y.flooded /\ x.stopping = TRUE /\ x.notified = y.notified
  BY <1>7 DEF SamePacer, RspFields, StopRecovery, Clear
<1> HIDE DEF x
<1>9. 0 \in Epochs /\ TRUE \in Flag /\ <<>> \in Seq(0 .. Window) /\ Len(<<>>) <= MaxFeedback + 1
  <2>1. MaxFeedback \in Nat /\ 0 \in Epochs
    BY RecoveryBounds
  <2>2. <<>> \in Seq(0 .. Window) /\ Len(<<>>) = 0
    BY EmptySeq
  <2>3. 0 <= MaxFeedback + 1 /\ (Window \in Nat => 0 \in 0 .. Window)
    BY <2>1
  <2>4. FALSE \in Flag /\ TRUE \in Flag
    BY FlagFacts
  <2>5. Len(<<>>) <= MaxFeedback + 1
    BY <2>2, <2>3
  <2> QED
    BY <2>1, <2>2, <2>3, <2>4, <2>5, Zenon
<1>10. /\ DOMAIN x.nacks \in SUBSET (0 .. WireModulus - 1) /\ Cardinality(DOMAIN x.nacks) <= MaxNackIds
       /\ \A i \in DOMAIN x.nacks : x.nacks[i] \in 0 .. Window
  <2>1. DOMAIN <<>> = {} /\ Cardinality({}) = 0 /\ MaxNackIds \in Nat
    BY NothingQueued, FS_EmptySet, RecoveryBounds
  <2> QED
    BY <1>8, <2>1
<1>11. Watched(x)
  BY <1>7, <1>8, <1>9, <1>10 DEF Watched
<1>12. Accounts(x, out, last, next)
  BY <1>6, <1>8, <1>9, <1>11, BesideAccounts
<1> QED
  BY <1>12 DEF x, y

-----------------------------------------------------------------------------
\* An age stays within its bound, and the older stays the older.
LEMMA OlderFacts ==
  ASSUME NEW b \in Nat
  PROVE  /\ \A a \in 0 .. b : Older(a, b) \in 0 .. b
         /\ \A a, c \in 0 .. b : a <= c => Older(a, b) <= Older(c, b)
BY DEF Older

\* The queue one tick later, within the ages there are.
LEMMA AgedQueued ==
  ASSUME NEW q \in Seq(Queued)
  PROVE  LET r == [i \in DOMAIN q |-> [q[i] EXCEPT !.age = Older(q[i].age, PacerAge)]]
         IN  /\ r \in Seq(Queued) /\ FirstSent(r) = FirstSent(q)
             /\ \A i \in FirstSent(q) : r[i].seq = q[i].seq
             /\ \A s : Times(r, s) = Times(q, s)
<1> DEFINE r == [i \in DOMAIN q |-> [q[i] EXCEPT !.age = Older(q[i].age, PacerAge)]]
<1>1. q \in Seq(Packet) /\ Len(q) \in Nat /\ DOMAIN q = 1 .. Len(q) /\ \A i \in 1 .. Len(q) : q[i] \in Queued
  BY QueuedFacts
<1>2. Alike(q, r)
  BY <1>1, AgedAlike
<1>3. \A z \in Queued : [z EXCEPT !.age = Older(z.age, PacerAge)] \in Queued
  <2> TAKE z \in Queued
  <2> DEFINE a == Older(z.age, PacerAge)
             ages == 0 .. PacerAge
  <2>1. a \in ages
    <3>1. PacerAge \in Nat
      BY RecoveryBounds
    <3>2. z.age \in 0 .. PacerAge
      BY DEF Queued
    <3> QED
      BY <3>1, <3>2, OlderFacts
  <2>2. z \in [seq : Seqs, epoch : Epochs, idr : Flag, start : Flag, rtx : Flag, age : ages]
    BY DEF Queued
  <2> HIDE DEF a, ages
  <2>3. [z EXCEPT !.age = a] \in
          [seq : Seqs, epoch : Epochs, idr : Flag, start : Flag, rtx : Flag, age : ages]
    BY <2>1, <2>2
  <2> QED
    BY <2>3 DEF Queued, a, ages
<1>4. \A i \in 1 .. Len(q) : r[i] \in Queued
  <2> TAKE i \in 1 .. Len(q)
  <2>1. q[i] \in Queued
    BY <1>1
  <2>2. r[i] = [q[i] EXCEPT !.age = Older(q[i].age, PacerAge)]
    BY <1>1
  <2> HIDE DEF r
  <2> QED
    BY <1>3, <2>1, <2>2
<1> HIDE DEF r
<1>5. r \in Seq(Packet) /\ Len(r) = Len(q)
  BY <1>2 DEF Alike
<1>6. r \in Seq(Queued)
  <2>1. r \in [1 .. Len(q) -> Packet]
    BY <1>5, LenProperties
  <2>2. r \in [1 .. Len(q) -> Queued]
    BY <1>4, <2>1
  <2> QED
    BY <1>1, <2>2, SeqDef
<1>7. FirstSent(r) = FirstSent(q)
  <2>1. 0 \in Nat
    OBVIOUS
  <2> QED
    BY <1>2, <2>1, PrecedingAlike
<1>8. \A i \in 1 .. Len(q) : r[i].seq = q[i].seq /\ r[i].rtx = q[i].rtx
  BY <1>2 DEF Alike
<1>9. \A i \in FirstSent(q) : r[i].seq = q[i].seq
  BY <1>8, QueuedFacts
<1>10. \A s : Times(r, s) = Times(q, s)
  BY <1>5, <1>8, TimesAlike
<1> QED
  BY <1>6, <1>7, <1>9, <1>10 DEF r

\* The cache one tick later.
AgedCache(c) == [s \in DOMAIN c |-> [c[s] EXCEPT !.age = Older(c[s].age, CacheAge)]]

\* One tick keeps the entries of the cache in their order of age.
LEMMA AgedStock ==
  ASSUME NEW n, NEW last \in [seq : Nat, epoch : Nat], Stocked(n, last), NEW x, x.active = n.active,
         x.cache = AgedCache(n.cache)
  PROVE  Stocked(x, last) /\ \A s \in DOMAIN x.cache : x.cache[s].resent = n.cache[s].resent
<1>1. \A e \in Entry : LET o == [e EXCEPT !.age = Older(e.age, CacheAge)]
                       IN  o \in Entry /\ o.resent = e.resent /\ o.age = Older(e.age, CacheAge)
  <2> TAKE e \in Entry
  <2> DEFINE a == Older(e.age, CacheAge)
             ages == 0 .. CacheAge
             counts == 0 .. MaxRetransmissions
  <2>1. a \in ages
    <3>1. CacheAge \in Nat
      BY RecoveryBounds
    <3>2. e.age \in 0 .. CacheAge
      BY DEF Entry
    <3> QED
      BY <3>1, <3>2, OlderFacts
  <2>2. e \in [age : ages, resent : counts]
    BY DEF Entry
  <2> HIDE DEF a, ages, counts
  <2>3. LET o == [e EXCEPT !.age = a]
        IN  o \in [age : ages, resent : counts] /\ o.resent = e.resent /\ o.age = a
    BY <2>1, <2>2
  <2> QED
    BY <2>3 DEF Entry, a, ages, counts
<1>2. DOMAIN x.cache = DOMAIN n.cache /\ DOMAIN n.cache \in SUBSET Seqs
  BY DEF Stocked, AgedCache
<1>3. \A s \in DOMAIN n.cache : n.cache[s] \in Entry /\ n.cache[s].age \in 0 .. CacheAge
  <2>1. \A s \in DOMAIN n.cache : n.cache[s] \in Entry
    BY DEF Stocked
  <2> QED
    BY <2>1 DEF Entry
<1>4. ASSUME NEW s \in DOMAIN n.cache
      PROVE  /\ x.cache[s] \in Entry /\ x.cache[s].resent = n.cache[s].resent
             /\ x.cache[s].age = Older(n.cache[s].age, CacheAge)
  <2>1. x.cache[s] = [n.cache[s] EXCEPT !.age = Older(n.cache[s].age, CacheAge)]
    BY DEF AgedCache
  <2> DEFINE e == n.cache[s]
  <2>2. e \in Entry
    BY <1>3
  <2> HIDE DEF e
  <2>3. LET o == [e EXCEPT !.age = Older(e.age, CacheAge)]
        IN  o \in Entry /\ o.resent = e.resent /\ o.age = Older(e.age, CacheAge)
    BY <1>1, <2>2
  <2> QED
    BY <2>1, <2>3 DEF e
<1>5. ASSUME NEW s \in DOMAIN n.cache, NEW t \in DOMAIN n.cache, s < t
      PROVE  x.cache[t].age <= x.cache[s].age
  <2>1. n.cache[t].age <= n.cache[s].age
    BY <1>5 DEF Stocked
  <2>2. CacheAge \in Nat /\ n.cache[t].age \in 0 .. CacheAge /\ n.cache[s].age \in 0 .. CacheAge
    BY <1>3, RecoveryBounds
  <2>3. Older(n.cache[t].age, CacheAge) <= Older(n.cache[s].age, CacheAge)
    BY <2>1, <2>2, OlderFacts
  <2> QED
    BY <1>4, <2>3
<1>6. ASSUME NEW s \in DOMAIN n.cache
      PROVE  s <= last.seq /\ last.seq - s < CachePackets /\ (s = last.seq \/ s + 1 \in DOMAIN n.cache)
  BY DEF Stocked
<1>7. DOMAIN n.cache # {} => last.epoch = n.active
  BY DEF Stocked
<1>8. Stocked(x, last)
  BY <1>2, <1>4, <1>5, <1>6, <1>7 DEF Stocked
<1> QED
  BY <1>2, <1>4, <1>8

\* The times of the recovery controller one tick later.
LEMMA AgedWatch ==
  ASSUME NEW n, Watched(n),
         NEW x, x.recEpoch = n.recEpoch, x.epoch = n.epoch, x.recStopped = n.recStopped,
         x.flooded = n.flooded, x.stopping = n.stopping, x.notified = n.notified,
         x.lastIdr = Older(n.lastIdr, Window),
         x.feedback = [i \in DOMAIN n.feedback |-> Older(n.feedback[i], Window)],
         x.nacks = [i \in DOMAIN n.nacks |-> Older(n.nacks[i], Window)],
         x.overload = IF n.overload = NoOverload THEN NoOverload ELSE Older(n.overload, FloodTime)
  PROVE  Watched(x)
<1> DEFINE f == n.feedback
           W == 0 .. Window
<1>1. Window \in Nat /\ FloodTime \in Nat
  BY RecoveryBounds
<1>2. \A a \in W : Older(a, Window) \in W
  BY <1>1, OlderFacts
<1>3. x.lastIdr \in W
  BY <1>2 DEF Watched
<1>4. f \in Seq(W) /\ Len(f) <= MaxFeedback + 1
  BY DEF Watched
<1>5. x.feedback \in Seq(W) /\ Len(x.feedback) = Len(f)
  <2> HIDE DEF W
  <2>1. x.feedback = [i \in DOMAIN f |-> Older(f[i], Window)]
    OBVIOUS
  <2> HIDE DEF f
  <2>2. Len(f) \in Nat /\ DOMAIN f = 1 .. Len(f) /\ \A i \in 1 .. Len(f) : f[i] \in W
    BY <1>4, LenProperties, ElementOfSeq
  <2>3. x.feedback \in [1 .. Len(f) -> W]
    BY <1>2, <2>1, <2>2
  <2>4. x.feedback \in Seq(W)
    BY <2>2, <2>3, SeqDef
  <2>5. DOMAIN x.feedback = 1 .. Len(f)
    BY <2>3
  <2> QED
    BY <2>2, <2>4, <2>5, LenProperties
<1>6. /\ DOMAIN x.nacks = DOMAIN n.nacks
      /\ \A i \in DOMAIN x.nacks : x.nacks[i] \in W
  <2>1. \A i \in DOMAIN n.nacks : n.nacks[i] \in W
    BY DEF Watched
  <2> HIDE DEF W
  <2> QED
    BY <1>2, <2>1
<1>7. x.overload = NoOverload \/ x.overload \in 0 .. FloodTime
  <2>1. n.overload = NoOverload \/ n.overload \in 0 .. FloodTime
    BY DEF Watched
  <2>2. \A a \in 0 .. FloodTime : Older(a, FloodTime) \in 0 .. FloodTime
    BY <1>1, OlderFacts
  <2> QED
    BY <2>1, <2>2
<1>8. /\ x.recEpoch \in Epochs /\ x.epoch \in Epochs /\ x.recStopped \in Flag /\ x.flooded \in Flag
      /\ x.stopping \in Flag /\ x.notified \in Flag
  BY DEF Watched
<1>9. DOMAIN n.nacks \in SUBSET (0 .. WireModulus - 1) /\ Cardinality(DOMAIN n.nacks) <= MaxNackIds
  BY DEF Watched
<1>10. DOMAIN x.nacks \in SUBSET (0 .. WireModulus - 1) /\ Cardinality(DOMAIN x.nacks) <= MaxNackIds
  <2>1. DOMAIN x.nacks = DOMAIN n.nacks
    BY <1>6
  <2> HIDE DEF W, f
  <2> QED
    BY <1>9, <2>1
<1>11. Len(x.feedback) <= MaxFeedback + 1
  BY <1>4, <1>5
<1> QED
  BY <1>3, <1>5, <1>6, <1>7, <1>8, <1>10, <1>11 DEF Watched

\* A tick.
LEMMA AgedAccounts ==
  ASSUME NEW n, NEW out, NEW last, NEW next, Accounts(n, out, last, next)
  PROVE  Accounts(Aged(n), out, last, next)
<1> DEFINE q == n.queue
           r == [i \in DOMAIN q |-> [q[i] EXCEPT !.age = Older(q[i].age, PacerAge)]]
           c == [s \in DOMAIN n.cache |-> [n.cache[s] EXCEPT !.age = Older(n.cache[s].age, CacheAge)]]
           idr == Older(n.lastIdr, Window)
           fb == [i \in DOMAIN n.feedback |-> Older(n.feedback[i], Window)]
           nk == [i \in DOMAIN n.nacks |-> Older(n.nacks[i], Window)]
           ov == IF n.overload = NoOverload THEN NoOverload ELSE Older(n.overload, FloodTime)
           x == Aged(n)
<1>1. /\ out \in [Seqs -> Nat] /\ last \in [seq : Nat, epoch : Nat] /\ next \in Nat
      /\ DOMAIN n = RspFields /\ Paced(n) /\ Watched(n) /\ q \in Seq(Queued)
      /\ Stocked(n, last) /\ Rising(q, last, next) /\ Ledger(n, out, last)
  BY DEF Accounts, Paced
<1>2. /\ r \in Seq(Queued) /\ FirstSent(r) = FirstSent(q)
      /\ \A i \in FirstSent(q) : r[i].seq = q[i].seq
      /\ \A s : Times(r, s) = Times(q, s)
  <2> HIDE DEF q
  <2> QED
    BY <1>1, AgedQueued
<1>3. /\ DOMAIN x = RspFields /\ x.queue = r /\ x.cache = c /\ x.active = n.active
      /\ x.abandoned = n.abandoned /\ x.rejection = n.rejection /\ x.cacheEpoch = n.cacheEpoch
      /\ x.recEpoch = n.recEpoch /\ x.epoch = n.epoch /\ x.recStopped = n.recStopped
      /\ x.flooded = n.flooded /\ x.stopping = n.stopping /\ x.notified = n.notified
      /\ x.lastIdr = idr /\ x.feedback = fb /\ x.nacks = nk /\ x.overload = ov
  <2>1. x = [n EXCEPT !.queue = r, !.cache = c, !.lastIdr = idr, !.feedback = fb, !.nacks = nk,
                      !.overload = ov]
    BY DEF Aged
  <2> HIDE DEF r, c, idr, fb, nk, ov, x
  <2> QED
    BY <1>1, <2>1 DEF RspFields
<1>4. Watched(x)
  <2> HIDE DEF x
  <2> QED
    BY <1>1, <1>3, AgedWatch
<1>5. Stocked(x, last) /\ \A s \in DOMAIN x.cache : x.cache[s].resent = n.cache[s].resent
  <2> HIDE DEF x, c
  <2>1. x.active = n.active /\ x.cache = AgedCache(n.cache)
    BY <1>3 DEF AgedCache, c
  <2> QED
    BY <1>1, <2>1, AgedStock
<1>6. DOMAIN c = DOMAIN n.cache
  OBVIOUS
<1> HIDE DEF r, c, x, q
<1>7. Paced(x)
  BY <1>1, <1>2, <1>3 DEF Paced
<1>8. Rising(r, last, next)
  BY <1>1, <1>2 DEF Rising
<1>9. Ledger(x, out, last)
  <2>1. \A s : Owed(x, out, s) = Owed(n, out, s)
    BY <1>2, <1>3 DEF Owed, q
  <2> QED
    BY <1>1, <1>3, <1>5, <1>6, <2>1 DEF Ledger
<1>10. Accounts(x, out, last, next)
  BY <1>1, <1>3, <1>4, <1>5, <1>7, <1>8, <1>9 DEF Accounts
<1> QED
  BY <1>10 DEF x

-----------------------------------------------------------------------------
\* What the threads hold and what the transport has taken, as one account.
Sent == [seq : Seqs, rtx : Flag]

Pending(rs, a, b, c) == [s \in Seqs |-> rs[s] + (Times(a, s) + (Times(b, s) + Times(c, s)))]

Numbers == [seq : Seqs \cup {0}, epoch : Epochs]

Books(n, rs, a, b, c, last, next) ==
  /\ rs \in [Seqs -> Nat] /\ a \in Seq(Sent) /\ b \in Seq(Sent) /\ c \in Seq(Sent)
  /\ last \in Numbers /\ Accounts(n, Pending(rs, a, b, c), last, next)

\* What is on its way is what was sent and what the three threads hold.
LEMMA PendingFacts ==
  ASSUME NEW rs \in [Seqs -> Nat], NEW T, NEW a \in Seq(T), NEW b \in Seq(T), NEW c \in Seq(T)
  PROVE  /\ Pending(rs, a, b, c) \in [Seqs -> Nat]
         /\ \A s \in Seqs :
              /\ Pending(rs, a, b, c)[s] = rs[s] + (Times(a, s) + (Times(b, s) + Times(c, s)))
              /\ rs[s] \in Nat /\ Times(a, s) \in Nat /\ Times(b, s) \in Nat /\ Times(c, s) \in Nat
<1>1. \A s \in Seqs : rs[s] \in Nat /\ Times(a, s) \in Nat /\ Times(b, s) \in Nat /\ Times(c, s) \in Nat
  BY TimesType
<1>2. \A w, x, y, z \in Nat : w + (x + (y + z)) \in Nat
  OBVIOUS
<1>3. \A s \in Seqs : rs[s] + (Times(a, s) + (Times(b, s) + Times(c, s))) \in Nat
  BY <1>1, <1>2
<1> QED
  BY <1>1, <1>3 DEF Pending

\* Less is held and sent.
LEMMA EasedBooks ==
  ASSUME NEW n, NEW rs, NEW a, NEW b, NEW c, NEW last, NEW next, Books(n, rs, a, b, c, last, next),
         NEW rt \in [Seqs -> Nat], NEW d \in Seq(Sent), NEW e \in Seq(Sent), NEW f \in Seq(Sent),
         \A s \in Seqs : Pending(rt, d, e, f)[s] <= Pending(rs, a, b, c)[s]
  PROVE  Books(n, rt, d, e, f, last, next)
<1>1. Accounts(n, Pending(rs, a, b, c), last, next) /\ last \in Numbers
  BY DEF Books
<1>2. Pending(rt, d, e, f) \in [Seqs -> Nat]
  BY PendingFacts
<1>3. Accounts(n, Pending(rt, d, e, f), last, next)
  BY <1>1, <1>2, EasedAccounts
<1> QED
  BY <1>1, <1>3 DEF Books

\* The batch a drain makes has the copies of the packets it released.
LEMMA BatchFacts ==
  ASSUME NEW o \in Seq(Queued)
  PROVE  Batch(o) \in Seq(Sent) /\ \A s : Times(Batch(o), s) = Times(o, s)
<1> DEFINE r == Batch(o)
<1>1. /\ Len(o) \in Nat /\ DOMAIN o = 1 .. Len(o)
      /\ \A i \in 1 .. Len(o) : o[i].seq \in Seqs /\ o[i].rtx \in Flag
  BY QueuedFacts
<1>2. r = [i \in 1 .. Len(o) |-> [seq |-> o[i].seq, rtx |-> o[i].rtx]]
  BY <1>1 DEF Batch
<1>3. \A i \in 1 .. Len(o) : r[i] \in Sent /\ r[i].seq = o[i].seq /\ r[i].rtx = o[i].rtx
  BY <1>1, <1>2 DEF Sent
<1> HIDE DEF r
<1>4. r \in [1 .. Len(o) -> Sent]
  BY <1>2, <1>3
<1>5. r \in Seq(Sent)
  BY <1>1, <1>4, SeqDef
<1>6. Len(r) = Len(o)
  <2>1. DOMAIN r = 1 .. Len(o)
    BY <1>4
  <2> QED
    BY <1>1, <1>5, <2>1, LenProperties
<1>7. \A s : Times(r, s) = Times(o, s)
  BY <1>3, <1>6, TimesAlike
<1> QED
  BY <1>5, <1>7 DEF r

\* The last packet released is one of those there are.
LEMMA AfterTyped ==
  ASSUME NEW last \in Numbers, NEW o \in Seq(Queued)
  PROVE  After(last, o) \in Numbers
<1> DEFINE p == Preceding(last, o, Len(o) + 1)
<1>1. /\ o \in Seq(Packet) /\ Len(o) + 1 \in Nat /\ FirstSent(o) \in SUBSET (1 .. Len(o))
      /\ \A i \in 1 .. Len(o) : o[i] \in Queued
  <2>1. Len(o) \in Nat
    BY QueuedFacts
  <2> QED
    BY <2>1, QueuedFacts
<1>2. p = last \/ \E k \in FirstSent(o) : p = o[k]
  <2>1. /\ (\A j \in FirstSent(o) : ~(j < Len(o) + 1)) => p = last
        /\ \A k \in FirstSent(o) :
             k < Len(o) + 1 /\ (\A j \in FirstSent(o) : j < Len(o) + 1 => j <= k) => p = o[k]
        /\ \/ \A j \in FirstSent(o) : ~(j < Len(o) + 1)
           \/ \E k \in FirstSent(o) : k < Len(o) + 1 /\ \A j \in FirstSent(o) : j < Len(o) + 1 => j <= k
    BY <1>1, PrecedingFacts
  <2> HIDE DEF p
  <2> QED
    BY <2>1
<1> HIDE DEF p
<1>3. p.seq \in Seqs \cup {0} /\ p.epoch \in Epochs
  <2>1. \A z \in Queued : z.seq \in Seqs /\ z.epoch \in Epochs
    BY DEF Queued
  <2>2. CASE p = last
    BY <2>2 DEF Numbers
  <2>3. CASE \E k \in FirstSent(o) : p = o[k]
    BY <1>1, <2>1, <2>3
  <2> QED
    BY <1>2, <2>2, <2>3
<1>4. After(last, o) = [seq |-> p.seq, epoch |-> p.epoch]
  BY DEF After, p
<1> QED
  BY <1>3, <1>4 DEF Numbers

\* A drain, before its batch replaces what the thread held.
LEMMA DrainBooks ==
  ASSUME NEW x, NEW rs, NEW a, NEW b, NEW c, NEW last, NEW next, Books(x, rs, a, b, c, last, next),
         Tidy(x), Chained(x, last), NEW k \in Budgets(x), NEW out, out = Drain(x, k).out
  PROVE  /\ out \in Seq(Queued) /\ Batch(out) \in Seq(Sent)
         /\ Books(Drain(x, k).m, rs, Batch(out), b, c, After(last, out), next)
         /\ Books(Drain(x, k).m, rs, a, Batch(out), c, After(last, out), next)
         /\ Books(Drain(x, k).m, rs, a, b, Batch(out), After(last, out), next)
<1> DEFINE y == Drain(x, k).m
           after == After(last, out)
           old == Pending(rs, a, b, c)
           t == Batch(out)
<1>1. /\ rs \in [Seqs -> Nat] /\ a \in Seq(Sent) /\ b \in Seq(Sent) /\ c \in Seq(Sent)
      /\ last \in Numbers /\ Accounts(x, old, last, next)
  BY DEF Books
<1>2. Accounts(y, Handed(old, out), after, next) /\ out \in Seq(Queued)
  BY <1>1, DrainAccounts
<1>3. t \in Seq(Sent) /\ \A s : Times(t, s) = Times(out, s)
  BY <1>2, BatchFacts
<1>4. after \in Numbers
  BY <1>1, <1>2, AfterTyped
<1>5. \A s \in Seqs : /\ old[s] = rs[s] + (Times(a, s) + (Times(b, s) + Times(c, s)))
                      /\ rs[s] \in Nat /\ Times(a, s) \in Nat /\ Times(b, s) \in Nat
                      /\ Times(c, s) \in Nat
  BY <1>1, PendingFacts
<1>6. old \in [Seqs -> Nat]
  BY <1>1, PendingFacts
<1>7. \A s \in Seqs : Handed(old, out)[s] = old[s] + Times(t, s) /\ Times(t, s) \in Nat
  <2>1. \A s \in Seqs : Handed(old, out)[s] = old[s] + Times(out, s)
    BY <1>2, <1>6, HandedFacts
  <2>2. \A s : Times(t, s) \in Nat
    BY <1>3, TimesType
  <2> QED
    BY <1>3, <2>1, <2>2
<1> HIDE DEF y, after, old, t
<1>8. ASSUME NEW d \in Seq(Sent), NEW e \in Seq(Sent), NEW f \in Seq(Sent),
             \A s \in Seqs : Pending(rs, d, e, f)[s] <= Handed(old, out)[s]
      PROVE  Books(y, rs, d, e, f, after, next)
  <2>1. Pending(rs, d, e, f) \in [Seqs -> Nat]
    BY <1>1, PendingFacts
  <2>2. Accounts(y, Pending(rs, d, e, f), after, next)
    BY <1>2, <1>8, <2>1, EasedAccounts
  <2> QED
    BY <1>1, <1>4, <2>2 DEF Books
<1>9. \A s \in Seqs : /\ Pending(rs, t, b, c)[s] = rs[s] + (Times(t, s) + (Times(b, s) + Times(c, s)))
                      /\ Pending(rs, a, t, c)[s] = rs[s] + (Times(a, s) + (Times(t, s) + Times(c, s)))
                      /\ Pending(rs, a, b, t)[s] = rs[s] + (Times(a, s) + (Times(b, s) + Times(t, s)))
  BY <1>1, <1>3, PendingFacts
<1>10. \A r, i, j, k1, u \in Nat : /\ r + (u + (j + k1)) <= (r + (i + (j + k1))) + u
                                   /\ r + (i + (u + k1)) <= (r + (i + (j + k1))) + u
                                   /\ r + (i + (j + u)) <= (r + (i + (j + k1))) + u
  OBVIOUS
<1>11. \A s \in Seqs : /\ Pending(rs, t, b, c)[s] <= Handed(old, out)[s]
                       /\ Pending(rs, a, t, c)[s] <= Handed(old, out)[s]
                       /\ Pending(rs, a, b, t)[s] <= Handed(old, out)[s]
  <2> TAKE s \in Seqs
  <2>1. Handed(old, out)[s] = (rs[s] + (Times(a, s) + (Times(b, s) + Times(c, s)))) + Times(t, s)
    BY <1>5, <1>7
  <2> QED
    BY <1>5, <1>7, <1>9, <1>10, <2>1
<1>12. /\ Books(y, rs, t, b, c, after, next)
       /\ Books(y, rs, a, t, c, after, next)
       /\ Books(y, rs, a, b, t, after, next)
  BY <1>1, <1>3, <1>8, <1>11
<1> QED
  BY <1>2, <1>3, <1>12 DEF y, after, t

\* Transmission: the gate lets the first packets of a batch pass, or none.
LEMMA TransmitFacts ==
  ASSUME resent \in [Seqs -> Nat], NEW batch \in Seq(Sent), NEW k \in 0 .. Len(batch), Transmit(batch, k)
  PROVE  /\ resent' \in [Seqs -> Nat]
         /\ \A s \in Seqs : /\ resent'[s] <= resent[s] + Times(batch, s)
                            /\ resent'[s] \in Nat /\ resent[s] \in Nat /\ Times(batch, s) \in Nat
<1>1. \A s \in Seqs : /\ resent[s] \in Nat /\ Times(batch, s) \in Nat
                      /\ Retransmissions(batch, k, s) \in Nat
                      /\ Retransmissions(batch, k, s) <= Times(batch, s)
  BY TimesType, TimesSent
<1> DEFINE now == [s \in Seqs |-> resent[s] + Retransmissions(batch, k, s)]
<1>2. resent' = now \/ resent' = resent
  BY DEF Transmit
<1>3. CASE resent' = now
  <2>1. \A i, j, t \in Nat : i + j \in Nat /\ (j <= t => i + j <= i + t)
    OBVIOUS
  <2>2. \A s \in Seqs : /\ resent'[s] = resent[s] + Retransmissions(batch, k, s)
                        /\ resent'[s] \in Nat /\ resent'[s] <= resent[s] + Times(batch, s)
    BY <1>1, <1>3, <2>1
  <2>3. resent' \in [Seqs -> Nat]
    BY <1>1, <1>3, <2>1
  <2> QED
    BY <1>1, <2>2, <2>3
<1>4. CASE resent' = resent
  <2>1. \A i, t \in Nat : i <= i + t
    OBVIOUS
  <2> QED
    BY <1>1, <1>4, <2>1
<1> QED
  BY <1>2, <1>3, <1>4

-----------------------------------------------------------------------------
\* What the threads hold beside the responder: the peer, the bounds of the runs,
\* and the numbers that the access unit in hand may still take.
Peers ==
  [epoch : Epochs, failed : BOOLEAN, reason : FailureReasons,
   stop : {"no", "closing", "joining", "stopped"}]

Reserved(next, u, s) ==
  /\ next <= 1 + u * Largest(AccessUnitSizes)
  /\ s.pc \in {"begin", "outgoing"} =>
       /\ s.epoch \in 1 .. RspMaxEpoch /\ s.size \in AccessUnitSizes
       /\ next + s.size <= 1 + u * Largest(AccessUnitSizes)

ThreadsTyped ==
  /\ peer \in Peers
  /\ units \in 0 .. MaxAccessUnits /\ messages \in 0 .. MaxMessages
  /\ DOMAIN network = {"pc", "batch", "terminate"} /\ network.pc \in {"idle", "sending"}
  /\ DOMAIN worker = {"pc", "batch"} /\ worker.pc \in {"waiting", "sending", "failed", "exited"}
  /\ Reserved(nextSeq, units, sender)

\* One access unit takes at most the largest size of the numbers.
LEMMA UnitRoom ==
  ASSUME NEW u \in Nat, NEW next \in Nat, next <= 1 + u * Largest(AccessUnitSizes)
  PROVE  /\ next <= 1 + (u + 1) * Largest(AccessUnitSizes)
         /\ \A size \in AccessUnitSizes : next + size <= 1 + (u + 1) * Largest(AccessUnitSizes)
<1> DEFINE l == Largest(AccessUnitSizes)
           p == u * l
<1>1. l \in Nat \ {0} /\ \A size \in AccessUnitSizes : size \in Nat \ {0} /\ size <= l
  BY LargestUnit
<1> HIDE DEF l
<1>2. p \in Nat /\ (u + 1) * l = p + l
  <2>1. \A x, y \in Nat : x * y \in Nat /\ (x + 1) * y = x * y + y
    OBVIOUS
  <2> QED
    BY <1>1, <2>1
<1>3. next <= 1 + p
  BY DEF l
<1> HIDE DEF p
<1>4. next <= 1 + (u + 1) * l /\ \A size \in AccessUnitSizes : next + size <= 1 + (u + 1) * l
  BY <1>1, <1>2, <1>3
<1> QED
  BY <1>4 DEF l

\* The numbers in use are those that the packets have.
LEMMA UnitBound ==
  ASSUME NEW u \in 0 .. MaxAccessUnits
  PROVE  /\ u \in Nat /\ u * Largest(AccessUnitSizes) \in Nat
         /\ u * Largest(AccessUnitSizes) <= MaxAccessUnits * Largest(AccessUnitSizes)
<1>1. MaxAccessUnits \in Nat /\ Largest(AccessUnitSizes) \in Nat
  BY LargestUnit
<1>2. \A x, y, z \in Nat : x * z \in Nat /\ (x <= y => x * z <= y * z)
  <2> TAKE x, y, z \in Nat
  <2>1. x * z \in Nat
    OBVIOUS
  <2>2. ASSUME x <= y PROVE x * z <= y * z
    <3>1. PICK d \in Nat : y = x + d
      <4>1. y - x \in Nat /\ y = x + (y - x)
        BY <2>2
      <4> QED
        BY <4>1
    <3>2. y * z = x * z + d * z /\ d * z \in Nat
      BY <3>1
    <3> QED
      BY <2>1, <3>2
  <2> QED
    BY <2>1, <2>2
<1> QED
  BY <1>1, <1>2

\* fail and stop keep what the peer is.
LEMMA PeerFacts ==
  ASSUME peer \in Peers
  PROVE  /\ \A reason \in FailureReasons : Failed(reason) \in Peers
         /\ \A epoch \in Epochs : [peer EXCEPT !.epoch = epoch] \in Peers
         /\ \A stop \in {"no", "closing", "joining", "stopped"} :
              [peer EXCEPT !.stop = stop] \in Peers
<1>1. ASSUME NEW reason \in FailureReasons
      PROVE  Failed(reason) \in Peers
  <2>1. [peer EXCEPT !.failed = TRUE, !.reason = reason] \in Peers
    BY DEF Peers
  <2>2. Failed(reason) = peer \/ Failed(reason) = [peer EXCEPT !.failed = TRUE, !.reason = reason]
    BY DEF Failed
  <2> QED
    BY <2>1, <2>2
<1>2. \A epoch \in Epochs : [peer EXCEPT !.epoch = epoch] \in Peers
  BY DEF Peers
<1>3. \A stop \in {"no", "closing", "joining", "stopped"} : [peer EXCEPT !.stop = stop] \in Peers
  BY DEF Peers
<1> QED
  BY <1>1, <1>2, <1>3

\* The sender outside send_access_unit holds no access unit.
LEMMA CallerReserved ==
  ASSUME NEW next, NEW u, NEW s, Reserved(next, u, s), NEW pc \in {"idle", "settle", "done"}
  PROVE  Reserved(next, u, Caller(pc)) /\ Caller(pc).batch = <<>>
<1> DEFINE c == Caller(pc)
<1>1. c.pc = pc /\ c.batch = <<>>
  BY DEF Caller
<1> HIDE DEF c
<1>2. Reserved(next, u, c)
  BY <1>1 DEF Reserved
<1> QED
  BY <1>1, <1>2 DEF c

\* The threads as they start.
LEMMA ThreadsInit == RspInit => ThreadsTyped
<1> SUFFICES ASSUME RspInit PROVE ThreadsTyped
  OBVIOUS
<1>1. /\ peer = [epoch |-> 0, failed |-> FALSE, reason |-> "none", stop |-> "no"]
      /\ nextSeq = 1 /\ units = 0 /\ messages = 0 /\ sender = Caller("idle")
      /\ network = [pc |-> "idle", batch |-> <<>>, terminate |-> FALSE]
      /\ worker = [pc |-> "waiting", batch |-> <<>>]
  BY DEF RspInit
<1>2. peer \in Peers
  <2>1. 0 \in Epochs
    BY RecoveryBounds
  <2> QED
    BY <1>1, <2>1 DEF Peers, FailureReasons
<1>3. units \in 0 .. MaxAccessUnits /\ messages \in 0 .. MaxMessages
  BY <1>1, ResponderAssumption
<1>4. Reserved(nextSeq, units, sender)
  <2>1. sender.pc = "idle"
    BY <1>1 DEF Caller
  <2>2. \A l \in Nat : 1 <= 1 + 0 * l
    OBVIOUS
  <2>3. nextSeq <= 1 + units * Largest(AccessUnitSizes)
    BY <1>1, <2>2, LargestUnit
  <2> QED
    BY <2>1, <2>3 DEF Reserved
<1> QED
  BY <1>1, <1>2, <1>3, <1>4 DEF ThreadsTyped

\* send_access_unit reserves the numbers of the access unit.
LEMMA SendThreads ==
  ASSUME ResponderInv, ThreadsTyped, NEW epoch \in 1 .. RspMaxEpoch, NEW idr \in BOOLEAN,
         NEW size \in AccessUnitSizes, SendAccessUnit(epoch, idr, size)
  PROVE  ThreadsTyped'
<1>1. /\ units' = units + 1 /\ units < MaxAccessUnits
      /\ nextSeq' = nextSeq /\ network' = network /\ messages' = messages /\ worker' = worker
  BY DEF SendAccessUnit
<1>2. /\ peer \in Peers /\ units \in 0 .. MaxAccessUnits /\ Reserved(nextSeq, units, sender)
      /\ nextSeq \in Nat \ {0} /\ DOMAIN sender = {"pc", "epoch", "idr", "size", "batch"}
  BY DEF ThreadsTyped, ResponderInv, Sound, SenderSound
<1>3. MaxAccessUnits \in Nat
  BY LargestUnit
<1>4. units' \in 0 .. MaxAccessUnits /\ units \in Nat
  BY <1>1, <1>2, <1>3
<1>5. /\ nextSeq <= 1 + units' * Largest(AccessUnitSizes)
      /\ nextSeq + size <= 1 + units' * Largest(AccessUnitSizes)
  <2>1. nextSeq <= 1 + units * Largest(AccessUnitSizes)
    BY <1>2 DEF Reserved
  <2>2. /\ nextSeq <= 1 + (units + 1) * Largest(AccessUnitSizes)
        /\ \A s \in AccessUnitSizes : nextSeq + s <= 1 + (units + 1) * Largest(AccessUnitSizes)
    BY <1>2, <1>4, <2>1, UnitRoom
  <2> QED
    BY <1>1, <2>2
<1>6. peer' \in Peers /\ Reserved(nextSeq, units', sender')
  <2>1. CASE sender' = Caller("done") /\ peer' = peer
    <3>1. sender'.pc = "done"
      BY <2>1 DEF Caller
    <3> QED
      BY <1>2, <1>5, <2>1, <3>1 DEF Reserved
  <2>2. CASE /\ sender' = [sender EXCEPT !.pc = IF epoch # peer.epoch THEN "begin" ELSE "outgoing",
                                         !.epoch = epoch, !.idr = idr, !.size = size]
             /\ peer' = [peer EXCEPT !.epoch = epoch]
    <3>1. sender'.epoch = epoch /\ sender'.size = size
      BY <1>2, <2>2
    <3>2. epoch \in Epochs
      BY RecoveryBounds DEF Epochs
    <3>3. peer' \in Peers
      BY <1>2, <2>2, <3>2, PeerFacts
    <3> QED
      BY <1>5, <3>1, <3>3 DEF Reserved
  <2> QED
    BY <2>1, <2>2 DEF SendAccessUnit
<1> QED
  BY <1>1, <1>2, <1>4, <1>6 DEF ThreadsTyped

\* The packets of the access unit in hand take their numbers.
LEMMA OutgoingThreads ==
  ASSUME ResponderInv, ThreadsTyped, Outgoing
  PROVE  ThreadsTyped'
<1>1. /\ sender.pc = "outgoing" /\ nextSeq' = nextSeq + sender.size
      /\ peer' = peer /\ units' = units /\ network' = network /\ messages' = messages
      /\ worker' = worker
      /\ \E batch : sender' = [sender EXCEPT !.pc = "sending", !.batch = batch]
  <2>1. \E batch : sender' = [sender EXCEPT !.pc = "sending", !.batch = batch]
    BY DEF Outgoing
  <2> QED
    BY <2>1 DEF Outgoing
<1>2. Reserved(nextSeq, units, sender) /\ DOMAIN sender = {"pc", "epoch", "idr", "size", "batch"}
  BY DEF ThreadsTyped, ResponderInv, SenderSound
<1>3. sender'.pc = "sending"
  BY <1>1, <1>2
<1>4. Reserved(nextSeq', units, sender')
  BY <1>1, <1>2, <1>3 DEF Reserved
<1> QED
  BY <1>1, <1>4 DEF ThreadsTyped

\* What the sender does that ends its call.
LEMMA CallerThreads ==
  ASSUME ThreadsTyped, NEW pc \in {"idle", "settle", "done"}, sender' = Caller(pc),
         peer' \in Peers, nextSeq' = nextSeq, units' = units, messages' = messages,
         network' = network, worker' = worker
  PROVE  ThreadsTyped'
<1>1. Reserved(nextSeq, units, Caller(pc))
  <2>1. Reserved(nextSeq, units, sender)
    BY DEF ThreadsTyped
  <2> QED
    BY <2>1, CallerReserved
<1> QED
  BY <1>1 DEF ThreadsTyped

\* Every step of the sender keeps what the threads hold.
LEMMA SenderThreads ==
  ASSUME ResponderInv, ThreadsTyped, SenderStep
  PROVE  ThreadsTyped'
<1>1. /\ peer \in Peers
      /\ {"PEER_RECOVERY_EPOCH_REJECTED", "PEER_PACKETIZER_REJECTED", "PEER_TRACK_SEND_FAILED",
          "PEER_PACER_REJECTED"} \subseteq FailureReasons
  BY DEF ThreadsTyped, FailureReasons
<1>2. /\ Failed("PEER_RECOVERY_EPOCH_REJECTED") \in Peers /\ Failed("PEER_PACKETIZER_REJECTED") \in Peers
      /\ Failed("PEER_TRACK_SEND_FAILED") \in Peers /\ Failed("PEER_PACER_REJECTED") \in Peers
  BY <1>1, PeerFacts
<1>3. ASSUME NEW epoch \in 1 .. RspMaxEpoch, NEW idr \in BOOLEAN, NEW size \in AccessUnitSizes,
             SendAccessUnit(epoch, idr, size)
      PROVE  ThreadsTyped'
  BY <1>3, SendThreads
<1>4. CASE BeginEpoch
  <2>1. /\ sender.pc = "begin" /\ nextSeq' = nextSeq /\ units' = units /\ messages' = messages
        /\ network' = network /\ worker' = worker
        /\ \/ sender' = [sender EXCEPT !.pc = "outgoing"] /\ peer' = peer
           \/ sender' = Caller("done") /\ peer' = Failed("PEER_RECOVERY_EPOCH_REJECTED")
    BY <1>4 DEF BeginEpoch
  <2>2. CASE sender' = [sender EXCEPT !.pc = "outgoing"] /\ peer' = peer
    <3>1. Reserved(nextSeq, units, sender) /\ DOMAIN sender = {"pc", "epoch", "idr", "size", "batch"}
      BY DEF ThreadsTyped, ResponderInv, SenderSound
    <3>2. sender'.pc = "outgoing" /\ sender'.epoch = sender.epoch /\ sender'.size = sender.size
      BY <2>2, <3>1
    <3>3. Reserved(nextSeq, units, sender')
      BY <2>1, <3>1, <3>2 DEF Reserved
    <3> QED
      BY <2>1, <2>2, <3>3 DEF ThreadsTyped
  <2>3. CASE sender' = Caller("done") /\ peer' = Failed("PEER_RECOVERY_EPOCH_REJECTED")
    BY <1>2, <2>1, <2>3, CallerThreads
  <2> QED
    BY <2>1, <2>2, <2>3
<1>5. CASE Outgoing
  BY <1>5, OutgoingThreads
<1>6. CASE PacketizerRejects
  BY <1>2, <1>6, CallerThreads DEF PacketizerRejects
<1>7. CASE SenderTransmit
  BY <1>1, <1>7, CallerThreads DEF SenderTransmit
<1>8. CASE SenderTransmitFails
  BY <1>2, <1>8, CallerThreads DEF SenderTransmitFails
<1>9. CASE Settle
  <2>1. /\ nextSeq' = nextSeq /\ units' = units /\ messages' = messages
        /\ network' = network /\ worker' = worker
        /\ \/ sender' = Caller("idle") /\ peer' = peer
           \/ sender' = Caller("done") /\ peer' = Failed("PEER_PACER_REJECTED")
    BY <1>9 DEF Settle
  <2> QED
    BY <1>1, <1>2, <2>1, CallerThreads
<1> QED
  BY <1>3, <1>4, <1>5, <1>6, <1>7, <1>8, <1>9 DEF SenderStep

\* The network thread, the worker, the stop and the clock.
LEMMA OthersThreads ==
  ASSUME ThreadsTyped, NetworkStep \/ WorkerStep \/ StopStep \/ RspTick
  PROVE  ThreadsTyped'
<1>1. /\ peer \in Peers /\ messages \in 0 .. MaxMessages /\ MaxMessages \in Nat
      /\ "PEER_FEEDBACK_FLOOD" \in FailureReasons
      /\ DOMAIN worker = {"pc", "batch"}
  BY ResponderAssumption DEF ThreadsTyped, FailureReasons
<1>2. /\ Failed("PEER_FEEDBACK_FLOOD") \in Peers
      /\ [peer EXCEPT !.stop = "closing"] \in Peers
      /\ [peer EXCEPT !.stop = "joining"] \in Peers
      /\ [peer EXCEPT !.stop = "stopped"] \in Peers
  BY <1>1, PeerFacts
<1>3. ASSUME NEW d, Feedback(d) PROVE ThreadsTyped'
  <2>1. /\ messages < MaxMessages /\ messages' = messages + 1
        /\ peer' = peer /\ nextSeq' = nextSeq /\ units' = units /\ sender' = sender
        /\ worker' = worker
    BY <1>3 DEF Feedback
  <2>2. \E batch, stop : network' = [pc |-> "sending", batch |-> batch, terminate |-> stop]
    BY <1>3 DEF Feedback
  <2>3. DOMAIN network' = {"pc", "batch", "terminate"} /\ network'.pc = "sending"
    BY <2>2
  <2>4. messages' \in 0 .. MaxMessages
    BY <1>1, <2>1
  <2> QED
    BY <2>1, <2>3, <2>4 DEF ThreadsTyped
<1>4. CASE IncomingNack \/ IncomingPli
  BY <1>3, <1>4 DEF IncomingNack, IncomingPli
<1>5. CASE NetworkTransmit \/ NetworkTransmitFails
  <2>1. /\ network' = [pc |-> "idle", batch |-> <<>>, terminate |-> FALSE]
        /\ peer' = peer \/ peer' = Failed("PEER_FEEDBACK_FLOOD")
        /\ nextSeq' = nextSeq /\ units' = units /\ sender' = sender /\ messages' = messages
        /\ worker' = worker
    BY <1>5 DEF NetworkTransmit, NetworkTransmitFails
  <2>2. DOMAIN network' = {"pc", "batch", "terminate"} /\ network'.pc = "idle"
    BY <2>1
  <2> QED
    BY <1>1, <1>2, <2>1, <2>2 DEF ThreadsTyped
<1>6. CASE WorkerStep
  <2>1. /\ peer' = peer /\ nextSeq' = nextSeq /\ units' = units /\ sender' = sender
        /\ messages' = messages /\ network' = network
        /\ \/ \E batch : worker' = [pc |-> "sending", batch |-> batch]
           \/ worker' = [pc |-> "waiting", batch |-> <<>>]
           \/ worker' = [pc |-> "failed", batch |-> <<>>]
           \/ worker' = [worker EXCEPT !.pc = "waiting"]
           \/ worker' = [worker EXCEPT !.pc = "exited"]
    <3>1. CASE WorkerDrain
      BY <3>1 DEF WorkerDrain
    <3>2. CASE WorkerTransmit \/ WorkerTransmitFails
      BY <3>2 DEF WorkerTransmit, WorkerTransmitFails
    <3>3. CASE WorkerRecover \/ WorkerExit
      BY <3>3 DEF WorkerRecover, WorkerExit
    <3> QED
      BY <1>6, <3>1, <3>2, <3>3 DEF WorkerStep
  <2>2. DOMAIN worker' = {"pc", "batch"} /\ worker'.pc \in {"waiting", "sending", "failed", "exited"}
    BY <1>1, <2>1
  <2> QED
    BY <2>1, <2>2 DEF ThreadsTyped
<1>7. CASE StopBegin
  BY <1>2, <1>7, CallerThreads DEF StopBegin
<1>8. CASE StopResponder \/ StopJoin
  <2>1. /\ peer' = [peer EXCEPT !.stop = "joining"] \/ peer' = [peer EXCEPT !.stop = "stopped"]
        /\ nextSeq' = nextSeq /\ units' = units /\ sender' = sender /\ messages' = messages
        /\ worker' = worker /\ network' = network
    BY <1>8 DEF StopResponder, StopJoin
  <2> QED
    BY <1>2, <2>1 DEF ThreadsTyped
<1>9. CASE RspTick
  BY <1>9 DEF RspTick, ThreadsTyped
<1> QED
  BY <1>4, <1>5, <1>6, <1>7, <1>8, <1>9 DEF NetworkStep, StopStep

\* No step of the responder's threads leaves what they hold undefined.
LEMMA ThreadsStep ==
  ASSUME ResponderInv, ThreadsTyped, [RspNext]_rspVars
  PROVE  ThreadsTyped'
<1>1. CASE SenderStep
  BY <1>1, SenderThreads
<1>2. CASE NetworkStep \/ WorkerStep \/ StopStep \/ RspTick
  BY <1>2, OthersThreads
<1>3. CASE UNCHANGED rspVars
  BY <1>3 DEF rspVars, ThreadsTyped
<1> QED
  BY <1>1, <1>2, <1>3 DEF RspNext

-----------------------------------------------------------------------------
\* No batch in hand.
LEMMA NoBatch == <<>> \in Seq(Sent) /\ \A s : Times(<<>>, s) = 0
BY NothingQueued, EmptySeq

\* A thread gives its batch to the transport, or drops it.
LEMMA SentBooks ==
  ASSUME NEW n, NEW rs, NEW a, NEW b, NEW c, NEW last, NEW next, Books(n, rs, a, b, c, last, next),
         NEW rt \in [Seqs -> Nat]
  PROVE  /\ (\A s \in Seqs : rt[s] <= rs[s] + Times(a, s)) => Books(n, rt, <<>>, b, c, last, next)
         /\ (\A s \in Seqs : rt[s] <= rs[s] + Times(b, s)) => Books(n, rt, a, <<>>, c, last, next)
         /\ (\A s \in Seqs : rt[s] <= rs[s] + Times(c, s)) => Books(n, rt, a, b, <<>>, last, next)
<1> DEFINE e == <<>>
<1>1. rs \in [Seqs -> Nat] /\ a \in Seq(Sent) /\ b \in Seq(Sent) /\ c \in Seq(Sent)
  BY DEF Books
<1>2. e \in Seq(Sent) /\ \A s : Times(e, s) = 0
  BY NoBatch
<1>3. \A s \in Seqs :
        /\ Pending(rs, a, b, c)[s] = rs[s] + (Times(a, s) + (Times(b, s) + Times(c, s)))
        /\ rs[s] \in Nat /\ Times(a, s) \in Nat /\ Times(b, s) \in Nat /\ Times(c, s) \in Nat
  BY <1>1, PendingFacts
<1> HIDE DEF e
<1>4. /\ \A s \in Seqs : rt[s] \in Nat
      /\ \A s \in Seqs : Pending(rt, e, b, c)[s] = rt[s] + (Times(e, s) + (Times(b, s) + Times(c, s)))
      /\ \A s \in Seqs : Pending(rt, a, e, c)[s] = rt[s] + (Times(a, s) + (Times(e, s) + Times(c, s)))
      /\ \A s \in Seqs : Pending(rt, a, b, e)[s] = rt[s] + (Times(a, s) + (Times(b, s) + Times(e, s)))
  <2>1. \A s \in Seqs : Pending(rt, e, b, c)[s] = rt[s] + (Times(e, s) + (Times(b, s) + Times(c, s)))
    BY <1>1, <1>2, PendingFacts
  <2>2. \A s \in Seqs : Pending(rt, a, e, c)[s] = rt[s] + (Times(a, s) + (Times(e, s) + Times(c, s)))
    BY <1>1, <1>2, PendingFacts
  <2>3. \A s \in Seqs : Pending(rt, a, b, e)[s] = rt[s] + (Times(a, s) + (Times(b, s) + Times(e, s)))
    BY <1>1, <1>2, PendingFacts
  <2> QED
    BY <2>1, <2>2, <2>3
<1>5. \A r, t, i, j, k \in Nat :
        /\ t <= r + i => t + (0 + (j + k)) <= r + (i + (j + k))
        /\ t <= r + j => t + (i + (0 + k)) <= r + (i + (j + k))
        /\ t <= r + k => t + (i + (j + 0)) <= r + (i + (j + k))
  OBVIOUS
<1>6. ASSUME \A s \in Seqs : rt[s] <= rs[s] + Times(a, s)
      PROVE  Books(n, rt, e, b, c, last, next)
  <2>1. ASSUME NEW s \in Seqs PROVE Pending(rt, e, b, c)[s] <= Pending(rs, a, b, c)[s]
    <3> DEFINE i == Times(a, s)
               j == Times(b, s)
               k == Times(c, s)
    <3>1. rs[s] \in Nat /\ rt[s] \in Nat /\ i \in Nat /\ j \in Nat /\ k \in Nat /\ Times(e, s) = 0
      BY <1>2, <1>3, <1>4
    <3>2. /\ Pending(rt, e, b, c)[s] = rt[s] + (0 + (j + k))
          /\ Pending(rs, a, b, c)[s] = rs[s] + (i + (j + k))
      BY <1>3, <1>4, <3>1
    <3>3. rt[s] <= rs[s] + i
      BY <1>6
    <3> HIDE DEF i, j, k
    <3> QED
      BY <1>5, <3>1, <3>2, <3>3
  <2> QED
    BY <1>1, <1>2, <2>1, EasedBooks
<1>7. ASSUME \A s \in Seqs : rt[s] <= rs[s] + Times(b, s)
      PROVE  Books(n, rt, a, e, c, last, next)
  <2>1. ASSUME NEW s \in Seqs PROVE Pending(rt, a, e, c)[s] <= Pending(rs, a, b, c)[s]
    <3> DEFINE i == Times(a, s)
               j == Times(b, s)
               k == Times(c, s)
    <3>1. rs[s] \in Nat /\ rt[s] \in Nat /\ i \in Nat /\ j \in Nat /\ k \in Nat /\ Times(e, s) = 0
      BY <1>2, <1>3, <1>4
    <3>2. /\ Pending(rt, a, e, c)[s] = rt[s] + (i + (0 + k))
          /\ Pending(rs, a, b, c)[s] = rs[s] + (i + (j + k))
      BY <1>3, <1>4, <3>1
    <3>3. rt[s] <= rs[s] + j
      BY <1>7
    <3> HIDE DEF i, j, k
    <3> QED
      BY <1>5, <3>1, <3>2, <3>3
  <2> QED
    BY <1>1, <1>2, <2>1, EasedBooks
<1>8. ASSUME \A s \in Seqs : rt[s] <= rs[s] + Times(c, s)
      PROVE  Books(n, rt, a, b, e, last, next)
  <2>1. ASSUME NEW s \in Seqs PROVE Pending(rt, a, b, e)[s] <= Pending(rs, a, b, c)[s]
    <3> DEFINE i == Times(a, s)
               j == Times(b, s)
               k == Times(c, s)
    <3>1. rs[s] \in Nat /\ rt[s] \in Nat /\ i \in Nat /\ j \in Nat /\ k \in Nat /\ Times(e, s) = 0
      BY <1>2, <1>3, <1>4
    <3>2. /\ Pending(rt, a, b, e)[s] = rt[s] + (i + (j + 0))
          /\ Pending(rs, a, b, c)[s] = rs[s] + (i + (j + k))
      BY <1>3, <1>4, <3>1
    <3>3. rt[s] <= rs[s] + k
      BY <1>8
    <3> HIDE DEF i, j, k
    <3> QED
      BY <1>5, <3>1, <3>2, <3>3
  <2> QED
    BY <1>1, <1>2, <2>1, EasedBooks
<1> QED
  BY <1>6, <1>7, <1>8 DEF e

\* A thread drops its batch.
LEMMA DroppedBooks ==
  ASSUME NEW n, NEW rs, NEW a, NEW b, NEW c, NEW last, NEW next, Books(n, rs, a, b, c, last, next)
  PROVE  /\ Books(n, rs, <<>>, b, c, last, next)
         /\ Books(n, rs, a, <<>>, c, last, next)
         /\ Books(n, rs, a, b, <<>>, last, next)
<1>1. rs \in [Seqs -> Nat] /\ a \in Seq(Sent) /\ b \in Seq(Sent) /\ c \in Seq(Sent)
  BY DEF Books
<1>2. \A s \in Seqs : rs[s] \in Nat /\ Times(a, s) \in Nat /\ Times(b, s) \in Nat /\ Times(c, s) \in Nat
  BY <1>1, PendingFacts
<1>3. \A s \in Seqs : /\ rs[s] <= rs[s] + Times(a, s) /\ rs[s] <= rs[s] + Times(b, s)
                      /\ rs[s] <= rs[s] + Times(c, s)
  <2>1. \A i, j \in Nat : i <= i + j
    OBVIOUS
  <2> QED
    BY <1>2, <2>1
<1> QED
  BY <1>1, <1>3, SentBooks

\* The responder's state changes, and the threads hold what they held.
LEMMA ChangedBooks ==
  ASSUME NEW n, NEW rs, NEW a, NEW b, NEW c, NEW last, NEW next, Books(n, rs, a, b, c, last, next),
         NEW x, NEW after, Accounts(n, Pending(rs, a, b, c), last, next)
                             => Accounts(x, Pending(rs, a, b, c), last, after)
  PROVE  Books(x, rs, a, b, c, last, after)
BY DEF Books

\* The account of the retransmissions, over the responder and its three threads.
BooksInv ==
  Books(m, resent, sender.batch, network.batch, worker.batch, drained.last, nextSeq)

\* The account as it starts.
LEMMA BooksInit == RspInit => BooksInv
<1> SUFFICES ASSUME RspInit PROVE BooksInv
  OBVIOUS
<1> DEFINE e == <<>>
           n == Initial
           rs == [s \in Seqs |-> 0]
           last == [seq |-> 0, epoch |-> 0]
           out == Pending(rs, e, e, e)
<1>1. /\ m = n /\ resent = rs /\ nextSeq = 1
      /\ sender.batch = e /\ network.batch = e /\ worker.batch = e /\ drained.last = last
  <2>1. Caller("idle").batch = <<>>
    BY DEF Caller
  <2>2. drained.last = NothingReleased
    BY DEF RspInit
  <2> QED
    BY <2>1, <2>2 DEF RspInit, NothingReleased
<1>2. e \in Seq(Sent) /\ e \in Seq(Queued) /\ FirstSent(e) = {} /\ DOMAIN e = {}
      /\ (\A s : Times(e, s) = 0) /\ e \in Seq(0 .. Window) /\ Len(e) = 0
  BY NoBatch, NothingQueued, EmptySeq
<1>3. rs \in [Seqs -> Nat] /\ \A s \in Seqs : rs[s] = 0
  OBVIOUS
<1>4. last \in [seq : Nat, epoch : Nat] /\ last \in Numbers /\ last.seq = 0
  BY RecoveryBounds DEF Numbers
<1> HIDE DEF rs
<1>5. out \in [Seqs -> Nat] /\ \A s \in Seqs : out[s] = 0
  <2> HIDE DEF e
  <2>0. e \in Seq(Sent) /\ rs \in [Seqs -> Nat]
    BY <1>2, <1>3
  <2>1. /\ out \in [Seqs -> Nat]
        /\ \A s \in Seqs : out[s] = rs[s] + (Times(e, s) + (Times(e, s) + Times(e, s)))
    BY <2>0, PendingFacts DEF out
  <2> QED
    BY <1>2, <1>3, <2>1
<1> HIDE DEF out
<1>6. /\ DOMAIN n = RspFields /\ n.active = 0 /\ n.abandoned = 0 /\ n.queue = <<>>
      /\ n.cacheEpoch = 0 /\ n.cache = <<>> /\ n.recEpoch = 0 /\ n.lastIdr = Window
      /\ n.feedback = <<>> /\ n.nacks = <<>> /\ n.overload = NoOverload /\ n.recStopped = FALSE
      /\ n.flooded = FALSE /\ n.epoch = 0 /\ n.stopping = FALSE /\ n.rejection = NoRejection
      /\ n.notified = FALSE
  BY DEF Initial, RspFields
<1> HIDE DEF n
<1>7. Paced(n)
  BY <1>2, <1>6, RecoveryBounds, RejectionFacts DEF Paced
<1>8. Watched(n)
  <2>1. Cardinality({}) = 0 /\ 0 <= MaxNackIds /\ 0 <= MaxFeedback + 1 /\ Window \in 0 .. Window
    BY RecoveryBounds, FS_EmptySet
  <2>2. DOMAIN n.nacks = {} /\ n.feedback \in Seq(0 .. Window) /\ Len(n.feedback) = 0
    BY <1>2, <1>6
  <2>3. FALSE \in Flag
    BY DEF Flag
  <2>4. n.lastIdr \in 0 .. Window
    BY <1>6, <2>1
  <2>5. n.recStopped \in Flag /\ n.flooded \in Flag /\ n.stopping \in Flag /\ n.notified \in Flag
    BY <1>6, <2>3
  <2> QED
    BY <1>6, <2>1, <2>2, <2>4, <2>5, RecoveryBounds DEF Watched
<1>9. Stocked(n, last)
  <2>1. DOMAIN n.cache = {}
    BY <1>2, <1>6
  <2> QED
    BY <2>1 DEF Stocked
<1>10. Rising(n.queue, last, 1)
  BY <1>2, <1>4, <1>6 DEF Rising
<1>11. Ledger(n, out, last)
  <2>1. \A s \in Seqs : Owed(n, out, s) = 0
    BY <1>2, <1>5, <1>6 DEF Owed
  <2>2. DOMAIN n.cache = {}
    BY <1>2, <1>6
  <2> QED
    BY <2>1, <2>2, RecoveryBounds DEF Ledger
<1>12. Accounts(n, out, last, 1)
  BY <1>4, <1>5, <1>7, <1>8, <1>9, <1>10, <1>11 DEF Accounts
<1>13. Books(n, rs, e, e, e, last, 1)
  BY <1>2, <1>3, <1>4, <1>12 DEF Books, out
<1> QED
  BY <1>1, <1>13 DEF BooksInv

\* A step of the sender that leaves the responder to the other threads.
LEMMA CallerBooks ==
  ASSUME BooksInv, sender'.batch = sender.batch \/ sender'.batch = <<>>, m' = m, resent' = resent,
         network' = network, worker' = worker, drained' = drained, nextSeq' = nextSeq
  PROVE  BooksInv'
<1> DEFINE b == network.batch
           c == worker.batch
           last == drained.last
<1>1. /\ Books(m, resent, sender.batch, b, c, last, nextSeq)
      /\ Books(m, resent, <<>>, b, c, last, nextSeq)
  BY DroppedBooks DEF BooksInv
<1>2. Books(m, resent, sender'.batch, b, c, last, nextSeq)
  BY <1>1
<1> QED
  BY <1>2 DEF BooksInv

\* A change of the responder by the sender, which then holds no batch, or by
\* another thread.
LEMMA ChangeBooks ==
  ASSUME BooksInv, NEW x, m' = x,
         \A out : Accounts(m, out, drained.last, nextSeq) => Accounts(x, out, drained.last, nextSeq),
         sender'.batch = sender.batch \/ sender'.batch = <<>>, resent' = resent,
         network' = network, worker'.batch = worker.batch, drained' = drained, nextSeq' = nextSeq
  PROVE  BooksInv'
<1> DEFINE b == network.batch
           c == worker.batch
           last == drained.last
<1>1. Books(m, resent, sender.batch, b, c, last, nextSeq)
  BY DEF BooksInv
<1>2. Books(x, resent, sender.batch, b, c, last, nextSeq)
  BY <1>1, ChangedBooks
<1>3. Books(x, resent, <<>>, b, c, last, nextSeq)
  BY <1>2, DroppedBooks
<1>4. Books(x, resent, sender'.batch, b, c, last, nextSeq)
  BY <1>2, <1>3
<1> QED
  BY <1>4 DEF BooksInv

\* begin_epoch.
LEMMA BeginBooks ==
  ASSUME ResponderInv, ThreadsTyped, BooksInv, BeginEpoch
  PROVE  BooksInv'
<1> DEFINE e == sender.epoch
           f == Fenced(e)
           x == EnterEpoch(BeginRecoveryEpoch(f, e), e)
<1>1. /\ sender.pc = "begin" /\ m' = x
      /\ sender' = [sender EXCEPT !.pc = "outgoing"] \/ sender' = Caller("done")
      /\ resent' = resent /\ network' = network /\ worker' = worker /\ drained' = drained
      /\ nextSeq' = nextSeq
  BY DEF BeginEpoch
<1>2. DOMAIN sender = {"pc", "epoch", "idr", "size", "batch"}
  BY DEF ResponderInv, SenderSound
<1>3. sender'.batch = sender.batch \/ sender'.batch = <<>>
  <2>1. Caller("done").batch = <<>>
    BY DEF Caller
  <2> QED
    BY <1>1, <1>2, <2>1
<1>4. e \in Epochs
  <2>1. e \in 1 .. RspMaxEpoch
    BY <1>1 DEF ThreadsTyped, Reserved
  <2> QED
    BY <2>1, RecoveryBounds DEF Epochs
<1> HIDE DEF e
<1>5. ASSUME NEW out, Accounts(m, out, drained.last, nextSeq)
      PROVE  Accounts(x, out, drained.last, nextSeq)
  <2>1. Accounts(f, out, drained.last, nextSeq)
    <3>1. Accounts(RequireRecovery(m), out, drained.last, nextSeq)
      BY <1>5, ExpireAccounts
    <3>2. f = m \/ f = RequireRecovery(m)
      BY DEF Fenced
    <3> HIDE DEF f
    <3> QED
      BY <1>5, <3>1, <3>2
  <2> HIDE DEF f
  <2> DEFINE g == BeginRecoveryEpoch(f, e)
  <2>2. Accounts(g, out, drained.last, nextSeq)
    BY <1>4, <2>1, BeginAccounts
  <2> HIDE DEF g
  <2>3. Accounts(EnterEpoch(g, e), out, drained.last, nextSeq)
    BY <1>4, <2>2, BeginAccounts
  <2> QED
    BY <2>3 DEF g
<1> HIDE DEF x
<1> QED
  BY <1>1, <1>3, <1>5, ChangeBooks

\* The packets of an access unit are counted with their numbers, and drained.
LEMMA OutgoingBooks ==
  ASSUME ResponderInv, ThreadsTyped, BooksInv, Outgoing
  PROVE  BooksInv'
<1> DEFINE last == drained.last
           size == sender.size
           b == network.batch
           c == worker.batch
           out == Pending(resent, sender.batch, b, c)
           r == AdmitAccessUnit(m, Packets(nextSeq, sender.epoch, sender.idr, sender.size))
           next == nextSeq + size
<1>1. /\ sender.pc = "outgoing" /\ Sound(m, last, nextSeq, sender.pc) /\ SenderSound(sender)
      /\ nextSeq' = next /\ drained.unbroken = TRUE
      /\ resent' = resent /\ network' = network /\ worker' = worker
  BY DEF ResponderInv, Outgoing
<1>2. /\ Tidy(m) /\ Chained(m, last) /\ last \in [seq : Nat, epoch : Nat] /\ nextSeq \in Nat \ {0}
      /\ Abreast(m, last, nextSeq)
  BY <1>1 DEF Sound, Live
<1>3. /\ sender.epoch \in Nat \ {0} /\ sender.idr \in Flag /\ size \in Nat \ {0}
      /\ DOMAIN sender = {"pc", "epoch", "idr", "size", "batch"}
  BY <1>1 DEF SenderSound
<1>4. /\ sender.epoch \in Epochs /\ sender.epoch # 0
      /\ next <= 1 + MaxAccessUnits * Largest(AccessUnitSizes)
  <2>1. /\ sender.epoch \in 1 .. RspMaxEpoch /\ next <= 1 + units * Largest(AccessUnitSizes)
        /\ units \in 0 .. MaxAccessUnits
    BY <1>1 DEF ThreadsTyped, Reserved
  <2>2. /\ units * Largest(AccessUnitSizes) \in Nat
        /\ units * Largest(AccessUnitSizes) <= MaxAccessUnits * Largest(AccessUnitSizes)
        /\ MaxAccessUnits * Largest(AccessUnitSizes) \in Nat
    BY <2>1, UnitBound, LargestUnit
  <2>3. next \in Nat
    BY <1>2, <1>3
  <2>4. sender.epoch \in Epochs /\ sender.epoch # 0
    BY <2>1, RecoveryBounds DEF Epochs
  <2>5. \A i, j, k \in Nat : k <= 1 + i /\ i <= j => k <= 1 + j
    OBVIOUS
  <2> HIDE DEF next
  <2> QED
    BY <2>1, <2>2, <2>3, <2>4, <2>5
<1>5. Books(m, resent, sender.batch, b, c, last, nextSeq)
  BY DEF BooksInv
<1>6. Accounts(m, out, last, nextSeq)
  BY <1>5 DEF Books
<1>7. Booked(r, out, last, next)
  BY <1>3, <1>4, <1>6, AdmitBooked
<1>8. Admitted(m, r, last, nextSeq, size)
  BY <1>2, <1>3, AdmitFacts
<1>9. \/ /\ m' = [r.m EXCEPT !.rejection = r.reason]
         /\ sender' = [sender EXCEPT !.pc = "sending", !.batch = <<>>]
         /\ drained' = drained
      \/ \E n \in Budgets(r.m) :
           /\ m' = Drain(r.m, n).m
           /\ sender' = [sender EXCEPT !.pc = "sending", !.batch = Batch(Drain(r.m, n).out)]
           /\ RecordDrain(Drain(r.m, n).out)
  BY DEF Outgoing
<1> HIDE DEF r, next
<1> DEFINE x == r.m
           why == r.reason
<1>10. Tidy(x) /\ Chained(x, last) /\ Accounts(x, out, last, next) /\ why \in Rejections
  BY <1>7, <1>8 DEF Admitted, Booked
<1> HIDE DEF x, why
<1>11. Books(x, resent, sender.batch, b, c, last, next)
  BY <1>5, <1>10 DEF Books
<1>12. ASSUME NEW batch, sender' = [sender EXCEPT !.pc = "sending", !.batch = batch]
       PROVE  sender'.batch = batch
  BY <1>3, <1>12
<1>13. CASE /\ m' = [x EXCEPT !.rejection = why]
            /\ sender' = [sender EXCEPT !.pc = "sending", !.batch = <<>>]
            /\ drained' = drained
  <2> DEFINE y == [x EXCEPT !.rejection = why]
  <2>1. Accounts(y, out, last, next)
    BY <1>10, NotedAccounts
  <2>2. m' = y /\ drained' = drained /\ sender'.batch = <<>>
    BY <1>12, <1>13
  <2> HIDE DEF y
  <2>3. Books(y, resent, sender.batch, b, c, last, next)
    BY <1>5, <2>1 DEF Books
  <2>4. Books(y, resent, <<>>, b, c, last, next)
    BY <2>3, DroppedBooks
  <2> QED
    BY <1>1, <2>2, <2>4 DEF BooksInv
<1>14. ASSUME NEW n \in Budgets(x), m' = Drain(x, n).m,
              sender' = [sender EXCEPT !.pc = "sending", !.batch = Batch(Drain(x, n).out)],
              RecordDrain(Drain(x, n).out)
       PROVE  BooksInv'
  <2> DEFINE o == Drain(x, n).out
             z == Drain(x, n).m
             after == After(last, o)
  <2>1. Books(z, resent, Batch(o), b, c, after, next)
    BY <1>10, <1>11, DrainBooks
  <2>2. Unbroken(o, last)
    BY <1>2, <1>10, DrainFacts
  <2>3. RecordDrain(o) /\ m' = z
    BY <1>14
  <2>4. sender'.batch = Batch(o)
    BY <1>12, <1>14
  <2> HIDE DEF o, z
  <2>5. drained'.last = after
    BY <1>1, <2>2, <2>3, RecordFacts
  <2> HIDE DEF after
  <2> QED
    BY <1>1, <2>1, <2>3, <2>4, <2>5 DEF BooksInv
<1> QED
  BY <1>9, <1>13, <1>14 DEF x, why

\* The rest of the sender: a refusal, the transport, and the verdict.
LEMMA SenderBooks ==
  ASSUME ResponderInv, ThreadsTyped, BooksInv, SenderStep
  PROVE  BooksInv'
<1> DEFINE b == network.batch
           c == worker.batch
           last == drained.last
<1>0. /\ Books(m, resent, sender.batch, b, c, last, nextSeq)
      /\ resent \in [Seqs -> Nat] /\ sender.batch \in Seq(Sent)
  BY DEF BooksInv, Books
<1>1. /\ Caller("idle").batch = <<>> /\ Caller("settle").batch = <<>> /\ Caller("done").batch = <<>>
      /\ DOMAIN sender = {"pc", "epoch", "idr", "size", "batch"}
  BY DEF Caller, ResponderInv, SenderSound
<1>2. ASSUME NEW epoch \in 1 .. RspMaxEpoch, NEW idr \in BOOLEAN, NEW size \in AccessUnitSizes,
             SendAccessUnit(epoch, idr, size)
      PROVE  BooksInv'
  <2>1. /\ m' = m /\ resent' = resent /\ network' = network /\ worker' = worker
        /\ drained' = drained /\ nextSeq' = nextSeq
        /\ \/ sender' = Caller("done")
           \/ sender' = [sender EXCEPT !.pc = IF epoch # peer.epoch THEN "begin" ELSE "outgoing",
                                       !.epoch = epoch, !.idr = idr, !.size = size]
    BY <1>2 DEF SendAccessUnit
  <2>2. sender'.batch = sender.batch \/ sender'.batch = <<>>
    BY <1>1, <2>1
  <2> QED
    BY <2>1, <2>2, CallerBooks
<1>3. CASE BeginEpoch
  BY <1>3, BeginBooks
<1>4. CASE Outgoing
  BY <1>4, OutgoingBooks
<1>5. CASE PacketizerRejects
  <2> DEFINE x == ExpireIfNeeded(m)
             why == "PACER_ACCESS_UNIT_INVALID"
             y == [x EXCEPT !.rejection = why]
  <2>1. /\ m' = y /\ sender' = Caller("done") /\ resent' = resent /\ network' = network
        /\ worker' = worker /\ drained' = drained /\ nextSeq' = nextSeq
    BY <1>5 DEF PacketizerRejects
  <2>2. why \in Rejections
    BY RejectionFacts
  <2> HIDE DEF why
  <2>3. ASSUME NEW out, Accounts(m, out, last, nextSeq) PROVE Accounts(y, out, last, nextSeq)
    <3>1. Accounts(x, out, last, nextSeq)
      BY <2>3, ExpireAccounts
    <3> HIDE DEF x
    <3> QED
      BY <2>2, <3>1, NotedAccounts
  <2> HIDE DEF y
  <2> QED
    BY <1>1, <2>1, <2>3, ChangeBooks
<1>6. ASSUME NEW k \in 0 .. Len(sender.batch), Transmit(sender.batch, k), sender'.batch = <<>>,
             m' = m, network' = network, worker' = worker, drained' = drained, nextSeq' = nextSeq
      PROVE  BooksInv'
  <2>1. resent' \in [Seqs -> Nat] /\ \A s \in Seqs : resent'[s] <= resent[s] + Times(sender.batch, s)
    BY <1>0, <1>6, TransmitFacts
  <2>2. Books(m, resent', <<>>, b, c, last, nextSeq)
    BY <1>0, <2>1, SentBooks
  <2> QED
    BY <1>6, <2>2 DEF BooksInv
<1>7. Len(sender.batch) \in Nat
  BY <1>0, LenProperties
<1>8. CASE SenderTransmit
  BY <1>1, <1>6, <1>7, <1>8 DEF SenderTransmit
<1>9. CASE SenderTransmitFails
  <2>1. PICK k \in 0 .. Len(sender.batch) - 1 : Transmit(sender.batch, k)
    BY <1>9 DEF SenderTransmitFails
  <2>2. k \in 0 .. Len(sender.batch)
    BY <1>7
  <2>3. /\ sender'.batch = <<>> /\ m' = m /\ network' = network /\ worker' = worker
        /\ drained' = drained /\ nextSeq' = nextSeq
    BY <1>1, <1>9 DEF SenderTransmitFails
  <2> QED
    BY <1>6, <2>1, <2>2, <2>3
<1>10. CASE Settle
  <2> DEFINE why == NoRejection
             y == [m EXCEPT !.rejection = why]
  <2>1. /\ m' = y /\ resent' = resent /\ network' = network
        /\ sender' = Caller("idle") \/ sender' = Caller("done")
        /\ worker' = worker /\ drained' = drained /\ nextSeq' = nextSeq
    BY <1>10 DEF Settle
  <2>2. why \in Rejections
    BY RejectionFacts
  <2> HIDE DEF why
  <2>3. \A out : Accounts(m, out, last, nextSeq) => Accounts(y, out, last, nextSeq)
    BY <2>2, NotedAccounts
  <2> HIDE DEF y
  <2> QED
    BY <1>1, <2>1, <2>3, ChangeBooks
<1> QED
  BY <1>2, <1>3, <1>4, <1>5, <1>8, <1>9, <1>10 DEF SenderStep

\* One feedback message: what a decision charges is queued, released or dropped.
LEMMA FeedbackBooks ==
  ASSUME ResponderInv, BooksInv, NEW d, Decided(m, d),
         \A out : Accounts(m, out, drained.last, nextSeq) => Booking(d, out, drained.last, nextSeq),
         Feedback(d)
  PROVE  BooksInv'
<1> DEFINE last == drained.last
           a == sender.batch
           b == network.batch
           c == worker.batch
           held == Pending(resent, a, b, c)
           x == d.m
<1>1. /\ Sound(m, last, nextSeq, sender.pc) /\ drained.unbroken = TRUE
      /\ Tidy(m) /\ Chained(m, last) /\ last \in [seq : Nat, epoch : Nat]
  BY DEF ResponderInv, Sound
<1>2. Books(m, resent, a, b, c, last, nextSeq)
  BY DEF BooksInv
<1>3. Accounts(m, held, last, nextSeq) /\ m.epoch \in Epochs /\ held \in [Seqs -> Nat]
  BY <1>2 DEF Books, Accounts, Watched
<1>4. Booking(d, held, last, nextSeq)
  BY <1>3
<1> HIDE DEF held
<1>5. d.resend \in SUBSET Seqs /\ IsFiniteSet(d.resend)
      /\ Accounts(x, Charged(held, d.resend), last, nextSeq)
  BY <1>4 DEF Booking
<1>6. Tidy(x) /\ Chained(x, last) /\ x.rejection = m.rejection
  <2>1. Beside(m, x)
    BY DEF Decided
  <2> HIDE DEF x
  <2> QED
    BY <1>1, <2>1, BesideKeeps
<1>7. PICK order \in Orders(d.resend) :
        LET r == AdmitRetransmissions(d.m,
                   [i \in DOMAIN order |-> Retransmission(order[i], m.epoch)])
            n == [r.m EXCEPT
                    !.rejection = IF r.reason = NoRejection THEN r.m.rejection ELSE r.reason,
                    !.notified = r.m.notified \/ r.m.flooded]
        IN  \E k \in Budgets(n) :
              /\ m' = Drain(n, k).m
              /\ network' = [pc |-> "sending", batch |-> Batch(Drain(n, k).out),
                             terminate |-> r.m.flooded /\ ~r.m.notified]
              /\ RecordDrain(Drain(n, k).out)
  BY DEF Feedback
<1> DEFINE p == [i \in DOMAIN order |-> Retransmission(order[i], m.epoch)]
           r == AdmitRetransmissions(x, p)
           y == r.m
           why == IF r.reason = NoRejection THEN y.rejection ELSE r.reason
           told == y.notified \/ y.flooded
           z == [y EXCEPT !.rejection = why]
           n == [y EXCEPT !.rejection = why, !.notified = told]
<1>8. \E k \in Budgets(n) :
        /\ m' = Drain(n, k).m /\ RecordDrain(Drain(n, k).out)
        /\ network'.batch = Batch(Drain(n, k).out)
  <2>1. PICK k \in Budgets(n) :
          /\ m' = Drain(n, k).m /\ RecordDrain(Drain(n, k).out)
          /\ network' = [pc |-> "sending", batch |-> Batch(Drain(n, k).out),
                         terminate |-> r.m.flooded /\ ~r.m.notified]
    BY <1>7 DEF p, x
  <2>2. network'.batch = Batch(Drain(n, k).out)
    <3> DEFINE t == Batch(Drain(n, k).out)
               stop == r.m.flooded /\ ~r.m.notified
    <3>1. network' = [pc |-> "sending", batch |-> t, terminate |-> stop]
      BY <2>1
    <3> HIDE DEF t, stop
    <3>2. network'.batch = t
      BY <3>1
    <3> QED
      BY <3>2 DEF t
  <2> HIDE DEF n
  <2> QED
    BY <2>1, <2>2
<1>9. Copied(p, d.resend)
  BY <1>3, <1>5, OrderFacts
<1>10. p \in Seq(Again(m.epoch))
  <2>1. d.resend \in SUBSET Nat
    BY <1>5, RecoveryBounds
  <2> QED
    BY <1>5, <2>1, OrderedAgain
<1> HIDE DEF p
<1> HIDE DEF x
<1>11. Booked(r, held, last, nextSeq)
  BY <1>3, <1>5, <1>9, ResendBooked
<1>12. Repeated(x, r, last)
  BY <1>1, <1>6, <1>10, ResendFacts
<1> HIDE DEF r
<1>13. Tidy(y) /\ Chained(y, last) /\ Accounts(y, held, last, nextSeq) /\ r.reason \in Rejections
  BY <1>11, <1>12 DEF Repeated, Booked
<1>14. why \in Rejections /\ told \in Flag
  <2>1. y.rejection \in Rejections
    BY <1>13 DEF Accounts, Paced
  <2>2. told \in BOOLEAN
    OBVIOUS
  <2>3. told \in Flag
    BY <2>2 DEF Flag
  <2> QED
    BY <1>13, <2>1, <2>3
<1> HIDE DEF y, why, told
<1>15. Accounts(z, held, last, nextSeq) /\ Tidy(z) /\ Chained(z, last)
  BY <1>13, <1>14, Noted, NotedAccounts
<1>16. Beside(z, n) /\ n.notified = told
  <2>1. DOMAIN z = RspFields /\ DOMAIN y = RspFields
    BY <1>13, <1>15 DEF Tidy
  <2> QED
    BY <2>1 DEF Beside, RspFields
<1>17. /\ DOMAIN z = RspFields /\ n.cache = z.cache /\ n.cacheEpoch = z.cacheEpoch
       /\ SamePacer(z, n)
       /\ n.recEpoch = z.recEpoch /\ n.epoch = z.epoch /\ n.lastIdr = z.lastIdr
       /\ n.feedback = z.feedback /\ n.nacks = z.nacks /\ n.overload = z.overload
       /\ n.recStopped = z.recStopped /\ n.flooded = z.flooded /\ n.stopping = z.stopping
  <2>1. DOMAIN y = RspFields /\ DOMAIN z = RspFields
    BY <1>13, <1>15 DEF Tidy
  <2> QED
    BY <2>1 DEF SamePacer, RspFields
<1> HIDE DEF z, n
<1>18. Tidy(n) /\ Chained(n, last)
  BY <1>15, <1>16, BesideKeeps
<1>19. Accounts(n, held, last, nextSeq)
  <2>1. Watched(z) /\ z.cacheEpoch \in Epochs
    BY <1>15 DEF Accounts, Paced
  <2>2. Watched(n)
    BY <1>14, <1>16, <1>17, <2>1 DEF Watched
  <2> QED
    BY <1>15, <1>17, <2>1, <2>2, BesideAccounts
<1>20. Books(n, resent, a, b, c, last, nextSeq)
  BY <1>2, <1>19 DEF Books, held
<1>21. PICK k \in Budgets(n) :
         /\ m' = Drain(n, k).m /\ RecordDrain(Drain(n, k).out)
         /\ network'.batch = Batch(Drain(n, k).out)
  BY <1>8
<1> DEFINE o == Drain(n, k).out
           after == After(last, o)
<1>22. Books(Drain(n, k).m, resent, a, Batch(o), c, after, nextSeq)
  BY <1>18, <1>20, DrainBooks
<1>23. Unbroken(o, last) /\ RecordDrain(o)
  BY <1>1, <1>18, <1>21, DrainFacts
<1>24. m' = Drain(n, k).m /\ network'.batch = Batch(o)
  BY <1>21
<1> HIDE DEF o
<1>25. drained'.last = after
  BY <1>1, <1>23, RecordFacts
<1>26. nextSeq' = nextSeq /\ sender' = sender /\ worker' = worker /\ resent' = resent
  BY DEF Feedback
<1> HIDE DEF after
<1> QED
  BY <1>22, <1>24, <1>25, <1>26 DEF BooksInv

\* The network thread.
LEMMA NetworkBooks ==
  ASSUME ResponderInv, BooksInv, NetworkStep
  PROVE  BooksInv'
<1> DEFINE a == sender.batch
           c == worker.batch
           last == drained.last
<1>0. /\ Books(m, resent, a, network.batch, c, last, nextSeq)
      /\ resent \in [Seqs -> Nat] /\ network.batch \in Seq(Sent) /\ DOMAIN m = RspFields
  BY DEF BooksInv, Books, ResponderInv, Sound, Tidy
<1>1. Len(network.batch) \in Nat
  BY <1>0, LenProperties
<1>2. CASE IncomingNack
  <2>1. PICK ids \in Nacks : \E d \in HandleNack(m, m.epoch, ids) : Feedback(d)
    BY <1>2 DEF IncomingNack
  <2>2. PICK d \in HandleNack(m, m.epoch, ids) : Feedback(d)
    BY <2>1
  <2>3. ids \in SUBSET (0 .. WireModulus - 1)
    BY DEF Nacks
  <2>4. Decided(m, d)
    BY <1>0, NackFacts
  <2>5. \A out : Accounts(m, out, last, nextSeq) => Booking(d, out, last, nextSeq)
    BY <2>3, NackBooked
  <2> QED
    BY <2>2, <2>4, <2>5, FeedbackBooks
<1>3. CASE IncomingPli
  <2>1. Decided(m, HandlePli(m, m.epoch)) /\ Feedback(HandlePli(m, m.epoch))
    BY <1>0, <1>3, PliFacts DEF IncomingPli
  <2>2. \A out : Accounts(m, out, last, nextSeq) => Booking(HandlePli(m, m.epoch), out, last, nextSeq)
    BY PliBooked
  <2> QED
    BY <2>1, <2>2, FeedbackBooks
<1>4. ASSUME NEW k \in 0 .. Len(network.batch), Transmit(network.batch, k),
             network' = [pc |-> "idle", batch |-> <<>>, terminate |-> FALSE],
             m' = m, sender' = sender, worker' = worker, drained' = drained, nextSeq' = nextSeq
      PROVE  BooksInv'
  <2>1. resent' \in [Seqs -> Nat] /\ \A s \in Seqs : resent'[s] <= resent[s] + Times(network.batch, s)
    BY <1>0, <1>4, TransmitFacts
  <2>2. Books(m, resent', a, <<>>, c, last, nextSeq)
    BY <1>0, <2>1, SentBooks
  <2>3. network'.batch = <<>>
    BY <1>4
  <2> QED
    BY <1>4, <2>2, <2>3 DEF BooksInv
<1>5. CASE NetworkTransmit
  BY <1>1, <1>4, <1>5 DEF NetworkTransmit
<1>6. CASE NetworkTransmitFails
  <2>1. PICK k \in 0 .. Len(network.batch) - 1 : Transmit(network.batch, k)
    BY <1>6 DEF NetworkTransmitFails
  <2>2. k \in 0 .. Len(network.batch)
    BY <1>1
  <2>3. /\ network' = [pc |-> "idle", batch |-> <<>>, terminate |-> FALSE]
        /\ m' = m /\ sender' = sender /\ worker' = worker /\ drained' = drained
        /\ nextSeq' = nextSeq
    BY <1>6 DEF NetworkTransmitFails
  <2> QED
    BY <1>4, <2>1, <2>2, <2>3
<1> QED
  BY <1>2, <1>3, <1>5, <1>6 DEF NetworkStep

\* The worker thread.
LEMMA WorkerBooks ==
  ASSUME ResponderInv, ThreadsTyped, BooksInv, WorkerStep
  PROVE  BooksInv'
<1> DEFINE a == sender.batch
           b == network.batch
           last == drained.last
<1>0. /\ Books(m, resent, a, b, worker.batch, last, nextSeq)
      /\ resent \in [Seqs -> Nat] /\ worker.batch \in Seq(Sent)
      /\ DOMAIN worker = {"pc", "batch"}
      /\ Tidy(m) /\ Chained(m, last) /\ last \in [seq : Nat, epoch : Nat]
      /\ drained.unbroken = TRUE
  BY DEF BooksInv, Books, ThreadsTyped, ResponderInv, Sound
<1>1. Len(worker.batch) \in Nat
  BY <1>0, LenProperties
<1>2. CASE WorkerDrain
  <2>1. PICK k \in Budgets(m) :
          /\ m' = Drain(m, k).m /\ RecordDrain(Drain(m, k).out)
          /\ worker' = [pc |-> "sending", batch |-> Batch(Drain(m, k).out)]
    BY <1>2 DEF WorkerDrain
  <2> DEFINE o == Drain(m, k).out
             after == After(last, o)
  <2>2. Books(Drain(m, k).m, resent, a, b, Batch(o), after, nextSeq)
    BY <1>0, DrainBooks
  <2>3. Unbroken(o, last) /\ RecordDrain(o) /\ m' = Drain(m, k).m
    BY <1>0, <2>1, DrainFacts
  <2>4. worker'.batch = Batch(o)
    <3> DEFINE t == Batch(o)
    <3>1. worker' = [pc |-> "sending", batch |-> t]
      BY <2>1
    <3> HIDE DEF t
    <3>2. worker'.batch = t
      BY <3>1
    <3> QED
      BY <3>2 DEF t
  <2> HIDE DEF o
  <2>5. drained'.last = after
    BY <1>0, <2>3, RecordFacts
  <2>6. nextSeq' = nextSeq /\ sender' = sender /\ network' = network /\ resent' = resent
    BY <1>2 DEF WorkerDrain
  <2> HIDE DEF after
  <2> QED
    BY <2>2, <2>3, <2>4, <2>5, <2>6 DEF BooksInv
<1>3. ASSUME NEW k \in 0 .. Len(worker.batch), Transmit(worker.batch, k), worker'.batch = <<>>,
             m' = m, sender' = sender, network' = network, drained' = drained, nextSeq' = nextSeq
      PROVE  BooksInv'
  <2>1. resent' \in [Seqs -> Nat] /\ \A s \in Seqs : resent'[s] <= resent[s] + Times(worker.batch, s)
    BY <1>0, <1>3, TransmitFacts
  <2>2. Books(m, resent', a, b, <<>>, last, nextSeq)
    BY <1>0, <2>1, SentBooks
  <2> QED
    BY <1>3, <2>2 DEF BooksInv
<1>4. CASE WorkerTransmit
  <2>1. worker'.batch = <<>>
    BY <1>4 DEF WorkerTransmit
  <2> QED
    BY <1>1, <1>3, <1>4, <2>1 DEF WorkerTransmit
<1>5. CASE WorkerTransmitFails
  <2>1. PICK k \in 0 .. Len(worker.batch) - 1 : Transmit(worker.batch, k)
    BY <1>5 DEF WorkerTransmitFails
  <2>2. k \in 0 .. Len(worker.batch)
    BY <1>1
  <2>3. /\ worker'.batch = <<>> /\ m' = m /\ sender' = sender /\ network' = network
        /\ drained' = drained /\ nextSeq' = nextSeq
    BY <1>5 DEF WorkerTransmitFails
  <2> QED
    BY <1>3, <2>1, <2>2, <2>3
<1>6. CASE WorkerRecover
  <2> DEFINE x == RequireRecovery(m)
             why == "PACER_ASYNC_TRANSPORT_SEND_FAILED"
             y == [x EXCEPT !.rejection = why]
  <2>1. /\ m' = y /\ nextSeq' = nextSeq /\ sender' = sender /\ drained' = drained
        /\ network' = network /\ resent' = resent /\ worker' = [worker EXCEPT !.pc = "waiting"]
    BY <1>6 DEF WorkerRecover
  <2>2. why \in Rejections
    BY RejectionFacts
  <2> HIDE DEF why
  <2>3. ASSUME NEW out, Accounts(m, out, last, nextSeq) PROVE Accounts(y, out, last, nextSeq)
    <3>1. Accounts(x, out, last, nextSeq)
      BY <2>3, ExpireAccounts
    <3> HIDE DEF x
    <3> QED
      BY <2>2, <3>1, NotedAccounts
  <2> HIDE DEF y
  <2>4. worker'.batch = worker.batch
    BY <1>0, <2>1
  <2> QED
    BY <2>1, <2>3, <2>4, ChangeBooks
<1>7. CASE WorkerExit
  <2>1. worker'.batch = worker.batch
    BY <1>0, <1>7 DEF WorkerExit
  <2> QED
    BY <1>7, <2>1 DEF WorkerExit, BooksInv
<1> QED
  BY <1>2, <1>4, <1>5, <1>6, <1>7 DEF WorkerStep

\* No step of the threads, of the stop or of the clock loses count.
LEMMA BooksStep ==
  ASSUME ResponderInv, ThreadsTyped, BooksInv, [RspNext]_rspVars
  PROVE  BooksInv'
<1> DEFINE last == drained.last
<1>1. CASE SenderStep
  BY <1>1, SenderBooks
<1>2. CASE NetworkStep
  BY <1>2, NetworkBooks
<1>3. CASE WorkerStep
  BY <1>3, WorkerBooks
<1>4. CASE StopBegin
  <2>1. Caller("done").batch = <<>>
    BY DEF Caller
  <2> QED
    BY <1>4, <2>1, CallerBooks DEF StopBegin
<1>5. CASE StopResponder
  <2> DEFINE x == [StopRecovery(StopPacer(m)) EXCEPT !.stopping = TRUE, !.epoch = 0]
  <2>1. /\ m' = x /\ nextSeq' = nextSeq /\ sender' = sender /\ drained' = drained
        /\ network' = network /\ resent' = resent /\ worker' = worker
    BY <1>5 DEF StopResponder
  <2>2. \A out : Accounts(m, out, last, nextSeq) => Accounts(x, out, last, nextSeq)
    BY StopAccounts
  <2> HIDE DEF x
  <2> QED
    BY <2>1, <2>2, ChangeBooks
<1>6. CASE StopJoin \/ UNCHANGED rspVars
  BY <1>6 DEF StopJoin, rspVars, BooksInv
<1>7. CASE RspTick
  <2> DEFINE x == Aged(m)
  <2>1. /\ m' = x /\ nextSeq' = nextSeq /\ sender' = sender /\ drained' = drained
        /\ network' = network /\ resent' = resent /\ worker' = worker
    BY <1>7 DEF RspTick
  <2>2. \A out : Accounts(m, out, last, nextSeq) => Accounts(x, out, last, nextSeq)
    BY AgedAccounts
  <2> HIDE DEF x
  <2> QED
    BY <2>1, <2>2, ChangeBooks
<1> QED
  BY <1>1, <1>2, <1>3, <1>4, <1>5, <1>6, <1>7 DEF RspNext, StopStep

-----------------------------------------------------------------------------
\* The inductive invariant of the account.
AccountInv == ResponderInv /\ ThreadsTyped /\ BooksInv

\* It says of every step and of the clock what is owed, held and sent.
LEMMA AccountAlways == RspSpec => []AccountInv
<1>1. RspInit => AccountInv
  BY ResponderInit, ThreadsInit, BooksInit DEF AccountInv
<1>2. AccountInv /\ [RspNext]_rspVars => AccountInv'
  BY ResponderStep, ThreadsStep, BooksStep DEF AccountInv
<1> QED
  BY <1>1, <1>2, PTL DEF RspSpec

\* Two packets of the cache have different wire numbers.
LEMMA WireFacts ==
  ASSUME AccountInv
  PROVE  WireSequenceUnambiguous
<1> DEFINE last == drained.last
<1>1. Stocked(m, last) /\ last \in [seq : Nat, epoch : Nat]
  BY DEF AccountInv, BooksInv, Books, Accounts
<1>2. /\ DOMAIN m.cache \in SUBSET Nat /\ CachePackets \in Nat /\ CachePackets < WireModulus
      /\ WireModulus \in Nat
      /\ \A s \in DOMAIN m.cache : s <= last.seq /\ last.seq - s < CachePackets
  BY <1>1, RecoveryBounds DEF Stocked
<1>3. ASSUME NEW id, NEW s \in Matches(m, id), NEW t \in Matches(m, id)
      PROVE  s = t
  <2>1. /\ s \in DOMAIN m.cache /\ t \in DOMAIN m.cache
        /\ s % WireModulus = id /\ t % WireModulus = id
    BY DEF Matches, LiveEntries
  <2>0. last.seq \in Nat
    BY <1>1
  <2>2. ASSUME NEW i \in Nat, NEW j \in Nat, i <= last.seq, last.seq - j < CachePackets
        PROVE  i - j < WireModulus
    <3> DEFINE l == last.seq
               w == WireModulus
               c == CachePackets
    <3>1. l \in Nat /\ c \in Nat /\ w \in Nat /\ c < w /\ i <= l /\ l - j < c
      BY <1>2, <2>0, <2>2
    <3> HIDE DEF l, w, c
    <3>2. i - j < w
      BY <3>1
    <3> QED
      BY <3>2 DEF w
  <2>3. s - t < WireModulus /\ t - s < WireModulus /\ s \in Nat /\ t \in Nat
    BY <1>2, <2>1, <2>2
  <2>4. ~(s < t) /\ ~(t < s)
    BY <2>1, <2>3, WireNumbers
  <2> QED
    BY <2>3, <2>4
<1>4. ASSUME NEW id \in 0 .. WireModulus - 1 PROVE Cardinality(Matches(m, id)) <= 1
  <2>1. CASE Matches(m, id) = {}
    BY <2>1, FS_EmptySet
  <2>2. CASE Matches(m, id) # {}
    <3>1. PICK s : s \in Matches(m, id)
      BY <2>2
    <3>2. Matches(m, id) = {s}
      BY <1>3, <3>1
    <3>3. Cardinality({s}) = 1
      BY FS_Singleton
    <3> QED
      BY <3>2, <3>3
  <2> QED
    BY <2>1, <2>2
<1> QED
  BY <1>4 DEF WireSequenceUnambiguous

\* What passed the gate again is within what is owed.
LEMMA BoundFacts ==
  ASSUME AccountInv
  PROVE  RetransmissionsBounded
<1> DEFINE a == sender.batch
           b == network.batch
           c == worker.batch
           out == Pending(resent, a, b, c)
<1>1. /\ resent \in [Seqs -> Nat] /\ a \in Seq(Sent) /\ b \in Seq(Sent) /\ c \in Seq(Sent)
      /\ Ledger(m, out, drained.last) /\ m.queue \in Seq(Queued)
  BY DEF AccountInv, BooksInv, Books, Accounts, Paced
<1>2. ASSUME NEW s \in Seqs PROVE resent[s] <= MaxRetransmissions
  <2> DEFINE i == Times(a, s)
             j == Times(b, s)
             k == Times(c, s)
             q == Times(m.queue, s)
  <2>1. /\ out[s] = resent[s] + (i + (j + k)) /\ resent[s] \in Nat
        /\ i \in Nat /\ j \in Nat /\ k \in Nat
    <3>1. \A t \in Seqs :
            /\ out[t] = resent[t] + (Times(a, t) + (Times(b, t) + Times(c, t)))
            /\ resent[t] \in Nat /\ Times(a, t) \in Nat /\ Times(b, t) \in Nat
            /\ Times(c, t) \in Nat
      <4>1. resent \in [Seqs -> Nat] /\ a \in Seq(Sent) /\ b \in Seq(Sent) /\ c \in Seq(Sent)
        BY <1>1
      <4> HIDE DEF a, b, c
      <4> QED
        BY <4>1, PendingFacts
    <3> HIDE DEF out
    <3> QED
      BY <3>1
  <2>2. q \in Nat
    BY <1>1, TimesType
  <2>3. out[s] + q <= MaxRetransmissions
    BY <1>1 DEF Ledger, Owed
  <2> HIDE DEF i, j, k, q, out
  <2> QED
    BY <2>1, <2>2, <2>3, RecoveryBounds
<1> QED
  BY <1>2 DEF RetransmissionsBounded

\* Booleans, as sets of both values.
LEMMA Flags == Flag = BOOLEAN
BY DEF Flag

\* The types of the state, from what the account and the threads say.
LEMMA TypeFacts ==
  ASSUME AccountInv
  PROVE  RspTypeOK
<1>1. /\ Tidy(m) /\ Paced(m) /\ Watched(m) /\ Stocked(m, drained.last)
      /\ resent \in [Seqs -> Nat] /\ drained.last \in Numbers /\ drained.unbroken = TRUE
      /\ nextSeq \in Nat \ {0} /\ SenderSound(sender)
      /\ sender.batch \in Seq(Sent) /\ network.batch \in Seq(Sent) /\ worker.batch \in Seq(Sent)
  BY DEF AccountInv, BooksInv, Books, Accounts, ResponderInv, Sound
<1>2. m.awaiting \in BOOLEAN /\ m.stopped \in BOOLEAN
  BY <1>1 DEF Tidy
<1>3. m.active \in Epochs /\ m.abandoned \in Epochs /\ m.cacheEpoch \in Epochs /\ m.rejection \in Rejections
  BY <1>1 DEF Paced
<1>4. m.queue \in Seq(PacketType)
  <2>1. Queued = PacketType
    BY Flags DEF Queued, PacketType
  <2> QED
    BY <1>1, <2>1 DEF Paced
<1>5. /\ DOMAIN m.cache \subseteq Seqs
      /\ \A s \in DOMAIN m.cache :
           m.cache[s] \in [age : 0 .. CacheAge, resent : 0 .. MaxRetransmissions]
  BY <1>1 DEF Stocked, Entry
<1>6. /\ m.recEpoch \in Epochs /\ m.epoch \in Epochs /\ m.lastIdr \in 0 .. Window
      /\ m.feedback \in Seq(0 .. Window) /\ Len(m.feedback) <= MaxFeedback + 1
      /\ DOMAIN m.nacks \subseteq 0 .. WireModulus - 1
      /\ Cardinality(DOMAIN m.nacks) <= MaxNackIds
      /\ \A i \in DOMAIN m.nacks : m.nacks[i] \in 0 .. Window
      /\ m.overload \in {NoOverload} \cup 0 .. FloodTime
  BY <1>1 DEF Watched
<1>7. {m.recStopped, m.flooded, m.stopping, m.notified} \subseteq BOOLEAN
  <2>1. m.recStopped \in Flag /\ m.flooded \in Flag /\ m.stopping \in Flag /\ m.notified \in Flag
    BY <1>1 DEF Watched
  <2> QED
    BY <2>1, Flags
<1>8. /\ peer \in [epoch : Epochs, failed : BOOLEAN, reason : FailureReasons,
                   stop : {"no", "closing", "joining", "stopped"}]
      /\ units \in 0 .. MaxAccessUnits /\ messages \in 0 .. MaxMessages
      /\ network.pc \in {"idle", "sending"}
      /\ worker.pc \in {"waiting", "sending", "failed", "exited"}
  BY DEF AccountInv, ThreadsTyped, Peers
<1>9. sender.pc \in {"idle", "begin", "outgoing", "sending", "settle", "done"}
  BY <1>1 DEF SenderSound
<1>10. \A t \in {sender, network, worker} : t.batch \in Seq([seq : Seqs, rtx : BOOLEAN])
  <2>1. Sent = [seq : Seqs, rtx : BOOLEAN]
    BY Flags DEF Sent
  <2> QED
    BY <1>1, <2>1
<1>11. drained.last \in [seq : Seqs \cup {0}, epoch : Epochs] /\ drained.unbroken \in BOOLEAN
  BY <1>1 DEF Numbers
<1> QED
  BY <1>1, <1>2, <1>3, <1>4, <1>5, <1>6, <1>7, <1>8, <1>9, <1>10, <1>11 DEF RspTypeOK

\* Every retransmission is of the packet that was lost, and no packet passes
\* the gate again more often than its limit, whichever of the three threads
\* resolves the NACK, queues the copy, purges it or sends it: what was sent, is
\* in a thread's hand and is queued never exceeds what the cache counted.
THEOREM RetransmissionsAreSound == RspSpec => []RetransmissionsSound
<1>1. AccountInv => RetransmissionsSound
  BY TypeFacts, BoundFacts, WireFacts DEF RetransmissionsSound
<1> QED
  BY <1>1, AccountAlways, PTL
=============================================================================
