# Formal model of glyph-relay

glyph-relay shares one captured screen region, encoded as H.264, with one browser
receiver over WebRTC, and can record it durably at the same time. A small signaling
service introduces the two ends. This directory holds TLA+ modules that model the parts
of the program that keep state across threads, callbacks, messages and time, TLC
configurations that check them on small instances, and TLAPS proofs of what matters most
for every value of the constants.

Paths below are relative to the repository's root (`src/` there is the C++ program;
`PROJECT.json` prefixes them with one more `src/`).

## 1. Inventory

| Component | State it keeps | Operations | Interacts with | What is hard |
|---|---|---|---|---|
| Media egress gate, `src/transport/media_egress.cpp` | `gate_` (shared mutex), open flag, active epoch, terminal flag, counters | `send_final`, `close_media`, `resume_media` | called by the patched libjuice and libdatachannel for every datagram, closed by the peer sender, capture and controller | a boundary racing a send already admitted; accounting after the native send; the last epoch; overflow |
| Signaling session store, `signaling/session-state.ts` | one record per session: phase, deadlines, join capability, two peers with their sequence numbers and heartbeats | `handle`, `disconnect`, `tick` | returns actions that the server dispatches | a dozen handlers that update the same dozen fields, deadlines found by a message before the tick finds them, messages of replaced peers |
| Signaling server, `signaling/v1-server.ts` | sockets, bindings, timers | message, close and error callbacks, recursive `dispatch`, `tickTimer` | the store; WebSocket clients | close events that come late, back pressure inside dispatch, failures in the middle of a list of actions |
| RTP packetizer, cache and recovery controller, `src/transport/rtp_transport.cpp` | sequence and clock bases; cached packets, IDR limiter, feedback and NACK windows, flood timer | `packetize`, `store`, `resolve`, `handle_nack`, `handle_pli`, `begin_epoch`, `stop` | owned by the responder, under its mutex | fragments at the payload limit, wire numbers and clock that wrap, several epochs, windows pruned only by later messages |
| Media pacer, `src/transport/media_pacer.cpp` | packet queue, active and abandoned epoch, token bucket | admit, retransmit, drain, purge, stop | owned by the responder | purges by age, capacity, epoch or another thread between two calls |
| Bounded NACK responder, `vendor/libdatachannel-v0.24.1/glyphrelay_media_handlers.cpp` | the two above, last rejection, the pacer's thread | `begin_epoch`, `outgoing`, `incoming`, `run_pacer`, `stop` | application, network and pacer threads | the mutex is released between draining and sending; stop joins a thread that may be sending |
| Peer sender, `src/transport/peer_sender.cpp` | dependency epoch, failure, gate, control channel, clock worker, event callback | offer, answer, candidates, channel callbacks, `send_access_unit`, `fail`, `stop` | responder, gate, control protocol, share loop | decisions under the mutex that are carried out after it; callbacks against stop |
| Encoded fanout and transport queue, `src/transport/encoded_fanout.cpp` | bounded queue with an epoch floor, two branch flags | `publish`, `dequeue`, `require_recovery`, `stop`, `disable_*` | share loop on both ends, recorder | decodability of what is left after a purge, independence of the two branches |
| Share command and transport adapter, `src/app/share_command.cpp`, `src/app/share_command_webrtc.cpp` | what the preparation opened, the loop's flags, encoder epoch, event queue | preparation, the loop, shutdown, the callbacks of peer and signaling | everything above | an early return that must give back what was opened; failures on other threads between two statements; event overflow; skipped frames |
| Owner signaling client, `src/transport/owner_signaling.cpp` | phase, sequence numbers, join state, event queue, watchdog | begin, receive, create_join, send_*, poll, stop | signaling server, share | numbering under the mutex and sending after it, watch against a late heartbeat, a full event queue |
| Browser receiver, `receiver/v1-receiver.js` | connection attempt, control session | join, answer, candidates, control messages | signaling server, peer sender | control messages out of order |
| Control protocol and clock, `src/transport/control_protocol.cpp` | phase, numbers in both directions, pending acknowledgement, clock samples | pause, resume, end, receive, clock requests | peer sender, receiver | answers that cross requests; asymmetric delays |
| Protected-region controller, `src/transport/controller.cpp` | state, knobs, history of degradations, feedback window | `push_feedback`, `tick` | share loop | restoring in the reverse order over long runs; runs of ticks that are reset |
| Durable recorder, `src/recording/` | media file, journal, sidecar, queue, group commit | prepare, enqueue, finalize, inspect | fanout, share, record commands | a crash between any two writes |
| Record command, `src/app/record_command.cpp` | portal selection, capture, encoder epoch, recorder | the command's one loop | capture, encoder, recorder | revocation, skipped frames, orderly release |
| Capture pool, portal and PipeWire source, `src/capture/` | slots and leases, latest frame, selection state, loop thread | ingest, take_latest, release, revoke, start, stop | command thread, PipeWire thread, desktop | a full pool with a lease held, answers against timeouts, destruction from another thread |
| Preprocess ring and preprocessor, `src/gpu/preprocess_pool.cpp`, `src/gpu/cuda_preprocess.cu` | slots and surfaces with tokens, two tables that must agree | reserve, wait, submit, release, abort, cleanup | NVENC encoder | stages that complete in different orders, a driver that fails anywhere |
| NVENC encoder, `src/gpu/nvenc_encoder.cpp`, `src/gpu/gpu_contracts.cpp` | submission FIFO, output worker, failure | submit, flush, close | preprocessor, driver | a submit that sleeps unlocked, failure with frames in every stage |
| Saliency and corrections, `src/gpu/saliency*.cpp`, kernels, `dashboard/dashboard.js` | correction set with revision and geometry epoch, the prior frame's scores | add, remove, reset, process | dashboard tabs, encoder's emphasis map | two tabs and a change of geometry; tiles cut by the edge |
| Bitstream parsers and software encoder, `src/media/` | none between calls but the frame index | parse, classify, accept | record command, share loop, recorder | edges of variable-length formats |
| Signaling SDP policy, dashboard server, doctor, colour conversion, qualification tooling | none that outlives a call | | | |

`PROJECT.json` lists each of them with its files and what is modelled, and each hazard at
the line where it bites.

## 2. Modules and how they correspond to the code

*Media path*

* **`MediaEgressGate`**: threads run `send_final` in four steps (take the permit,
  check the epoch, native send, record), others close and resume. The lock is modelled by
  who holds it. Metadata validation is by value, counters saturate as the checked
  additions do. **`EgressBoundary`** is the abstract specification: a datagram leaves in
  one step, in the admitted epoch; `BoundarySpec` is the refinement.
* **`RtpRecovery`**, **`MediaPacer`**: the cache, the recovery controller and the pacer
  queue as operators on the state under the responder's mutex, times as ages.
  **`MediaResponder`** composes them with the three threads and `PeerSender`'s
  `send_access_unit`, `fail` and `stop`; a thread that has released the mutex holds the
  batch it is about to send. The token bucket may allow any number of packets.
* **`RtpPacketizer`**: `H264RtpPacketizer` and `RtpClock90k` as a machine that packetizes
  access unit after access unit, with small payloads, words and clock rates so that fragments,
  sequence numbers and timestamps wrap. A receiver written from RFC 6184 puts the packets
  together again.
* **`EncodedTransportQueue`**, **`EncodedFanout`**: the queue as operators, the fanout as
  a state machine with publisher, consumer, regressing clock and the recorder's answer.
* **`ShareLoop`** extends `EncodedTransportQueue`: the preparation of a share with each early
  return, `run_share_pipeline` at the granularity of its calls to other components (`pc`), the
  shutdown, the transport adapter's event queue, and the callbacks of peer and signaling at
  any moment. The recorder accepts or fails, the controller may ask for an IDR at any tick,
  the encoder may skip any frame. `session` is what the preparation opened.

*Signaling and control*

* **`SignalingStore`**: the session record and every handler of the store as an operator
  from a session to a session, the actions and the verdict. **`SignalingServer`** adds
  sockets, bindings, callbacks and the dispatch recursion as a stack of pending actions; a
  socket that is closing still delivers messages, as `ws` does. Capabilities are numbers;
  a flawed message is a right one with one field changed.
* **`OwnerSignaling`**: the owner's client. Four threads run the protocol under the mutex
  and apply its output after the unlock: messages one by one, then the events under the mutex
  again, then the close. Sends fail, the event queue overflows, the server says anything in
  or out of order, or nothing.
* **`ControlSession`**: `SenderControlProtocol` against the browser's end, one ordered
  channel per direction. **`PeerControl`** extends it to the peer sender's three threads: what
  a thread does under the mutex is one step, what it does after the unlock a list of tasks.
  **`ClockCorrelation`**: the offset estimate against a network with unequal delays and a
  receiver whose clock steps; doubled, so that halves are integers.
* **`RegionController`**: feedback and ticks, times as saturating ages. What a tick
  measures is left free, so that every run of measurements is a behaviour.

*Capture and encoding*

* **`CapturePool`**: `ingest` takes the lock twice and copies in between.
  **`LinuxCapture`** adds the portal's requests, the PipeWire loop thread and its
  destruction; **`RecordCommand`** the command's thread on top. The desktop answers, refuses,
  falls silent, revokes and disconnects whenever it likes.
* **`CaptureGeometry`**: transforms, crops, damage, cursor metadata and buffer bounds as
  operators; each initial state is one captured buffer.
* **`PreprocessRing`**: the ownership ring and the preprocessor's own slots, as operators.
  **`NvencEncoder`** adds the encode owner, the submission coordinator and the output worker;
  a driver call answers anything it may answer, and a CUDA context may be refused to the
  teardown. `driver` says whether the driver's session (`encoder`) is there.
* **`AnnexB`**, **`H264Sps`**: the parsers as functions of bytes and bits, compared with the
  writers of the formats, taken from the standard. The SPS parser is a table of fields.
* **`Saliency`**: two tabs that edit the corrections by revision, and the way from a tile's
  score to the emphasis map, as the scalar reference and as the CUDA kernels compute it. The
  score itself is an input. Percentages are integers, rounded down. The reference's dilation
  reads what its indices address: in a picture with no more tiles than the radius that is
  another tile, or memory past the levels, which holds anything (`StrayLevels`).

*Recording*

* **`RecordingFiles`**, **`DurableRecorder`**: the files of a recording with their visible and
  their durable contents and names, what a power loss may leave of them, and
  `inspect_recording`, as operators; the recorder with its caller, its worker (`pc` is the next
  system call) and the crash as a state machine. `seen` are the flags the worker read under
  the mutex and uses after it, `wall` is the clock against the two deadlines, `hashed` and
  `described` are what the running hashes were taken of. Every access unit is one byte long and
  a hash is what it was taken of. A journal or sidecar longer than any sound one (`FileCap`)
  stops growing, so that the endless retry described below is a cycle.

**`MC...`** modules give the small constant sets. Three of them, `MCMediaPath`,
`MCControlPlane` and `MCCaptureEncode`, put parts side by side that share no state: `part`
says which one a behaviour is about. **`...Proofs`** hold the theorems.

A definition whose comment begins with "Mutant" is a plausible bug of the code, named in
`PROJECT.json` under `mutants`, that the property beside it must catch. No specification uses
it.

## 3. Runs

| Run | Instance | Shows |
|---|---|---|
| `media_path` | gate: 2 senders, 1 closer, 3 epochs, 2 sends, 2 boundaries; fanout: 4 units, 3 epochs, 2 units or 3 bytes of capacity, age 2; responder: 1 unit, fair worker and clock | no media datagram after the return of its boundary and media totals final there, exact accounting, media only with a permit of its epoch, refinement of `EgressBoundary`; capacity and fencing of the transport queue and decodability of what is taken from it; the pacer's queue empties and `stop` gets through its join |
| `responder_threads` | 2 access units of 2 or 3 packets, capacity 2, 2 epochs, wire numbers modulo 3, cache of 2, 2 feedback messages (or 1 unit and the 4 messages of a flood) | one epoch in flight, released packets form unbroken chains, retransmissions bounded, wire numbers unambiguous |
| `signaling_server` | 1 session, 3 connections (an owner and two successive receivers), 3 time units, 4 messages per client, 7 to the owner | record consistent with its phase, deadlines never past the absolute one, a capability admits one receiver and only in its lifetime, expired sessions answer nothing, every live session's peers have a socket, the owner is sent every number once and in order, but for the announcement of a receiver that cannot take its own first message |
| `signaling_sessions` | 2 sessions in succession, 3 connections, fair | connections of an ended session leave its successor alone; every session ends |
| `share_loop` | 4 frames, 2 disturbances, event queue of 2, fair loop | the recorder is offered each unit once, and what was opened is given back however the share ends; epochs begin with an IDR, revocation is final, a lost peer is revoked though its event was lost, a stop ends the share |
| `share_recording_lost_with_peer` | 2 frames, 1 disturbance | **violated**, finding 1 |
| `durable_recorder` | 3 units, queue of 2, 2 failing system calls, any number of crashes and restarts, fair worker | after a power loss at any point the inspector finds what was reported as committed; complete means finalized and whole, and stays so; a recording is never overwritten; `finalize` returns unless a group is late |
| `control_plane` | owner: event queue of 2, timeout of 2, 4 messages; control: 2 clock requests, 6 messages down, 4 up; controller: every limit between 1 and 3 ticks; clock: 3 samples | no event is lost or doubled and a silent server ends the owner's session; sender and receiver agree on the phase; levels are what the history says and a dead link is given up; the clock's uncertainty covers the truth |
| `peer_control` | 2 clock requests, 4 messages down, 2 up, fair threads | a failure is reported once, after the media are sealed and never after the end; every stop completes |
| `control_message_order` | the same, safety only | **violated**, finding 2 |
| `controller_recovery` | as in `control_plane` | **violated**, finding 3 |
| `capture_encode` | record: 2 slots, 3 frames, 2 geometries; encoder: 2 sources and surfaces, 3 frames, 1 retry; shots of side 4, byte strings of length 5, SPS of every kind; packets of payload 4 with words of 12 and 8; corrections: 2 geometries, one of them a single tile wide, 3 edits or frames | leases keep their frame and a finished command holds nothing, the recording's chain is unbroken, the command and the encoder end; surfaces stay with one owner and outputs follow submissions; readers of buffers, streams, parameter sets and packets conclude what their input says, and both maps protect what corrections and scores name, and agree in pictures of enough tiles |

*Bounds.* Each limit of the code (capacity, window, lifetime, wire modulus, retransmission
limit) is a constant, set so small that it is reached and passed within the run. The bounds
on behaviours (messages, units, epochs, sessions, disturbances) are named constants too;
two of everything that can be confused (epochs, receivers, sessions, access units, threads)
is enough for the confusion to happen, and every mutant shows that the bound lets the bug
through. `CHECK_DEADLOCK FALSE` is said where these bounds or the end of the program end a
behaviour; the responder's clock and the stopped share's own step keep the others alive.

*Fairness.* No fairness is assumed of peers, networks, desktops or users.

* `SignalingServer`: dispatch runs to its end (it is synchronous code), and the interval
  timer and the clock are strongly fair, because Node's loop returns to its timers phase
  between socket callbacks.
* `MediaResponder`: the worker wakes at least every `kPacerWakeInterval`, the steady clock
  advances, a thread inside `stop` runs on.
* `ShareLoop`, `RecordCommand`: the command's own thread; for the latter also a PipeWire
  callback that has begun, and the delivery of a failure that has happened.
* `DurableRecorder`: the worker thread and the join of a thread that has ended; a system
  call may be slow or fail, but returns.
* `OwnerSignaling`: the watchdog thread, and a thread that has an output to apply.
* `PeerControl`: each of the three threads goes on with its tasks; `resetCallbacks` is
  strongly fair, because it waits for callbacks that come and go.
* `NvencEncoder`: the output worker, and an owner who flushes and closes in the end.
* `RegionController`: ticks keep coming.

## 4. Findings

1. *A peer failure at the wrong moment ends the recording* (`share_command.cpp:509`), where
   `docs/transport.md:206` lets a healthy recording continue.
2. *Control messages leave out of order* (`peer_sender.cpp:585`). They are numbered under the
   mutex and sent after it, on three threads; the receiver ends its session on a gap, where
   `docs/signaling.md:114` promises a strictly increasing sequence.
3. *A recovery that never returns* (`controller.cpp:522`). One tick that is not compliant
   resets the start of the compliant run, which only the entry into RECOVERY sets:
   `BUILD_PLAN.md:1182` promises STABLE after five compliant seconds.

### Disagreements without a run of their own

The models have these behaviours too; no run is spent on them.

* *A slow commit hangs the recorder* (`recording_linux.cpp:1319`). A group that misses the
  one-second deadline stays pending, its age is never reset, and the failed worker commits it
  again before it looks at a stop: it appends the same group to journal and sidecar for ever,
  and `finalize` waits for it in a join. `docs/recording.md:89` promises that such a group
  fails the recorder, `docs/transport.md:210` that a stop finalizes it and reports.
  `FinalizeReturns` of `DurableRecorder`, put in the place of `FinalizeReturnsInTime` in
  `MCDurableRecorder.cfg`, shows the cycle.
* *Any purge fails the peer* (`peer_sender.cpp:693`). A recorded pacer rejection is turned
  into a terminal failure, where `docs/transport.md:204` promises recovery by an IDR.
* *The admission IDR requests the next one* (`share_command.cpp:367`). Beginning an epoch in
  the responder requests an IDR, whose event opens another epoch. `BUILD_PLAN.md:935`
  promises one keyframe.
* A group retried after a partly written journal record is counted in
  `committed_access_units` though the inspector stops at the torn record
  (`recording_linux.cpp:1180`), which is why `promised` counts only what a healthy recorder
  reports.
* A message of a replaced receiver whose socket is still closing is answered by detaching
  whoever is the receiver now (`session-state.ts:667`, against `docs/signaling.md:27`).
* A receiver whose buffer is over the limit when it is sent JOIN_RESERVED (the pongs to its own
  pings are enough) is cleaned up before the rest of the list is dispatched
  (`v1-server.ts:304`, `session-state.ts:569`): the owner is sent RECEIVER_DISCONNECTED before
  the RECEIVER_RESERVED that has the smaller number, and the owner's client fails its session
  on it (`owner_signaling.cpp:255`). `OwnerStreamComplete` names this case; without
  `Announces` in it TLC finds the run.
* An owner message that meets a receiver-only deadline before the tick closes the owner's
  connection (`session-state.ts:585`, against `BUILD_PLAN.md:1966`).
* An acknowledgement that arrives after the next heartbeat was issued ends the session,
  although the peer was active within the timeout (`session-state.ts:812`); an owner answer or
  candidate in flight while its receiver closes revokes the session (`session-state.ts:621`).
* Two NACK bursts separated by ten quiet seconds count as a continuous flood
  (`rtp_transport.cpp:485`, against `docs/transport.md:150`).
* The scalar dilation (`saliency.cpp:187-193`) reads past its row or its tiles when a picture
  has no more tiles in one direction than the radius, which `saliency.cpp:255` accepts and where
  the kernel stops at the edge. What it reads in excess can only raise levels: the map still
  protects what it should, but it is not the kernels' map, and it may differ from one run to
  the next or, if the stray byte is no level, be refused by the reduction. In
  `MapFollowsPixels` the two agree only where `ReadsInside`; without that hypothesis TLC finds
  the difference.
* A close of the encoder whose teardown gets no CUDA context (`nvenc_encoder.cpp:724-729`)
  destroys no session, unmaps no surface and aborts no input, and the encoder is closed all the
  same, so that nobody tries again: its mappings outlive the surfaces that the preprocessor
  frees next. The preprocessor's own cleanup returns early in the same way
  (`cuda_preprocess.cu:708`). `close` reports the failure; `OutputFollowsSubmission` and
  `SurfacesStayPut` name this as the one case in which a closed encoder keeps a surface.

### What the models taught about the code

* *Owner client.* The terminal event itself can be lost when it finds the 32-event queue full,
  and then the client does not close either; a connection that fails before it opened raises
  no event; a send that fails inside `stop` skips the close and the terminal event; messages
  are numbered under the mutex and sent after it, and may leave in another order.
* *Control protocol.* `RECEIVER_STATS` that cross a pause or an end fail the session; an end
  that supersedes a pending pause makes the honest `PAUSED_ACK` fail it.
* *Capture.* A `CreateSession` that times out or is answered wrongly leaves a portal session
  nobody closes; a PipeWire buffer without data is never queued again; a STREAMING callback
  that races `destroy` leaves `active` set; `start_capture` waits up to five seconds without
  looking at the stop request; the pool's `geometry_superseded` check cannot be reached with
  one ingesting thread; a damage rectangle with a negative start is dropped as a whole.
* *Encoders.* The NVENC worker releases a preprocessing ticket before it completes the slot, so
  a fast owner's next submit can be refused; `flush` may return before the last output
  callback ran; `CudaPreprocessor::abort` of a ticket nobody waited for would leave its source
  in use (no caller does it). A skipped first OpenH264 frame moves the frame index, so that
  the check of the first access unit no longer applies; OpenH264 is assumed to keep a forced
  IDR due over a skip.
* *Parsers.* `profile_idc` 88 with exactly one of the first two constraint flags is
  classified as unknown; `valid_ebsp` refuses a trailing `00 00 03`.

## 5. Proofs

TLAPS checks every theorem from the named assumptions on the constants (limits are naturals,
positive where the code's are; `NoConn` is no connection; `OWNER_ONLY_LIFETIME <=
ABSOLUTE_SESSION_LIFETIME`; datagrams are well typed; byte counts fit the word; a fragment's
headers leave room for data; a picture's sides are positive and the dilation radius is at most
two). TLC evaluates the same assumptions on the runs' instances.

* `MediaPathProofs`, the gate: type correctness; `BoundaryInv` (a sender past its check pins
  the epoch it checked, control datagrams were validated as control, retired epochs lie below
  the active one) is inductive, and from it follow `NoSendAfterBoundary`,
  `MediaOnlyInItsEpoch`, `MediaTotalFinalAtBoundary`, both as `BoundaryIsFinal`, and the
  refinement of `EgressBoundary`, for any number of threads. The invariant is needed because
  the check and the send are two steps: only the permit that the sender still holds keeps the
  checked epoch current. `AccountsSound` (types and `ExactAccounting`) needs `AccountInv`: what
  the sends that are done but not yet recorded owe can be listed, once each, so that the costs
  in the list, added to the totals, make the bytes on the wire, unless a counter overflowed.
  The sum over the senders is a fold in the model; the proof states it as such a list (`Lists`,
  `Adds`), which one sender joins or leaves at a time.
* `MediaPathProofs`, the fanout: `IInv` relates queue, last published and last taken unit: the
  queue is the tail of what was published, without a gap, of the floor's epoch, and continues
  what was taken or starts with an IDR, unless recovery is awaited. Each queue operator gets a
  lemma on the shape of its result (unchanged, emptied, pushed, shortened, aged), two lemmas
  carry the chain over a push and a take, and `TakenChain`, `QueueFenced` and
  `InactiveIsFinal` follow for every capacity. `QueueBounded` beside it: the byte sum is a
  recursive function, of which it is first shown that it exists (by its least counterexample)
  and then what appending, taking and ageing do to it. Types, bounds and fences together are
  `QueueSound`.
* `SignalingServerProofs`: type correctness, `PhaseConsistent` and `DeadlinesCapped`,
  which are inductive only together with the types and the knowledge that a live session has
  an owner among the connections. One lemma per store operation says that it keeps the
  conjunction; the server's actions then follow, nested dispatch included.
  The properties of histories follow in its second half: `AdmissionInv` adds what joins were
  used, whom a binding belongs to and what is still to be dispatched. Each store operation gets
  a lemma on the shape of its result: whoever it drops it also closes, and it sends at most one
  numbered owner message. Back pressure closes a connection in the middle of a result and
  dispatches its cleanup first, so it matters what goes out before the owner's message. Of all
  operations only `reserveJoin` sends something there, JOIN_RESERVED to the new receiver:
  `StreamInv` says that the numbers the owner was handed and those in the list make up what the
  server has counted, in order (`InTurn`), or that this one cleanup has overtaken
  RECEIVER_RESERVED (`Overtaken`). From there `AdmissionSound`, `OwnerStreamComplete`,
  `ExpiredSessionIsInert` and `SessionsAreIsolated`.
* `DurableRecorderProofs`: a path that `initialize` accepts is one where the inspector finds
  nothing (an operator lemma), and only `OpenPath` leaves the initial step; hence
  `NeverOverwrites`. `CrashKeepsPromise` and `CompletionIsExact` need `RecInv`, which says for
  every step of `commit_unit` and `finalize` how far the files have come: the units written,
  pending and queued add up to those accepted; the journal names a unit only once its payload
  is on disk; everything that was promised was synchronized, file before directory; a healthy
  journal is read to its end and below `FileCap`; a marker is named only when all it says is on
  disk. A crash keeps of each file at least what was synchronized (`CrashStep`), so what the
  inspector reads afterwards is at least the promise. For any number of units, any queue
  limit, and any failures and crashes between two system calls.
* `ShareLoopProofs`: `ShareInv` (types, the recorder's offers counted against the encoder's
  units, the loop's position against what the transport reported, what a revoked transport
  can still hold) gives `RecorderMissesNothing`, `EpochStartsWithIdr` and `RevokedIsFinal`,
  the safety half of `RevocationHolds`. Its other half, that a lost peer is revoked in the end
  (`LostPeerIsRevoked`), is a liveness property and only model-checked.
* `ControlPlaneProofs`: five specifications that run beside one another, each with its own
  invariant.
  - `OwnNothingLost`: every number is on the wire or held by exactly one thread that has left
    the mutex and not yet sent, and the reported and pending ends are bounded by one and the
    stops (`OwnInv`).
  - `ControlAgrees`: what the page knows plus what the channel still carries is what the
    sender believes, for channels of any length (`CtlInv`).
  - `PeerEndIsLast`: a thread's tasks are ranked, the report stands right behind the seal, and
    only one thread ever carries it (`PeerInv`). The peer's own state is proved independent of
    the control session's types, which `CtlInv` covers.
  - `ClockSound`: every sample of the window is off by at most its delay, and the estimate is
    what `refresh` makes of them (`ClkInv`), for every window and every clock offset.
  - `LevelsFollowHistory`: replaying the history of degradations gives the levels, so a
    recovery always finds the last step to take back (`RegInv`).
* `MediaResponderProofs`: `ResponderInv` has three parts. `Tidy`: the queue is of the active
  epoch and empty while an IDR is awaited, the cache is of the active epoch or empty.
  `Chained`: the first transmissions in the queue continue one another and the last one
  released, and an epoch that was released from and given up is abandoned. `Abreast`: while
  the sender may still submit, what was queued or released last is what the packetizer
  numbered last, because a unit that was numbered and lost left a rejection behind, which
  fails the peer, or a pacer that awaits an IDR. Purge, expiry, admission, retransmission,
  feedback, drain and stop each get a lemma on what they keep, over the functions that give
  the queue's packets; from there `OneEpochInFlight` and `ChainUnbroken`, for every
  interleaving of the three threads and every limit.
  `RetransmissionsSound` needs `AccountInv` beside it, an account of every packet. `Ledger`:
  what passed the gate again, what the three threads hold in their batches and what is queued
  is together no more than the cache has counted for the packet, or than the limit once the
  cache has lost it. `Stocked`: the cache holds the last packets released, without a gap and
  fewer than the wire has numbers, so that a NACK names one packet. `Rising`: the queue's first
  transmissions rise from there to the packetizer's next number, so that no packet enters the
  cache twice with a fresh count.
* `CaptureEncodeProofs`, the encoder with the preprocessor's ring. `EncInv` says whose a
  surface is: frame ids are unique among the tickets of the owner and the inputs of the encoder
  (`Ids`), every slot of the ring that is not free is some ticket's, and the preprocessor's
  slots agree with the ring's one by one (`GpuInv`), which is what makes the two independent
  choices of a free slot in `enqueue` choose the same; a submission that is queued, locked,
  waiting for a retry or to be aborted determines in which state the ring has its surface,
  except between the worker's mark, release and completion, where the worker's position does
  (`Place`). The FIFO lists every submission the driver has once, only its head can be locked,
  and only by the worker (`Queued`, `WorkInv`); what was emitted, is handed to the callback and
  is queued makes up what was accepted, unless the encoder failed (`OrderInv`). `DriverInv`
  beside it says that an encoder without a session has failed and never takes an input, so that
  a close with nothing to tear down leaves nothing behind; after a teardown without a context
  the surfaces are still whose they were (`Torn`, `Busy`). A lemma per
  ring operation says which slots it leaves alone, a lemma per action that it keeps the
  invariant; `SurfacesStayPut` and `OutputFollowsSubmission` follow for any number of sources,
  surfaces, frames and retries. The proof also shows that the worker's check of the FIFO head
  before completing cannot fail, nor its two ring operations. The ring's abort of several
  tickets and the coordinator's failure are defined slot by slot and not as folds, because a
  fold could not be reasoned about; over the inputs in the encoder's slots, which are of
  different frames, the order makes no difference.
* `CaptureEncodeProofs`, the record command: `RecInv` gives the variables their shapes and says
  that frame ids are handed out in order, what was recorded being older than what is leased,
  that than what is ready, that than what is being copied (`PoolInv`, which also names the slot
  of the lease and of the running copy); that the desktop's session is open only while the
  client knows of it and the loop thread works only while it runs (`SourceInv`); and that an
  epoch the recording has no unit of is still owed its IDR (`ChainInv`), which a skipped frame
  must not settle. From there `CaptureSafe` and `RecordedChain`, for any number of slots,
  frames and geometries and whatever the desktop does.
* `FormatProofs`: arithmetic over data.
  - Captured buffers: an accepted buffer or cursor bitmap is read within its memory
    (`AcceptedReadsInBounds`), and in all eight orientations frame, damage and cursor agree
    pixel by pixel (`TurnedPicturesAgree`): `ReadsInBounds` and `TurnsAgree`, parts of
    `FormatsFaithful`, for every size.
  - RTP: whole seconds and the rest, converted apart, make the exact number of ticks, and the
    checks of partial sums refuse just what does not fit (`ClockIsExact`); a unit's fragments
    carry each of its bytes once and mark start and end (`FragmentsCarryUnit`).
  - `SaliencyFaithful`: half of it is `SalInv`, by which a snapshot of the present revision
    shows the present set, so that the revision an edit names is as good as the set the tab
    showed. The other half compares what reference and kernels count in tiles and macroblocks
    with pixels; its lemmas are about division (a tile's pixels, a macroblock's tiles, a
    rectangle that meets a tile in a pixel). Both dilations yield levels that keep every
    neighbour's, the reference's because its spans hold the kernel's in every picture
    (`SpanToRead`); all that is owed to pixels follows from that alone (`MapOfLevels`), and the
    maps are equal where the spans are.

Only model-checked:

* the liveness properties `ResponderProgress`, `SessionsEnd`, `LostPeerIsRevoked` (the leads-to
  half of `RevocationHolds`), `StopEndsShare`, `FinalizeReturnsInTime`, `OwnSilentServerEnds`,
  `DeadLinkStops`, `PeerStopCompletes`, `RecordEnds` and `EncoderCloses`: fairness and `ENABLED`
  are outside the prover;
* of `FormatsFaithful`, what the Annex B and SPS parsers read back, because they are recursive
  operators, and `PacketsFaithful`, because packetizer and receiver fold over a whole access
  unit and the prover has no induction over data. The clock and the fragments of one unit are
  proved for all inputs, the two properties of captured buffers likewise.

## 6. Not modelled, and why

* Pixel arithmetic: colour conversion, scaling, gradients and tile features, and the kernels
  for them. There is no state, and the interesting inputs are whole pictures.
* SDP text, JSON schemas, URLs and HTTP headers: validators without state. Where their verdict
  steers a state machine it is an input (well formed or not).
* Driver, desktop, bus, browser page and TLS: external; they answer anything they may answer.
* Arithmetic on doubles in the token bucket and the rate estimators: what they may decide is
  left free.
* The rate limiter of the signaling server is the possibility that any message fails;
  capability hashing is freshness. The close of the server's process is left out.
* Diagnostics nothing reads back, exit codes and status lines.
* The benchmark, doctor, corpus, CI and qualification tools: offline programs around the
  product, one run each and no state that outlives a call.

## 7. Where to go on

Every invariant and action property that the runs check is proved, but for the rest of
`FormatsFaithful` named in section 5, as is the refinement of `EgressBoundary`. What would be
worth adding:

1. A depacketizer stated over the positions of bytes and not as a fold, so that
   `FragmentsCarryUnit` extends to whole access units.
2. The parsers as recursive functions over positions, so that round trips can at least be
   proved unit by unit.
