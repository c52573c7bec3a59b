# bairelay in TLA+

bairelay is a bridge between Reolink battery cameras, RTSP clients and an MQTT
broker. Its difficulty is in time and order: cameras must sleep when nobody
needs them and wake when somebody does, a video stream is shared by clients that
come and go, a lossy transport is made reliable by hand, and everything has to
come down in the right order when a session or the process ends. This directory
models the bridge in TLA+, checks it with TLC on small instances and proves the
safety properties of eight of its parts with TLAPS for every value of the
constants. Source
paths below are relative to the repository root.

## 1. Inventory

| Part | State | Operations | Talks to | Modules |
|---|---|---|---|---|
| Wake lock (`src/wake_lock.rs`) | count, release stamp, two stored permits | acquire, drop, wait_for_acquire, idle_since, notified | every consumer of a camera | WakeLock, WakeGate |
| Grace period (`src/grace_period.rs`) | position in its loop, deadline | run | wake lock; session token | GracePeriod |
| Camera run loop, preview aggregator, watchdog (`src/camera.rs`, `src/watchdog.rs`) | connection state, driver slot, preview channel, session token, failures | run, run_connected_session, keepalive_loop, teardown, tick, sweep | wake lock, driver, registry, MQTT | CameraLifecycle, CameraSession |
| Stream registry and sources (`src/camera.rs`, `src/stream_source.rs`, `src/camera_provider.rs`) | source per kind, create lock, reader, SDP, idle marker | stream_source, prune, stop_all, subscribe | callers, watchdog, teardown | StreamRegistry |
| Translation, bridging, pacing (`src/stream_translate.rs`, `src/gap_bridging.rs`, `src/stream_source.rs`, `src/rtsp/server/session_task.rs`) | codec latch, timestamps, keyframe gate, Live/Bridging, burst, pacer anchors and queues | per packet, per tick | subscribers | Media |
| MQTT loop and shutdown (`src/main.rs`, `src/mqtt_loop.rs`, `src/mqtt/client.rs`, `src/orchestrator.rs`) | connection, request queue, backoff, two tokens, joins | poll, handle_connack, publish, Ctrl+C | broker, cameras, dispatchers | MqttLoop |
| Control dispatch (`src/mqtt_dispatch.rs`, `src/mqtt/control.rs`) | a task per command, wakeup holds | parse a topic, wake, command, reply | cameras, MQTT | MqttControl, CameraActivity |
| Session tasks, startup wake, push listener (`src/camera_tasks.rs`, `src/baichuan/bc_protocol/motion.rs`, `src/startup_wake.rs`, `src/push_listener.rs`) | motion hold, battery latch, guards | motion, battery, warm-up, push | wake lock, MQTT | CameraActivity |
| MQTT status and discovery (`src/mqtt/`) | retained topics, status cache, caches of capabilities and presets | publish, remove, republish | broker | RetainedState |
| BcUdp transport (`.../connection/udpsource.rs`) | ids, sent, reorder buffer, ack, three tasks | send, ack, resend, deliver, fail | network, camera | BcUdp, PacketChannel |
| Baichuan connection and commands (`.../connection/bcconn.rs`, `bcsub.rs`, `bc_protocol/*.rs`) | subscribers by id and number, queue, channels, message number | subscribe, send, receive, poll, stream, shut down | camera, transport | BcConnection, BcCommands |
| Login and wire formats (`src/baichuan/bc*/`) | encryption state of a connection, decoder state | encode, decode, log in | camera | BcCodec, BcXml, UdpXml, BcMediaWire, UdpWire |
| Camera discovery (`.../connection/discovery.rs`, `bc_protocol.rs`) | rounds, backoff, racing routes, a permit, timers | probe, local search, register, race | register servers, camera | Discovery |
| Wake server (`src/wake_server/`) | bounded maps with lazy expiry, anchors | heartbeat, register, connect, wake | cameras, discovery | WakeServer |
| RTSP server (`src/rtsp/server/`) | connections and slots, sessions by id and generation, port leases, tasks | accept, handshake, DESCRIBE to TEARDOWN, sweep | clients, provider | RtspServer |
| RTSP messages, authentication, SDP (`src/rtsp/`) | nonces | answer a request | clients | RtspProtocol |
| RTP and codecs (`src/rtsp/{rtp.rs,codec/,transcode/,server/packetizer.rs}`) | sequence number, codec state | fragment, convert | sessions | RtpPayload |
| Configuration and add-on options (`src/config.rs`, `src/hassio/`) | none | load, validate, clamp, merge, render | everything | Config |
| Cloud client (`src/baichuan/cloud.rs`) | bundle cache, tokens | mint, refresh, authorise | Reolink account | Cloud |
| Command line (`src/cli.rs`, `src/cli_convert.rs`) and one-shot commands (`src/oneshot/`) | a session and a preview | route, connect, requests, end, exit code | camera | CommandLine, OneShot |
| The camera's clock (`src/baichuan/bc_protocol/time.rs`) | daylight-saving schedule, zone, wall clock | set_time, get_time | camera | CameraClock |

What is hard:

* *Concurrency.* Every consumer runs on its own task or thread; the wake lock,
  the registry, the state, the slot and the preview channel are separate locks
  that no critical section spans. Notify permits outlive the event they report.
  One reader and one poller serve all users of a camera connection, one permit
  all the routes of a search.
* *Failure and order.* A session ends for five reasons, any of which can meet
  shutdown, a late caller, a sweep or a disconnect request half-way. Packets are
  lost, repeated and reordered; replies meet message numbers that are reused; an
  RTSP session id outlives its session.
* *Time.* Grace periods, sweeps, probes, drains, discovery rounds and pacers are
  timers that race the events they wait for; some waits have no timer at all.
* *Back pressure.* MQTT requests, Baichuan messages and paced frames go through
  bounded queues, some of them emptied only by a task that also fills one.

What makes each part correct: no wakeup and no release is lost; a held session
is not cancelled, an idle one is; a driver in the slot is the current one; the
tasks and readers of a session end with it; of each kind of stream there is one
source and nobody is handed a dead one; the transport is an in-order channel; a
client gets its own reply; every request and every search ends; ports, slots and
holds are given back; what a decoder reads is what was written; MQTT stops last;
Ctrl+C always gets through.

`PROJECT.json` lists the hazards one by one, at the line where they bite.

## 2. Modules and how they fit together

```
WakeGate  <--implements--  WakeLock  <--extended by--  GracePeriod
   ^ used by                            (WakeLockProofs)
CameraLifecycle  --implements-->  CameraSession  <--instantiated by--  StreamRegistry
   (CameraLifecycleProofs)                             (StreamProofs)
MqttLoop          MqttControl  <--used by--  CameraActivity, RetainedState
BcUdp  --implements-->  PacketChannel     (BcUdpProofs)
BcCommands  <--extended by--  BcConnection     (BcConnectionProofs)
WakeServer, Discovery  <--composed by--  WakeDiscovery     (WakeDiscoveryProofs)
RtspServer  (RtspServerProofs)          Media
CommandLine  <--extended by--  OneShot
BcCodec, Cloud, RetainedState (MqttControl)  <--extended by--  MCFormats
UdpXml (BcXml), BcMediaWire, RtpPayload, UdpWire, RtspProtocol, Config, OneShot,
CameraClock  <--instantiated by--  MCFormats
```

Three proof modules extend, and hold the proofs of, more than one module: StreamProofs
those of StreamRegistry and Media, MqttProofs those of MqttLoop, CameraActivity and
RetainedState, BcConnectionProofs those of BcConnection, Cloud and BcCodec. The
modules they join share no variable; each theorem is about the specification it names
(`MediaSpec`, `ActivitySpec`, `RetainedSpec`, `CloudSpec`, `CodecSpec`).

Large compositions are avoided by three abstract specifications, each shown to be
implemented by the detailed module: `WakeGate` is what the wake lock promises the
run loop, `CameraSession` what the run loop promises the stream registry,
`PacketChannel` what the transport promises the connection above it.

**WakeLock.** `acquire` and `Drop` are three steps each on the 0->1 and 1->0
edges: the atomic read-modify-write, the update of `last_release_at` under its
mutex, and `notify_one`. `client[c]` says where each caller is. `wait_for_acquire`
is check, await, re-check; `idle_since` is its two reads. `now` is a clock that
ticks at any moment; `idleFrom` is a history variable (when the count last went
to zero). tokio's `Notify` is one stored permit; creating a `Notified` that is
never polled has no effect and is no step.

**GracePeriod.** Extends WakeLock with `GracePeriod::run`: check, wait for a
release permit, sleep, look again. The task is spawned by each session and
aborted when a session ends for another reason.

**CameraLifecycle.** `pc` is the position in `run`, `run_connected_session`,
`keepalive_loop` and `teardown_session_tasks`, one value for each place where
other tasks can see a difference. Every read and write of shared state that
another task can fall between is a step of its own. The grace watcher, the
aggregator and the watchdog are processes of their own. Timers are abstracted:
a sleep or a timeout may end at any moment, and `idle_since` is none, younger or
older than the grace period. `asked` and `heldThroughout` are history variables.

**CameraSession.** State, driver slot and the five phases of a session as others
see them.

**StreamRegistry.** Callers walk through `stream_source` (poll, fast path, create
lock, state re-check, driver, start, insert) and then wait for the SDP and
subscribe. A source is a record: kind, driver, cancelled, where its reader is,
whether its SDP is ready and the age of its idle marker. `Prune` is one whole
sweep (it holds the registry's write lock throughout). `stop_all_stream_sources`
drains in one step and stops the sources one after another.

**MqttLoop.** The event loop (poll, ConnAck work, backoff), the bounded request
queue, camera tasks as reporters, dispatchers as repliers, the Ctrl+C task with
its capped fan-out, and main's joins. rumqttc is external: only a poll on a live
connection takes requests out of the queue, and a lost connection moves them to
a list of the library's own.

**BcUdp.** One side of a connection in full (flow state, socket task, ack timer,
payload task, the channels between them) against a camera that sends, acks and
resends within a window. The network is a set of packets that may be lost, stay
for a second delivery or be overtaken, with strays of an earlier connection and
of other addresses. Ids are `0..IdMax`; what is in a payload is its number.
**PacketChannel** is the promise: what is read is a prefix of what was written,
and nothing follows the error.

**BcCommands, BcConnection.** A command is a plan: a sequence of exchanges, each
with its ability gate, its message id, how it subscribes (by number or to any),
its retries and how its reply is read. `Planned` is what all commands of the
code have in common; MCBcConnection has TLC evaluate that they do. BcConnection runs the plans of several
clients over one reader task, one poller, a bounded queue, a channel per
subscriber, message numbers that wrap, stream consumers and their stop request,
quirk timeouts, link errors, end of file, and shutdown. The camera answers what
it was asked, with any code, or sends events. Abilities are one right for all names,
but for streamTable, which start_video and stop_video accept in place of preview.
Sizes of a snapshot are left out: it may be announced too large, and any of its
pieces may exceed the cap or leave it short (`Misfits`).

**WakeServer, Discovery, WakeDiscovery.** The server's maps with capacity, lazy
expiry and prefix match, its anchors and the camera's side of registration; the
client's search (TCP probe, local rounds, registration with a backoff, four
racing routes with one permit and their timers). A socket error reaches the
subscribers of a discoverer and not its handlers (`discovery.rs:199-206`), so a route
that asks or confirms ends with it and one that listens waits for its timer; making
the sockets of a registration may fail too, and ends it. WakeDiscovery puts both on one
network whose mail is lost, repeated and reordered, beside a vendor server whose
answers are free.

**RtspServer.** The accept loop and its slots, handshakes, one step for each
stretch of a request handler between two awaits, the registry's entries, a
generation for each time an id is used, port leases by owner, session tasks
(armed, parked, playing, draining), the sweep and shutdown.

**MqttControl, CameraActivity.** Which topics and payloads are commands, and the
tasks around one camera: dispatchers with their guard, wait, command, retries and
reply (which returns on the topic it came from), the motion listener with merged
events and its hold, the push listener, the battery poller's latch and the
warm-up.

**Media.** Packets of a scripted camera feed through codec latch, key frame gate,
timestamps, gap bridging, burst buffer, pacers, queues and a bounded broadcast to
one session that joins late, sets up its tracks one by one and may lose one to a
failed send. Audio presence belongs to the camera and the SDP to the source: the model
has one source, whose camera another source may have marked before it starts, and the
startup warm-up, which writes what this source showed. The session looks at presence
once and then waits for the SDP, with audio or without. Clocks are small integers.

**Formats.** Each of the remaining modules is a pure algorithm or a small
sequential machine with no shared state, and MCFormats checks one of them per
initial state (`topic`): the codec and its switches of encryption (BcCodec), XML
elements as tables of fields with what is written and what may be missing
(BcXml, UdpXml), media frames cut into payloads (BcMediaWire), RTP fragmentation
and audio conversions (RtpPayload), the broker's retained entities over restarts
(RetainedState), datagrams (UdpWire), RTSP requests, digest and SDP
(RtspProtocol), configuration and add-on options (Config), cloud tokens (Cloud),
the command line with its defaults and exit codes (CommandLine), one-shot commands
(OneShot), and daylight saving with the reading and setting of the camera's clock
(CameraClock). Bytes are counted, not spelt: a message is its
kind, its lengths and which fields it has. Bytes of a media stream that are not the
start of a frame never look like a magic. RetainedState has the retained status of the
preset beside the entities; an earlier start may have left it, but no entities of
an earlier configuration. In OneShot a logout may fail or time out, and a login that
times out may have opened a session; what is claimed is that the end was tried.

Operators that begin with the comment "Defect:" are plausible mistakes in the
code (a dropped guard, a swapped order, a missing reset). They are not part of
any specification; each was put in place of the operator after it to see that
the property it is meant for is really violated.

## 3. What TLC checks

| Run | Instance | Distinct states |
|---|---|---|
| `WakeLock` (module GracePeriod) | 2 clients, clock to 2, grace 1 | 382 875 |
| `CameraLifecycle` | battery camera, 2 clients, 2 sessions, 2 failures | 200 515 |
| `StreamRegistry` | 2 callers, 1 kind, 1 session, 2 sources | 161 664 |
| `MqttLoop` | 2 cameras, queue 2, 2 ConnAck requests | 9 322 |
| `BcUdp` | reorder cap 2, camera window 2, 3 packets down, 1 up, 2 under way | 82 197 |
| `BcConnection` | 2 clients, queue 1, channels 1, streams of 2 parts, numbers 0..6, two configurations | 285 130 |
| `WakeDiscovery` | 2 cameras, maps of 1 entry, 2 register servers, 5 option sets | 292 402 |
| `RtspServer` | 2 connections, 1 slot, 1 port pair, 2 generations, 2 tracks, TLS | 205 562 |
| `CameraActivity` | 2 commands on 3 topics | 125 445 |
| `Media` | 2 feeds of video with 4 packets, one of audio with 3, clock to 4, queues of 2 | 3 238 189 |
| `Formats` | thirteen topics | 3 175 805 |
| `CameraLifecycle_request` | 1 client, 2 sessions | violated, see below |

*Wake lock.* `LockSafety`: the count is exact under every interleaving
(`CountIsHolders`), a parked run loop is woken (`NoLostWakeup`), a waiting grace
task is told of the release (`NoLostRelease`), and once no drop is half-way an
idle lock's stamp is not older than the release that made it idle
(`StampFreshAtRest`). `HeldWakesWaiter`: the wakeup comes. `GateSpec`: refinement
of `WakeGate`, its liveness included.

*Camera.* `CameraSafety`: `DriverOnlyWhileConnected`, `TasksDieWithSession`,
`CaptionMatchesPhase`. `HeldSessionEndsForCause`: a session held from its first
moment ends only by shutdown, failed probes or a watchdog request. `SessionSpec`:
refinement of `CameraSession`. `CameraProgress`: `CancelStops`,
`IdleCameraSleeps`, `WantedCameraLeavesPark`.

*Registry.* `RegistrySafety`: no reader out of reach, no kind with two live
sources, nobody handed a stopped one. `RegistryProgress`: every caller is
answered, an idle source is evicted.

*MQTT and shutdown.* `LoopSafety`: MQTT outlives the cameras, the backoff is fresh
while linked. `LoopProgress`: Ctrl+C cancels, shutdown ends unless a report is
stuck, reports are taken while the loop polls.

*Transport.* `InOrderChannel`: refinement of `PacketChannel`. `TransportSafety`:
neither side forgets a packet the other still needs, whatever acks were lost or
late. `Delivery`: both directions drain again and again. `FailureReported`: a dead
socket task is read as an error.

*Connection.* `ReplySafety`: what is in a client's channel answers its own
request, although numbers are reused. `NoReplyLost`: a reply under way is not
dropped between reader, queue and channel. `EveryCommandEnds`: with an answer, an
error or a closed connection, and shutdown ends although its Disconnect needs
room in the queue. Three waits are excepted: a clean end of file, the parts of a
snapshot, and a poller stuck behind an abandoned stream (`Stuck`, the state in which
`StreamStops` fails, see below). With channels of one message and streams of two parts
every channel does fill, and the run shows that nothing else stops the poller.

*Wake server and discovery.* `WakeSafety`: the maps stay within their capacity
and the ac told to a camera is that of its token. `LastWord`: the path the
register server heard last is the one the search returns. `SearchEnds`.

*RTSP.* `ResourcesAccounted`: every port and slot is free or has exactly one
owner. `PlayStarts`: a PLAY before, between or after the task's arm and check is
not lost. `EndedConnectionIsCleaned`.

*Activity.* `ActivitySafety`: the bridge's replies start no command, and whenever
no turn is under way the last thing asked was to stop. `HoldsEnd`: dispatchers,
pushes and the warm-up let go of the camera, except while MQTT does not take the
reply of a command (`mqtt_dispatch.rs:315`) or the report of a pushed motion
(`push_listener.rs:221`): both are awaited under the guard without a time limit.

*Media.* `StreamWhole`: no frame is skipped within a live run of an unbridged
feed. `AudioClock`: an audio timestamp counts every sample before it, dropped
ones too. `PresenceHasSdp`: a source marks its camera as having audio only with an
SDP that describes it, and a client of a camera whose audio another source has found is
given no SDP without audio, unless the warm-up has written Absent over it.

*Formats.* `CodecAgrees`, `WrittenReadsBack` (XML and datagrams), `MediaReframes`,
`RtpReassembles`, `RetainedIsCurrent`, `EntitiesWork`, `RequestsAnswered`,
`ConfigUsable`, `AccountSpared`, `CommandsSound` (one-shot commands and command
line), `DaylightCompensated`: each about its topic; the comment above
each says what it compares. What they do not claim: `CodecAgrees` excepts media of which
encryptLen covers a part; `WrittenReadsBack` has optional fields left out again, while a
plain field the camera left out is written back with its default (`Invented` lists
them); `MediaReframes` has the payload after a loss dropped too when one to three bytes are
left before it; `ConfigUsable` has accepted configurations start and
run unless they have a fault validation does not look for (`Overlooked`);
`AccountSpared` says nothing of bundles without an integer exp, which are not kept;
`DaylightCompensated` claims what is shown only for a camera that adds an hour;
`EntitiesWork` leaves out a preset with an empty name, which `control.rs:389` refuses.

### Statements of the repository that the code does not keep

Each is a definition of the named module, stated from the sentence it quotes.
`CameraLifecycle_request` is kept as a run; the others are reproduced by a
configuration with the constants of the module's run (or those noted) and that one
property, as an INVARIANT when it is a state predicate. Those of BcCodec are checked
with `CodecSpec`, `RoundTrip` and `FileReloads` through MCFormats' instances `Clock`
and `Cfg`.

* `RequestEndsItsOwnSession` (CameraLifecycle; `camera.rs:754`): a disconnect
  request stored while a session is already ending ends the next one, which a
  client has held from its first moment. `watchdog.rs:50-52` says it fires only
  for an idle camera.
* `StreamStops` (BcConnection; `bc_protocol/stream.rs:294`): the dropped stream's
  task subscribes to the stop reply while it still holds the stream's full
  channel, for which the poller waits (`bcconn.rs:362`). `stream.rs:44`: "When this
  object is dropped the streaming is stopped".
* `MediaWhole` (BcCodec; `bc/de.rs:215`): of a media payload in a FullAes session the
  first encryptLen bytes are kept. `docs/baichuan-protocol.md:265`: "Only the leading
  `Extension.encryptLen` bytes of each media payload are enciphered; the remainder is
  plaintext."
* `PresenceKept` (Media; `startup_wake.rs:156`): the warm-up writes Absent over what
  another source has found. `audio_presence.rs:12`: "`Present` never downgrades".
* `ResumesAtMagic` (MCFormats; `bcmedia/codex.rs:61`): up to three bytes before a
  payload stay in the buffer, and the payload is dropped with them. Line 78: "Drop the
  whole packet and wait for a packet that starts with magic".
* `DisplayLandsOnTimestamp` (MCFormats; `time.rs:262`): outside the daylight-saving
  window local time is written with the zone, and "`displayed = <hour> +
  (-<timeZone>/3600) + dst_in_window`" (`time.rs:221`) is not the time that was set.
  get_time reads it back as the time set, so one of the two readings is wrong.
* `NoLatePanic` (MCFormats; `config.rs:1347`): a finite duration beyond the range of
  `Duration` is accepted and panics later, against the comment at 1342-1346.
* `AddressedIsReachable` (MCFormats; `bc_opts.rs:19`): a host name without a uid is
  dropped as an address. `hassio/bairelay/DOCS.md:29`: "LAN IP or hostname".
* `OverlayTaken` (MCFormats; `hassio/merge.rs:151`): cloud_account, cloud_password and
  tokio_console of the overlay are lost. Lines 148-149: "Overlay values that differ
  from the type's default win".
* `IdleSinceIsCurrent` (WakeLock; `wake_lock.rs:87`): an acquire between
  idle_since's two reads leaves a held lock with a readable stamp; the comment at
  lines 81-84 says it cannot.
* `CountdownRestarts` (GracePeriod, clock to 5, grace 2; `grace_period.rs:43`): a
  use that begins and ends inside the countdown does not reset it;
  `docs/architecture.md:184` says it does.
* `CancelShutsDown` (CameraLifecycle; `camera.rs:1119`): the run loop waits
  without a timeout for the capability, preset and PIR queries and for MQTT to
  take a report. `docs/architecture.md:167`: "Cancelling the global token shuts
  down everything."
* `PreviewGapClosed` (CameraLifecycle; `camera.rs:1502`): the aggregator's write
  can follow the run loop's, so Live stays through the backoff.
* `RegistryIsCurrent` (StreamRegistry with 2 sessions; `camera.rs:882`): a caller
  between the state check and the insert leaves a source of the old session in
  the new registry. `docs/architecture.md:193` says a cached source never
  outlives its session.
* `LastReportTaken` (MqttLoop, 1 camera; `main.rs:625`): ConnAck work can block
  the only task that empties the queue it waits for.
* `Delivery` (BcUdp with a camera window of 3, more than the reorder cap;
  `udpsource.rs:390`): when the reorder buffer is full of later packets, the
  wanted one is dropped each time it is resent, and nothing moves again. The
  comment at 298-303 says retransmission deals with it.
* `AnswerWins` (Discovery; `discovery.rs:926-960`): the one permit is held by a
  silent route for its whole timeout while an answered one waits.
  `docs/code-paths.md:381`: "strategies raced, first answer wins".
* `AuthLoginCompletes` (BcCodec; `bc/codex.rs:185`, `login.rs:607-632`): the
  challenge puts its message number into binary mode, and the DeviceInfo that
  ends the exchange under the same number is then read as bytes;
  `docs/baichuan-protocol.md:347` describes the exchange.
* `GuardFollowsMotion` (CameraActivity; `motion.rs:53-65`): an off and an on taken
  together are reported by the last only, so a hold can outlive its motion.
* `BatteryNotSilenced` (CameraActivity; `camera_tasks.rs:205-216`): that a camera
  has answered is forgotten with its session, so refusals in a later one silence
  a real battery.
* `PtsForward` (Media; `session_task.rs:498-505`): the replayed burst is recorded
  before the pacer, live frames come after it, so the first live key frame can be
  older than the burst.
* `RtpInfoIsFirst` (Media; `session_task.rs:390`): the packets of a replayed
  burst leave the slot of the first packet alone, so RTP-Info names a later one.
  `registry.rs:73`: "of the first RTP packet sent on the session's video track".
* `OwnEnd` (RtspServer; `session_task.rs:364`): an ended session's task removes by
  id, and may remove a later session with the same id.
* `RoundTrip` (CameraClock; `time.rs:250-264`): in summer set_time writes UTC with
  the offset of winter, which get_time reads as another moment. `time.rs:446`: "the
  round-trip `set_time(t)` -> `get_time()` preserves the original".
* `FileReloads` (Config; `hassio/cmd.rs:59-61`): a file without cameras or user
  names does not load back; the comment says behaviour is unchanged.

Observed while modelling, and not stated as properties: H.264 parameter sets with
nal_ref_idc 2 are taken for H.265 (`nal.rs:220`); connect, login and operation
timeouts exit with 1 where `README.md:323` and `docs/code-paths.md:461` say 4
(`bc_camera.rs:85-95`, `oneshot/classify.rs:15-31`); the six service queries of a
one-shot may need 6 x 8 s of a 30 s budget; a revoked refresh token does not fall back to
the password (`baichuan/cloud.rs:172-190`); `push_listener_port` may equal
`bind_port`; a clean end of file tells no subscriber (`bcconn.rs:63-70`); a full
wake server map refuses before it purges (`register.rs:348-366`); "_ro" overwrites
"_rw" when both name one ability (`abilityinfo.rs:105-111`); two overlapping
publications of discovery can leave a removed entity (`publisher.rs:258-269`); exit code 0 of a one-shot does
not mean that the camera ended the session (`runner.rs:61`); a bundle without an
integer exp is minted anew at every login (`baichuan/cloud.rs:132`); `mqtt.client_auth` is
not used (`mqtt_loop.rs:55`); a start_video that times out although the camera
took it leaves the preview running; a sweep that stops a source somebody waits
for makes that request a 503; the reason the last registration round failed, which
`bc_protocol.rs:363` means to surface, is dropped by the `Ok(v)` pattern of the
select around it, and the caller gets DiscoveryTimeout.

### Bounds, and why they are enough

Two clients give both edges of the count and their overlap: a third never meets
an edge that two cannot. A clock of two ticks and a grace of one tell a release
before, at and after a deadline apart; stamps are only compared. Two sessions let
anything stored by one session meet the next. Two failures (the code has five)
tell "one more" from "the last". In the registry run two callers race for one
kind within one session; the safety theorems cover every number of kinds and
sessions. A queue of two with two ConnAck requests fills, blocks and empties. The
counter of MQTT errors saturates at `MaxConsecutive`, which stands for `u32::MAX`.

For the transport, three packets in a window of two make a gap, a full reorder
buffer and a late duplicate; two packets under way suffice for overtaking, and
ids run to 7 so that strays lie outside the window. On a connection, two clients
share one place in the queue, so every sender waits for the poller somewhere, and
numbers to 6 are reused within a run. Channels of one message and streams of two parts
make a stream's channel fill while the poller has more for it; the second client's
command is the siren, whose reply waits behind it, and which the first may sound at
the same time, so that two requests of one id are under way. (`NumberFree` bounds the reuse: a number
comes round, 65 536 requests later, only when nothing of its last use is left,
neither a channel nor a request nor a reply under way.) Maps of one entry with two cameras make the
wake server refuse, expire and evict; a search of at most two rounds has a first and a
last failure (`retry` saturates above every value the code compares it with,
`RetryCap`); the cameras' uids share a prefix with the
wanted one or do not. One slot, one port pair and two uses of one id make the
RTSP server run out of each and meet the id again. Two commands overlap; three
topics give a command with a hold, one with several requests and one with a
reply. Four packets in a clock of four contain a key frame, its successor, a gap
longer than the threshold and the return; a feed with audio has one packet less
(`MaxAudioPackets`), which leaves a key frame and two audio packets. `Formats` enumerates lengths around
each boundary (empty, one block, one more), both values of each option, and
sequence numbers around the wrap.

`MaxSessions`, `MaxSources`, `MaxTime`, `MaxReplies`, `MaxCommands`, `MaxMade`, `MaxParts`,
`NetCap`, `CamPackets`, `AppChunks`, `MaxIssue`, `MaxGen`, `MaxNow`, `MaxPackets`,
`MaxAudioPackets` and `MaxStarts` bound what the program does not. Runs that say CHECK_DEADLOCK FALSE
are of systems that may stop: a closed connection, a search that has ended, a
server that is down, a feed or a command list that is used up.

### Fairness, and why the code justifies it

* A thread inside `acquire`, `Drop` or a polled future is not descheduled for
  ever (weak fairness of the inner steps; none of acquire or release themselves,
  nor of the clock).
* tokio polls a task whose await is ready: weak fairness of the run loop's timed
  steps, the grace watcher, a caller's own steps, the transport's tasks, reader,
  poller and clients of a connection, the routes and rounds of a search, RTSP
  handlers and session tasks, and the tasks around a camera. Steps that wait for
  the camera's answer to the capability query or for MQTT to take a report or a
  reply (also those of CameraActivity, which hold the camera meanwhile) have
  no timeout in the code and get none.
* `select!` picks among its ready branches at random, so a branch that is ready
  at every poll is taken in the end: strong fairness of `SessionCancelled` and
  `Cancelled`. The drain deadline fires and an aborted task stops at its next
  await: strong fairness of `Drained(TRUE)`.
* tokio's mutex and rumqttc's bounded channel serve waiters in order: strong
  fairness of `TakeLock`, `Reported` and `ConnackRequest`; poll alternates
  between the socket and the queue: strong fairness of `PollOutgoing`.
* A packet that is sent again and again arrives in the end: strong fairness of
  `WantedArrives`, `ResentArrives`, `AckArrives` and `CamAckArrives`. This is an
  assumption about the network, without which no transport delivers.
* The camera answers what it has taken from a live link (`CamAnswer` in
  BcConnection): with what, is free; and the link may fail at any moment. It is
  not assumed in CameraLifecycle or CameraActivity.
* A configured handshake, TCP probe, local round or RTSP wait has a timeout, so
  it ends one way or the other. The watchdog sweeps until the shutdown, and time
  passes for idle markers and in a search.

The broker, the clients, Ctrl+C, register servers and relays get none.

## 4. What is proved

All theorems hold for every value of the constants under the named assumptions
(`ClientsFinite`, `MaxTimeNat`, `DurationPositive`, `ConfigAssumption`,
`RegistryAssumption`, `MqttAssumption`, `BcUdpAssumption`, `RtspAssumption`,
`WakeServerAssumption`, `DiscoveryAssumption`, `ConnectionAssumption`, `MediaBounds`,
`ActivityAssumption`, `RetainedAssumption`, `CloudAssumption`, `CodecAssumption`). They fix
types, that a duration, a queue, a window or a failure limit is not zero, that the
features switched on are among those there are, and that a camera offers an
encryption level the codec knows or dd99 for all others. Three say more. `BcUdpAssumption` keeps the packets of a run below `IdMax`, so that
ids do not come round within a connection (2^32 packets in the code).
`WakeServerAssumption` has an entry go stale no later than its anchor is
forgotten (80 s and an hour). `ConnectionAssumption` asks that commands be planned:
an exchange that continues its predecessor's subscription has its id, only
snapshots and stop requests subscribe otherwise than by a fresh number, a login
offer is the answer to a login, and no command ends with its stream still running.
TLC evaluates every one of them, the last for all commands of BcCommands.
One theorem has a hypothesis of its own, `DirectCommands` of `NoReplyLostHolds` (below).

The theorem named `SafetyHolds`, or after the property with `Holds`, states the
safety invariant that the module's run checks.

* **WakeLockProofs.** `IndInv` is the type invariant, `CountIsHolders`,
  `NoLostWakeup`, `StampFreshAtRest` and that a release is never in the future.
  The count has to be exact to know that the client that sees 0 is the one that
  owes the notification, which is why the wakeup cannot be proved alone.
  Cardinality facts come from the library's theorems. On it rest
  `ImplementsGate` and, with the grace task added (`GraceKeepsLock`,
  `GraceInvHolds`), `ReleaseNotLost`.
* **CameraLifecycleProofs.** The strengthening says which state, slot and driver
  go with each phase (`PhaseShape`), that failures are below the limit while the
  session lives, and that a session held throughout has not been cancelled by
  its grace watcher (`HeldNotCancelled`). Results: slot, tasks, caption, why a
  held session ends (`HeldSessionLasts`), and the refinement of `CameraSession`
  step by step (`ImplementsSession`).
* **StreamProofs.** The strengthening ties the create lock to its holder
  (`LockShape`), a caller's position to its source (`CallerShape`), a registered
  source to its kind and driver (`RegistryShape`) and teardown's list to the
  phase (`StopShape`). Results: no orphan, one source per kind, none cancelled.
  The argument for `OneSourcePerKind` is that a source that is neither cancelled
  nor drained is registered or in the hands of the lock's holder, and that the
  holder has seen an empty place that only it can fill.
  For Media, `AudioClock` and `PresenceHasSdp` need the type of every frame on its
  way, that an audio frame's timestamp is its due from the moment it is made, and
  that a session past its wait of a camera with known audio has seen it in the SDP
  (`AudioInv`); presence may be there from the start, found by another source, so it
  says nothing of this source's SDP by itself. `StreamWhole` speaks of what the session sends; its invariant
  (`RunInv`) follows the video from the camera to the wire: queue, pacer and
  pending frames are consecutive runs of numbered frames, each ending where the next
  one begins, and what was sent last comes right before what is pending, unless
  the session has lagged or waits for a key frame after a replay.
* **MqttProofs.** Main's progress is tied to the cameras being done and to
  the two tokens. Results: MQTT stops last, and a fresh backoff while linked.
  For CameraActivity (`CommandsStaySound`), that a camera told to move is told to stop
  needs who is turning it (`TurnInv`), and that no command runs twice needs a
  count: commands begun and commands in the inbox are no more than were published
  (`CountInv`), which holds because a reply, which comes back to the bridge on its own
  wildcard subscription, parses as no command on any topic. For RetainedState
  (`RetainedStaysCurrent`), the invariant is about the broker after the writes
  that are still to be made (`BrokerInv`, `StatusInv`), and only as long as no two
  tasks have written at the same time (`OneWriterInv`); that the tasks stay well
  formed (`TasksInv`) has to hold without that proviso. The preset shown is one of the
  camera's because every publication ends with its clearing (`PresetInv`).
* **BcUdpProofs.** `NothingForgotten` follows from what the packets themselves
  claim (`PacketsHonest`): every ack on the network, in the socket's channel or
  kept by the flow state names only packets its sender has. Old acks stay true
  because what a side has only grows, which is why loss, repetition and
  reordering do no harm. `InStep` says that what was read, what waits in the
  channels and the first wanted id are consecutive. Results: `TransportSafety`
  and the refinement of `PacketChannel` (`ImplementsChannel`), for the safety
  part of the specification and so under any fairness.
* **RtspServerProofs.** Slots and sessions share no variable, so the invariant is
  a conjunction of two that are preserved separately. For the ports, `HeldOnce`
  says who holds which: a track of a running session task, or a SETUP that has
  its lease and has not stored it yet. It needs `EntryLives` (an entry never
  outlives its task), since a SETUP adds its track to whatever session the entry
  names. Results: `ResourcesAccounted`, for any number of clients, ids, ports and
  generations, and `EntryLives` itself.
* **WakeDiscoveryProofs.** The wake server and the search share only the wire. An
  anchor holds the ac drawn with its token, so does every answer on its way, and
  a camera that goes by an answer holds its token (`WakeInv`). For the search, a
  route being confirmed holds the permit and its path is the last one told, and
  every route but the one that knocks directly asks only with the permit
  (`PermitInv`). Results: `WakeSafety` and `LastWord`.
* **BcConnectionProofs.** `OwnReply` speaks of clients, the poller's table of
  channels. The invariant bridges the two: a channel is subscribed at most once,
  in the table or in the queue, and holds messages of that one id and number
  (`TableInv`, `ChanInv`); what is entered for a client's channel was entered for
  the exchange the client is in, and the channels its later exchanges will take
  are unused (`ClientsInv`). Result: `ReplySafety`, for any number of clients and
  any planned commands.
  `NoReplyLost` is about the other direction, from a reply to its client, and needs
  three facts more (`ReachInv`). A client that waits is subscribed: its channel is in
  the table, or on its way there in the queue, ahead of every reply (`Entered`), for
  the reader appends behind what the client entered before it sent. What is under way
  under a client's number is of the exchange it is in (`Own`), since a number is given
  out again only when nothing bears it. And a channel is subscribed under the number
  it is named by (`RowsInv`), so that no second subscriber takes the place of the
  first. The hypothesis `DirectCommands` leaves out the snapshot, whose parts come
  under numbers of the camera's choice; TLC evaluates in MCBcConnection
  (`CommandsDirect`) that every other command of BcCommands is direct, and the proof
  has the same of every login.
  For Cloud (`AccountStaysSpared`), each camera's loop is an invariant of its own
  (`LoopOf`): the cache holds the last bundle minted with an expiry, one without leaves it
  alone, and the loop began to ask when that one was due; the loops share only the
  stored credentials.
  For BcCodec (`CodecStaysAgreed`), the two ends' contexts differ during a login, so that
  agreement is not inductive. The invariant names, for each step of the login, the
  one message under way and the protocol it was written under (`OfferInv`,
  `ChallengeInv`, `DeviceInv`); in the session every message reads back under the
  camera's protocol (`RequestsInv`), a media payload with a shorter encryptLen as its
  head.

Proving showed three things about the models that TLC had not. Guards of some CASE
expressions overlapped, and the specification left open which of them counts, where
TLC takes the first: they are ordered IFs now, as in the code. The battery poller's
streak of failures was typed by the bound of the run. And a message number could
come round while a reply to its last use was still under way, so that
`NoReplyLost` held by the bounds of the run alone: `NumberFree` now names this.

Only model-checked:

* everything about liveness (the `...Progress` properties, `HeldWakesWaiter`,
  `Delivery`, `FailureReported`, `EveryCommandEnds`, `SearchEnds`, `PlayStarts`,
  `EndedConnectionIsCleaned`, `HoldsEnd` and the fairness of `GateSpec`), because the
  prover has no rules for fairness and ENABLED;
* what the format modules compute (BcXml, UdpXml, UdpWire, BcMediaWire, RtpPayload,
  RtspProtocol, Config and the entities of RetainedState), because that is induction
  over data and some of them use recursive operators;
* the safety of OneShot and what CameraClock computes: both are finite as the code has them, and
  their runs visit every state of every command;
* `NoReplyLost` with snapshots. It does not hold for every value of the constants: a
  snapshot's subscription to any number becomes one to the number of the camera's
  first part, which may be that of another client's snapshot request, and the
  poller's table keeps one subscriber for an id and a number. The checked instance
  has one client that takes snapshots.

## 5. What is not modelled, and the plan

To be proved next: `NoReplyLost` when at most one client takes snapshots, the bounds
of the queues in MqttLoop as a refinement of a bounded channel, and that OneShot
leaves nothing behind.

Partly modelled:

* start-up of the services appears as what a loaded configuration permits
  (Config), not as steps; the length of the camera's backoff is left out;
* StreamRegistry and Media are not composed: the registry's readers produce no
  frames, and Media has one reader and one session;
* RetainedState starts at a broker without entities: what a start with another
  configuration left there is not covered;
* camera commands carry no field contents; the fields are in BcXml;
* characters, byte order, ciphers, sample values and header text are abstract
  values; TOML and the command line's own parsing are external;
* the preview and floodlight pollers only report, and are not steps.

Not modelled: the delegation of tokio streams and sinks
(`.../connection/{mod,tcpsource,chain}.rs`), the choice of the wake
server's local address (a system call), image drawing, time formatting and
capture files, and the scripted cameras and captured logs of the tests.
`PROJECT.json`, "components", gives the reason for each.

## 6. Running it

In this directory, with the TLA+ tools and TLAPS on the path:

```
tlc -config WakeLock.cfg GracePeriod
tlc -config CameraLifecycle.cfg CameraLifecycle
tlc -config CameraLifecycle_request.cfg CameraLifecycle     (ends with a violation)
tlc -config StreamRegistry.cfg StreamRegistry
tlc -config MqttLoop.cfg MqttLoop
tlc -config BcUdp.cfg BcUdp
tlc -config BcConnection.cfg MCBcConnection
tlc -config WakeDiscovery.cfg MCWakeDiscovery
tlc -config RtspServer.cfg RtspServer
tlc -config CameraActivity.cfg MCCameraActivity
tlc -config Media.cfg Media
tlc -config Formats.cfg MCFormats
tlapm WakeLockProofs.tla      (and the other seven proof modules)
```
