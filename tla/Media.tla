-------------------------------- MODULE Media --------------------------------
(***************************************************************************)
(* The path of the media of one stream source: the camera's BcMedia         *)
(* packets are translated (stream_translate.rs), queued for the pacers      *)
(* (stream_source.rs), broadcast, and sent by the two dispatch loops of one *)
(* RTSP session (rtsp/server/session_task.rs), which starts by replaying    *)
(* the key frame kept in the last-frame buffer (rtsp/buffer.rs).  When the  *)
(* camera falls silent, gap bridging (gap_bridging.rs) broadcasts that key  *)
(* frame again and again.                                                   *)
(*                                                                          *)
(* A video access unit is the set of the classes of its NAL units; the      *)
(* frames of the camera are numbered, and a P-frame refers to the frame     *)
(* before it.  One step of the clock is one tick of the gap detector; a     *)
(* tick is 100 microseconds of the camera's clock, so that the conversion   *)
(* to the 90 kHz clock is exact.  Audio clocks count access units.          *)
(***************************************************************************)
EXTENDS Integers, Sequences, FiniteSets

CONSTANTS
    Feeds,              \* what the camera may send, and whether gaps are bridged
    Threshold,          \* pause.gap_threshold_secs, in ticks
    VideoLatency,       \* VIDEO_PACER_INITIAL_LATENCY
    VideoMaxLead,       \* VIDEO_PACER_MAX_LEAD
    AudioLatency,       \* AUDIO_PACER_INITIAL_LATENCY
    AudioMaxLead,       \* AUDIO_PACER_MAX_LEAD
    AnomalyCap,         \* PACER_ANOMALY_CAP_TICKS
    PacerQueue,         \* VIDEO_PACER_QUEUE, AUDIO_PACER_QUEUE
    BroadcastCapacity,  \* BROADCAST_CAPACITY
    MaxPframes,         \* MAX_PFRAME_BYTES, for P-frames of one size
    MaxNow,             \* bound on the clock
    MaxPackets,         \* bound on the packets of a camera without audio
    MaxAudioPackets     \* and of one with audio

ASSUME MediaBounds ==
    /\ {Threshold, VideoLatency, VideoMaxLead, AudioLatency, AudioMaxLead,
        AnomalyCap, MaxPframes, MaxNow, MaxPackets, MaxAudioPackets} \subseteq Nat
    /\ {PacerQueue, BroadcastCapacity} \subseteq Nat \ {0}

VARIABLES
    feed,       \* the kind of camera, chosen at the start
    now,        \* the clock
    cam,        \* the camera: packets sent, number of the last video frame
    xl,         \* StreamTranslatorState
    gap,        \* BridgingPolicy
    burst,      \* the video half of LastFrameBuffer
    sdp,        \* SdpParams
    presence,   \* AudioPresence, which is the camera's and outlives the source
    warm,       \* what the warm-up at startup wrote there, "idle" before
    queue,      \* per kind: the pacer's channel
    pacer,      \* per kind: the pacer's task
    pend,       \* per dispatch loop: broadcast frames it has not received
    sess,       \* the RTSP session
    sent,       \* per kind: the last frame the session sent
    hist        \* what the properties speak of: samples, overflow, holes

mediaVars == <<feed, now, cam, xl, gap, burst, sdp, presence, warm, queue, pacer, pend,
          sess, sent, hist>>

MediaKinds == {"video", "audio"}
Unset == -1
NoFrame == [kind |-> "none"]

\* What a camera of each kind sends: access units as sets of NAL classes
\* ("vendor": Reolink's own metadata), and audio packets.
VideoUnits(f) ==
    CASE f = "plain"  -> {{"sps", "pps", "idr"}, {"slice"}}
      [] f = "gappy"  -> {{"sps", "pps", "idr"}, {"slice"}, {"vendor"}, {"sps", "pps"}}
      [] f = "audio"  -> {{"sps", "pps", "idr"}}
AudioUnits(f) ==
    IF f # "audio" THEN {}
    ELSE {"aac", "aac_aot", "aac_bad", "adpcm"}

Bridges == feed # "plain"        \* pause.bridge_gaps

-----------------------------------------------------------------------------
(* Translation.                                                             *)

micros_to_90khz(us) == (us * 9) \div 100
Pts(t) == micros_to_90khz(100 * t)

is_decodable_nal(n) == n # "vendor"
is_parameter_set_nal(n) == n \in {"sps", "pps"}

\* The NAL units of an access unit that the last-frame buffer can replay.
extract_iframe_parts(nals) == nals \cap {"idr"}

\* How long the pacer holds the frame that follows this one: the distance to
\* the previous frame, none when that is not plausible.
video_frame_duration(pts) ==
    LET delta == pts - xl.lastPts
    IN  IF xl.lastPts = Unset \/ delta < 0 \/ delta > AnomalyCap THEN 0 ELSE delta \div 9

\* What an audio packet yields: its codec, whether its header parses, and how
\* many samples it advances the clock by (0: the object type is unsupported).
Adpcm == [codec |-> "G711", parses |-> TRUE, step |-> 2]
AudioOf(p) ==
    CASE p = "aac"       -> [codec |-> "Aac",  parses |-> TRUE,  step |-> 1]
      [] p = "aac_aot"   -> [codec |-> "Aac",  parses |-> TRUE,  step |-> 0]
      [] p = "aac_bad"   -> [codec |-> "Aac",  parses |-> FALSE, step |-> 0]
      [] p = "adpcm"     -> Adpcm

\* first observation wins
observed(codec) == IF presence = "Present" THEN presence ELSE "Present"

-----------------------------------------------------------------------------
(* The last-frame buffer.                                                   *)

NoBurst == [id |-> Unset, nals |-> {}, pts |-> Unset, pframes |-> <<>>]

append_pframe(id) ==
    IF burst = NoBurst THEN burst
    ELSE LET all == Append(burst.pframes, id)
         IN  [burst EXCEPT !.pframes =
                 IF Len(all) > MaxPframes
                 THEN SubSeq(all, Len(all) - MaxPframes + 1, Len(all)) ELSE all]

-----------------------------------------------------------------------------
(* Broadcast and pacing.                                                    *)

\* tokio's broadcast channel: a receiver that falls a whole buffer behind
\* loses the oldest frame and is told so at its next receive.
BroadcastTo(p, frame) ==
    IF ~p.on THEN p
    ELSE IF Len(p.frames) = BroadcastCapacity
    THEN [p EXCEPT !.frames = Append(Tail(@), frame), !.lagged = TRUE]
    ELSE [p EXCEPT !.frames = Append(@, frame)]
Broadcast(frame) == pend' = [k \in MediaKinds |-> BroadcastTo(pend[k], frame)]

\* dispatch_paced_video and dispatch_paced_audio: a full queue drops the frame.
DispatchPaced(k, frame, duration) ==
    IF Len(queue[k]) = PacerQueue
    THEN hist' = [hist EXCEPT !.overflow = TRUE] /\ UNCHANGED queue
    ELSE /\ queue' = [queue EXCEPT ![k] = Append(@, [frame |-> frame, duration |-> duration])]
         /\ UNCHANGED hist

next_target(cursor, max_lead, initial_latency, snap_on_past) ==
    IF cursor = Unset THEN now + initial_latency
    ELSE IF cursor > now + max_lead \/ (snap_on_past /\ cursor < now) THEN now
    ELSE cursor

Target(k) ==
    IF k = "video" THEN next_target(pacer[k].cursor, VideoMaxLead, VideoLatency, FALSE)
    ELSE next_target(pacer[k].cursor, AudioMaxLead, AudioLatency, TRUE)

PacerTakes(k) ==
    /\ pacer[k].item = NoFrame
    /\ queue[k] # <<>>
    /\ pacer' = [pacer EXCEPT ![k].item = Head(queue[k]), ![k].target = Target(k)]
    /\ queue' = [queue EXCEPT ![k] = Tail(@)]
    /\ UNCHANGED <<feed, now, cam, xl, gap, burst, sdp, presence, warm, pend, sess, sent, hist>>

PacerSends(k) ==
    /\ pacer[k].item # NoFrame
    /\ pacer[k].target <= now
    /\ Broadcast(pacer[k].item.frame)
    /\ pacer' = [pacer EXCEPT ![k] = [item |-> NoFrame, target |-> 0,
                                      cursor |-> @.target + @.item.duration]]
    /\ UNCHANGED <<feed, now, cam, xl, gap, burst, sdp, presence, warm, queue, sess, sent, hist>>

-----------------------------------------------------------------------------
(* The reader: one packet of the camera, processed to the end.              *)

NewPolicy(t) == [state |-> "Live", upstream |-> t, pts |-> Unset, at |-> t]
on_broadcast(g, pts) == [g EXCEPT !.state = "Live", !.pts = pts, !.at = now]
on_upstream_packet(g) == [g EXCEPT !.upstream = now]

Iframe(unit) ==
    LET nals   == {n \in unit : is_decodable_nal(n)}
        slices == {n \in nals : ~is_parameter_set_nal(n)}
        id     == cam.frames + 1
        pts    == Pts(now)
        frame  == [kind |-> "video", id |-> id, key |-> TRUE, live |-> TRUE, pts |-> pts]
    IN  /\ "idr" \in unit \/ "sps" \in unit
        /\ cam' = [packets |-> cam.packets + 1,
                   frames |-> IF "idr" \in unit THEN id ELSE cam.frames]
        /\ sdp' = IF {"sps", "pps"} \subseteq nals THEN [sdp EXCEPT !.video = TRUE] ELSE sdp
        /\ burst' = [id |-> id, nals |-> extract_iframe_parts(nals), pts |-> pts, pframes |-> <<>>]
        /\ IF slices # {}
           THEN /\ DispatchPaced("video", frame, video_frame_duration(pts))
                /\ xl' = [xl EXCEPT !.codec = TRUE, !.lastPts = pts]
                /\ gap' = on_broadcast(on_upstream_packet(gap), pts)
           ELSE /\ xl' = [xl EXCEPT !.codec = TRUE]
                /\ gap' = on_upstream_packet(gap)
                /\ UNCHANGED <<queue, hist>>
        /\ UNCHANGED presence

Pframe(unit) ==
    LET nals  == {n \in unit : is_decodable_nal(n)}
        id    == cam.frames + 1
        pts   == Pts(now)
        frame == [kind |-> "video", id |-> id, key |-> FALSE, live |-> TRUE, pts |-> pts]
    IN  /\ unit \cap {"idr", "sps"} = {}
        /\ cam' = [packets |-> cam.packets + 1,
                   frames |-> IF "slice" \in unit THEN id ELSE cam.frames]
        /\ IF ~xl.codec \/ nals = {}
           THEN gap' = on_upstream_packet(gap) /\ UNCHANGED <<xl, burst, queue, hist>>
           ELSE /\ burst' = append_pframe(id)
                /\ DispatchPaced("video", frame, video_frame_duration(pts))
                /\ xl' = [xl EXCEPT !.lastPts = pts]
                /\ gap' = on_broadcast(on_upstream_packet(gap), pts)
        /\ UNCHANGED <<sdp, presence>>

\* Defect: a packet dropped while bridging does not advance the clock.
AudioStateLate(a) ==
    IF gap.state = "Bridging" THEN [xl EXCEPT !.sdpAudio = TRUE]
    ELSE [xl EXCEPT !.sdpAudio = TRUE, !.pts[a.codec] = @ + a.step]

\* The clock of the codec advances also for a packet bridging will drop.
AudioState(a) == [xl EXCEPT !.sdpAudio = TRUE, !.pts[a.codec] = @ + a.step]

\* Defect: the first packet marks the camera as having audio.
AudioSeenEarly(a) == observed(a.codec)

\* Emit::AudioSeen follows an audio frame: a dropped packet leaves it alone.
AudioSeen(a) ==
    IF a.parses /\ a.step > 0 /\ gap.state # "Bridging" THEN observed(a.codec) ELSE presence

AudioPacket(p) ==
    LET a     == AudioOf(p)
        frame == [kind |-> "audio", codec |-> a.codec, pts |-> xl.pts[a.codec],
                  due |-> hist.samples[a.codec]]
        emits == a.parses /\ a.step > 0 /\ gap.state # "Bridging"
    IN  /\ cam' = [cam EXCEPT !.packets = @ + 1]
        /\ xl' = IF a.parses THEN AudioState(a) ELSE xl
        /\ sdp' = IF a.parses /\ ~xl.sdpAudio /\ sdp.audio = "none"
                  THEN [sdp EXCEPT !.audio = a.codec] ELSE sdp
        /\ presence' = AudioSeen(a)
        /\ IF emits /\ Len(queue["audio"]) < PacerQueue
           THEN queue' = [queue EXCEPT !["audio"] =
                             Append(@, [frame |-> frame, duration |-> a.step])]
           ELSE UNCHANGED queue
        /\ hist' = [hist EXCEPT !.samples[a.codec] = @ + a.step]
        /\ UNCHANGED <<gap, burst>>

Packet ==
    /\ cam.packets < IF AudioUnits(feed) = {} THEN MaxPackets ELSE MaxAudioPackets
    /\ \/ \E unit \in VideoUnits(feed) : Iframe(unit)
       \/ \E unit \in VideoUnits(feed) : Pframe(unit)
       \/ \E p \in AudioUnits(feed) : AudioPacket(p)
    /\ UNCHANGED <<feed, now, warm, pacer, pend, sess, sent>>

-----------------------------------------------------------------------------
(* The clock and the gap detector (tick_bridging, on_tick).                 *)

\* A gap opens when the camera was silent for longer than the threshold.
on_tick(g, t) ==
    IF Bridges /\ t - g.upstream > Threshold THEN [g EXCEPT !.state = "Bridging"] ELSE g

\* The timestamp of a replay goes on from the last broadcast by the time since;
\* the first one of a source that has broadcast nothing is the frame's own.
advance_replay_pts(g, anchor, t) == IF g.pts = Unset THEN anchor ELSE g.pts + Pts(t - g.at)

Tick ==
    LET t == now + 1
        g == on_tick(gap, t)
        replays == g.state = "Bridging" /\ burst.nals # {}
        synth == advance_replay_pts(g, burst.pts, t)
    IN  /\ now < MaxNow
        /\ \A k \in MediaKinds :     \* the pacers' timers are served before the next tick
              /\ pacer[k].item # NoFrame => pacer[k].target > now
              /\ pacer[k].item = NoFrame => queue[k] = <<>>
        /\ now' = t
        /\ IF replays
           THEN /\ gap' = [g EXCEPT !.pts = synth, !.at = t]
                /\ Broadcast([kind |-> "video", id |-> burst.id, key |-> TRUE,
                              live |-> FALSE, pts |-> synth])
           ELSE gap' = g /\ UNCHANGED pend
        /\ UNCHANGED <<feed, cam, xl, burst, sdp, presence, warm, queue, pacer, sess, sent, hist>>

-----------------------------------------------------------------------------
(* The warm-up of the camera at startup (startup_wake.rs, warm_one): once     *)
(* there is a key frame it looks for audio in the SDP of this source, until   *)
(* its window closes or the relay shuts down, and writes what it saw.         *)

WarmCommits ==
    /\ warm = "idle"
    /\ burst # NoBurst
    /\ \E seen \in {"none", sdp.audio} :
          warm' = IF seen = "none" THEN "Absent" ELSE "Present"
    /\ presence' = warm'
    /\ UNCHANGED <<feed, now, cam, xl, gap, burst, sdp, queue, pacer, pend, sess, sent, hist>>

-----------------------------------------------------------------------------
(* The session: subscribed at its first SETUP, its two dispatch loops start  *)
(* at PLAY.  A client sets up the tracks of the SDP it was given: video, and *)
(* audio, before or after PLAY, once that is known.                          *)

\* CameraProvider::subscribe looks at presence once, before it waits for the SDP
\* (the bonus window of a camera not yet known is a delay and decides nothing).
classify_presence ==
    /\ sess.phase = "none"
    /\ sess' = [sess EXCEPT !.phase = "waiting", !.wait = presence = "Present"]
    /\ UNCHANGED <<feed, now, cam, xl, gap, burst, sdp, presence, warm, queue, pacer, pend,
                   sent, hist>>

\* await_sdp_ready, or await_sdp_both of a camera that has audio
SdpReady == sdp.video /\ (sess.wait => sdp.audio # "none")

\* The SDP did not come in time: 503, and the client asks again.
SdpTimesOut ==
    /\ sess.phase = "waiting"
    /\ ~SdpReady
    /\ sess' = [sess EXCEPT !.phase = "none", !.wait = FALSE]
    /\ UNCHANGED <<feed, now, cam, xl, gap, burst, sdp, presence, warm, queue, pacer, pend,
                   sent, hist>>

Offered(k) == k = "video" \/ sdp.audio # "none"

Setup(k) ==
    /\ sess.phase = "waiting"
    /\ SdpReady
    /\ Offered(k)
    /\ sess' = [sess EXCEPT !.phase = "setup", !.wait = FALSE, !.tracks = {k}]
    /\ pend' = [pend EXCEPT !["video"].on = TRUE]
    /\ UNCHANGED <<feed, now, cam, xl, gap, burst, sdp, presence, warm, queue, pacer, sent, hist>>

\* A further SETUP of the session: the dispatch loops find the track when they
\* next look for it.
append_track(k) ==
    /\ sess.phase \in {"setup", "playing", "live"}
    /\ Offered(k)
    /\ k \notin sess.tracks
    /\ sess' = [sess EXCEPT !.tracks = @ \union {k}]
    /\ UNCHANGED <<feed, now, cam, xl, gap, burst, sdp, presence, warm, queue, pacer, pend, sent, hist>>

Play ==
    /\ sess.phase = "setup"
    /\ sess' = [sess EXCEPT !.phase = "playing"]
    /\ pend' = [pend EXCEPT !["audio"].on = TRUE]
    /\ UNCHANGED <<feed, now, cam, xl, gap, burst, sdp, presence, warm, queue, pacer, sent, hist>>

\* Whether the session has a track of this kind by now.
build_runtime_for_kind(k) == k \in sess.tracks

\* replay_burst on the video track, if there is one and its first packet goes
\* out; the gate for live frames is armed when something was sent.
ReplayBurst(goes) ==
    /\ sess.phase = "playing"
    /\ goes => build_runtime_for_kind("video") /\ burst.nals # {}
    /\ sess' = [sess EXCEPT !.phase = "live", !.awaiting = goes]
    /\ sent' = IF ~goes THEN sent
               ELSE [sent EXCEPT !["video"] = [kind |-> "video", id |-> burst.id,
                        key |-> TRUE, live |-> FALSE, pts |-> burst.pts]]
    /\ UNCHANGED <<feed, now, cam, xl, gap, burst, sdp, presence, warm, queue, pacer, pend, hist>>

\* A live frame is out of place when the session did not just send its
\* predecessor; a key frame may follow a replayed one.
Hole(frame) ==
    /\ sent["video"] # NoFrame
    /\ frame.live
    /\ ~(frame.key /\ ~sent["video"].live)
    /\ frame.id # sent["video"].id + 1

\* Defect: a receiver that lagged goes on with the frames it still has.
LagEndsNothing(k) == FALSE

\* RecvError::Lagged ends the loop, and with it the session.
LagEnds(k) == pend[k].lagged

\* Defect: after the replay any live frame is forwarded.
SuppressedNever(frame) == FALSE

\* After a replay live P-frames wait for a key frame.
Suppressed(frame) == sess.awaiting /\ ~frame.key

\* The frame the loop would send next: a frame of its kind, for a track that is
\* there, that is not suppressed.
Takes(k) ==
    IF \/ pend[k].frames = <<>> \/ LagEnds(k)
       \/ Head(pend[k].frames).kind # k
       \/ ~build_runtime_for_kind(k)
       \/ (k = "video" /\ Suppressed(Head(pend[k].frames)))
    THEN NoFrame
    ELSE Head(pend[k].frames)

\* The first video frame of the loop is noted for the RTP-Info header of the
\* answer to PLAY.
dispatch_one(k) ==
    IF k = "video" THEN [sess EXCEPT !.info = TRUE] ELSE sess

\* The end of the session: the transports of all its tracks are closed.
close_all == [sess EXCEPT !.phase = "ended", !.tracks = {}]

End(k) ==
    /\ sess.phase = "live"
    /\ \/ LagEnds(k)
       \/ Takes(k) # NoFrame     \* its packets could not be sent
    /\ sess' = close_all
    /\ pend' = [j \in MediaKinds |-> [on |-> FALSE, frames |-> <<>>, lagged |-> FALSE]]
    /\ UNCHANGED <<feed, now, cam, xl, gap, burst, sdp, presence, warm, queue, pacer, sent, hist>>

VideoLoop ==
    /\ sess.phase = "live"
    /\ pend["video"].frames # <<>>
    /\ ~LagEnds("video")
    /\ pend' = [pend EXCEPT !["video"].frames = Tail(@)]
    /\ LET frame == Takes("video")
       IN  IF frame = NoFrame THEN UNCHANGED <<sess, sent, hist>>
           ELSE /\ sess' = [dispatch_one("video") EXCEPT !.awaiting = FALSE]
                /\ sent' = [sent EXCEPT !["video"] = frame]
                /\ hist' = [hist EXCEPT
                      !.hole = @ \/ Hole(frame),
                      !.back = @ \/ (sent["video"] # NoFrame /\ frame.pts < sent["video"].pts),
                      !.late = @ \/ (~sess.info /\ sent["video"] # NoFrame)]
    /\ UNCHANGED <<feed, now, cam, xl, gap, burst, sdp, presence, warm, queue, pacer>>

AudioLoop ==
    /\ sess.phase = "live"
    /\ pend["audio"].frames # <<>>
    /\ ~LagEnds("audio")
    /\ pend' = [pend EXCEPT !["audio"].frames = Tail(@)]
    /\ LET frame == Takes("audio")
       IN  sent' = IF frame # NoFrame THEN [sent EXCEPT !["audio"] = frame] ELSE sent
    /\ UNCHANGED <<feed, now, cam, xl, gap, burst, sdp, presence, warm, queue, pacer, sess, hist>>

-----------------------------------------------------------------------------
MediaInit ==
    /\ feed \in Feeds
    /\ now = 0
    /\ cam = [packets |-> 0, frames |-> 0]
    /\ xl = [codec |-> FALSE, lastPts |-> Unset, sdpAudio |-> FALSE,
             pts |-> [c \in {"Aac", "G711"} |-> 0]]
    /\ gap = NewPolicy(0)
    /\ burst = NoBurst
    /\ sdp = [video |-> FALSE, audio |-> "none"]
    \* another source of the camera may have found its audio before this one starts
    \* (of a camera without audio, Unknown and Absent lead to the same steps)
    /\ presence \in IF AudioUnits(feed) = {} THEN {"Unknown"} ELSE {"Unknown", "Absent", "Present"}
    /\ warm = "idle"
    /\ queue = [k \in MediaKinds |-> <<>>]
    /\ pacer = [k \in MediaKinds |-> [item |-> NoFrame, target |-> 0, cursor |-> Unset]]
    /\ pend = [k \in MediaKinds |-> [on |-> FALSE, frames |-> <<>>, lagged |-> FALSE]]
    /\ sess = [phase |-> "none", wait |-> FALSE, awaiting |-> FALSE, tracks |-> {}, info |-> FALSE]
    /\ sent = [k \in MediaKinds |-> NoFrame]
    /\ hist = [samples |-> [c \in {"Aac", "G711"} |-> 0], overflow |-> FALSE,
               hole |-> FALSE, back |-> FALSE, late |-> FALSE,
               known |-> presence = "Present"]

MediaNext ==
    \/ Packet
    \/ Tick
    \/ \E k \in MediaKinds : PacerTakes(k) \/ PacerSends(k)
    \/ WarmCommits
    \/ classify_presence
    \/ SdpTimesOut
    \/ \E k \in MediaKinds : Setup(k) \/ append_track(k)
    \/ Play
    \/ \E goes \in BOOLEAN : ReplayBurst(goes)
    \/ VideoLoop
    \/ AudioLoop
    \/ \E k \in MediaKinds : End(k)

MediaSpec == MediaInit /\ [][MediaNext]_mediaVars

-----------------------------------------------------------------------------
(* Properties.                                                              *)

\* A session whose camera's gaps are not bridged sends an unbroken run of the
\* camera's frames: from its first live frame on none is skipped, so no P-frame
\* is sent without the frame it refers to, unless the pacer's queue overflowed.
\* A replayed burst, the frames buffered before PLAY and a receiver that lags
\* are what could break it (session_task.rs, video_dispatch_loop).
StreamWhole == (feed = "plain" /\ ~hist.overflow) => ~hist.hole

\* The timestamp of an audio frame counts the samples the camera produced
\* before it, also those of packets dropped while a gap was bridged, so sound
\* and picture line up again afterwards (stream_translate.rs, translate_aac).
AudioClock == sent["audio"] # NoFrame => sent["audio"].pts = sent["audio"].due

\* A source marks its camera as having audio only when its own SDP describes it
\* (stream_source.rs, apply_bcmedia_packet), and a client of a camera whose
\* audio another source has found gets no SDP without it: it waits for this
\* source to describe audio (camera_provider.rs, subscribe), unless the warm-up
\* has written over what was known.
PresenceHasSdp ==
    /\ presence = "Present" => hist.known \/ sdp.audio # "none"
    /\ hist.known /\ warm # "Absent" /\ sess.phase \notin {"none", "waiting"}
         => sdp.audio # "none"

\* audio_presence.rs says that "`Present` never downgrades".  It fails: warm_one
\* writes Absent whatever another source has found in the meantime, when this
\* source saw no audio in its window or the relay is shutting down.
PresenceKept == hist.known => presence = "Present"

\* The timestamps a session sends never step back: session_task.rs says that the
\* replayed burst is continuous with the live frames that follow it.  It fails:
\* the burst is recorded when a key frame is translated, the live frames come
\* a pacer's latency later, so the first live key frame can be an older one.
PtsForward == ~hist.back

\* RTP-Info names the first video packet of the session: registry.rs says of the
\* slot "of the first RTP packet sent on the session's video track".  It fails:
\* the packets of a replayed burst go out first and leave the slot alone, so a
\* client is told the numbers of a packet it receives later.
RtpInfoIsFirst == ~hist.late
=============================================================================
