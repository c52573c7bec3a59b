----------------------------- MODULE MCFormats ------------------------------
(***************************************************************************)
(* The formats and tables of the relay, one topic per initial state: the   *)
(* pure ones are evaluated there, the four with a state of their own       *)
(* (codec, retained entities, cloud account, one-shot commands) run from   *)
(* there on their own.                                                     *)
(***************************************************************************)
EXTENDS Integers, Sequences, BcCodec, RetainedState, Cloud

VARIABLES
    topic,
    cmd, phase, todo, outcome, preview, session, touched    \* OneShot

Shot == INSTANCE OneShot
Xml == INSTANCE UdpXml
Wire == INSTANCE BcMediaWire
Rtp == INSTANCE RtpPayload
Udp == INSTANCE UdpWire
Rtsp == INSTANCE RtspProtocol
Cfg == INSTANCE Config
Clock == INSTANCE CameraClock

oneShotVars == <<cmd, phase, todo, outcome, preview, session, touched>>
vars == <<topic, codecVars, retainedVars, cloudVars, oneShotVars>>

PureTopics == {"xml", "media", "rtp", "datagram", "rtsp", "config", "entities", "clock",
               "commands"}

Battery == [name |-> "battery", action |-> "none"]

Init ==
    /\ topic \in PureTopics \union {"codec", "retained", "cloud", "oneshot"}
    /\ CodecInit /\ (topic # "codec" => flow = "password")
    /\ RetainedInit
    /\ CloudInit
    /\ Shot!OneShotInit /\ (topic # "oneshot" => cmd = Battery)

CodecStep ==
    topic = "codec" /\ CodecNext /\ UNCHANGED <<topic, retainedVars, cloudVars, oneShotVars>>
RetainedStep ==
    topic = "retained" /\ RetainedNext /\ UNCHANGED <<topic, codecVars, cloudVars, oneShotVars>>
CloudStep ==
    topic = "cloud" /\ CloudNext /\ UNCHANGED <<topic, codecVars, retainedVars, oneShotVars>>
OneShotStep ==
    topic = "oneshot" /\ Shot!OneShotNext /\ UNCHANGED <<topic, codecVars, retainedVars, cloudVars>>

Next == CodecStep \/ RetainedStep \/ CloudStep \/ OneShotStep

Spec == Init /\ [][Next]_vars

-----------------------------------------------------------------------------
\* What Home Assistant is told of an entity is what the relay understands and
\* publishes (discovery/mod.rs and control.rs, see RetainedState).
EntitiesWork == topic = "entities" => EntitiesUnderstood

\* A one-shot command tries to end its session whatever failed and leaves no
\* preview behind but by a failure of its own (runner.rs and capture.rs, see
\* OneShot); every command line is taken by one part of the
\* program, and an omitted action only reads (cli.rs and cli_convert.rs, see
\* CommandLine).
CommandsSound ==
    /\ topic = "oneshot" => Shot!LeavesNothing
    /\ topic = "commands" => Shot!CommandsRouted

\* The daylight saving a camera adds by itself is the one set_time allows for,
\* and then the camera shows the host's time (bc_protocol/time.rs, see
\* CameraClock; what is shown outside the daylight-saving window is not claimed).
DaylightCompensated == topic = "clock" => Clock!DaylightCompensated

\* Whatever validate_config accepts the service can start with and reach its
\* cameras by, unless it has one of the faults validation does not look for
\* (config.rs, hassio/, see Overlooked in Config).
ConfigUsable == topic = "config" => Cfg!LoadedIsUsable

-----------------------------------------------------------------------------
\* D2C_CFM comes from the camera alone
Written(elements) == DOMAIN elements \ (Xml!OnlyReceived \union {"D2cCfm"})

\* An empty list and a missing one are the same document
Same(v, w) == v = w \/ {v, w} = {"nil", "none"}

\* An element the relay writes reads back field by field; a Baichuan element
\* whose fields the camera's firmware leaves out still reads (an XML error
\* would end the connection); an Option field the camera left out is not written
\* back, so that set_time's read, change and write adds nothing to the general
\* settings but the version it sets (time.rs 234-243); and the line breaks of a
\* certificate reach the camera (bc/xml.rs, bcudp/xml.rs, login.rs).  Of the other
\* settings that are read and written back (FloodlightTask, LedState, RfAlarmCfg,
\* the ports) no such thing is said: their plain fields go back with defaults the
\* camera did not send.
XmlReadsBack ==
    /\ \A elements \in {Xml!BcElements, Xml!UdpElements} :
         \A n \in Written(elements) :
           \A f \in Xml!Fields(elements[n]) :
             \A v \in Xml!Values(f[1]) : Same(v, Xml!Read(f[1], Xml!Write(f[1], v)))
    /\ \A n \in DOMAIN Xml!BcElements \ Xml!OnlySent :
         \A f \in Xml!Fields(Xml!BcElements[n]) : Xml!Read(f[1], "absent") # "error"
    /\ \A n \in DOMAIN Xml!BcElements \ (Xml!OnlySent \union Xml!OnlyReceived) :
         \A f \in Xml!Fields(Xml!BcElements[n]) :
           Xml!Read(f[1], "absent") = "none" => Xml!Write(f[1], "none") = "absent"
    /\ Xml!Invented(Xml!BcElements["SystemGeneral"]) = {"@version"}
    /\ \A c \in {"LF", "CR", "letter"} :
         /\ Xml!CameraReads(Xml!encode_certchain_newlines("certChain", c))
              = IF c = "letter" THEN c ELSE "newline"
         /\ Xml!CameraReads(Xml!encode_certchain_newlines("userName", c)) # "newline"

\* What one side writes the other reads as it was meant: the XML above, and the
\* datagrams of BcUdp (bcudp/{ser,de}.rs, see UdpWire).
WrittenReadsBack ==
    /\ topic = "xml" => XmlReadsBack
    /\ topic = "datagram" => Udp!DatagramsReadBack

-----------------------------------------------------------------------------
MediaFrames ==
    {Wire!Frame("InfoV1", 0, 0), Wire!Frame("InfoV2", 0, 0)}
      \union {Wire!Frame(k, d, x) : k \in {"Iframe", "Pframe"}, d \in {1, 8, 13}, x \in {0, 8}}
      \union {Wire!Frame(k, d, 0) : k \in {"Aac", "Adpcm"}, d \in {4, 8, 13}}

FrameLists == UNION {[1..n -> MediaFrames] : n \in 1..2}
Triples == [1..3 -> {Wire!Frame("InfoV1", 0, 0), Wire!Frame("Iframe", 1, 0),
                     Wire!Frame("Aac", 13, 0)}]

\* However the payloads of a stream cut it, every frame of the camera comes out
\* once and in order; after a loss a decoder that is not strict picks up with
\* the next payload that starts with a frame, or one payload later when the
\* bytes before it were too few to hold a magic: those stay in the buffer and
\* the payload that starts with a frame is dropped with them; and what
\* serialize writes the parser reads, ADPCM excepted
\* (bcmedia/{ser,de,codex}.rs).
MediaReframes == topic = "media" =>
    /\ \A frames \in FrameLists :
         LET wire == Wire!WireOf(frames)
             total == Wire!Total(wire)
         IN  /\ \A strict \in BOOLEAN, cut \in 0..total :
                  Wire!DecodePayloads(frames, wire, strict, 0, <<cut, total>>)
                    = [pos |-> total, out |-> Wire!From(frames, 1), err |-> FALSE]
             /\ \A i \in DOMAIN frames :
                  frames[i].kind # "Adpcm" => Wire!serialize(frames[i]) = Wire!Reads(frames[i])
    /\ \A frames \in Triples, j \in 2..3 :
         \A lost \in 1..(Wire!WireOf(frames)[1] - 1) :
           Wire!AfterLoss(frames, lost, j)
             = Wire!From(frames, IF Wire!Left(frames, lost, j) < Wire!MAGIC_LEN THEN j + 1 ELSE j)

-----------------------------------------------------------------------------
\* Lengths at the edges of a packet and of a fragment, for both codecs
Lengths == {2, 1388, 1389, 2772, 2773, 2774}
Units == {<<2>>, <<1>>, <<2, 0, 2>>, <<2, 0, 0, 2>>, <<2, 1>>}
StartCodes == {<<0, 0, 1>>, <<0, 0, 0, 1>>}
Joined(us, cs) == IF Len(us) = 1 THEN cs[1] \o us[1] ELSE cs[1] \o us[1] \o cs[2] \o us[2]
Abs(n) == IF n < 0 THEN -n ELSE n

\* A receiver gets back every unit of an access unit, in packets that fit the
\* MTU and count on through the wrap of the sequence number, with the marker
\* on the last and on no other (packetizer.rs, h264.rs, h265.rs); the units of
\* an Annex B buffer are found and the codec told by its parameter sets
\* (nal.rs; an H.264 one with nal_ref_idc 2 is taken for H.265); the length and the configuration of AAC survive (aac.rs); u-law is
\* within half a step of the sample and ADPCM and resampling stay in range
\* (g711.rs, adpcm.rs, resample.rs); and an NTP difference borrows (rtcp.rs).
RtpReassembles == topic = "rtp" =>
    /\ \A codec \in {"H264", "H265"}, nals \in UNION {[1..n -> Lengths] : n \in 1..2},
          ends \in BOOLEAN, seq \in {0, 65534, 65535} :
         LET ps == Rtp!dispatch(codec, nals, ends, seq)
         IN  /\ Rtp!Reassemble(codec, ps) = [ok |-> TRUE, at |-> 0, out |-> nals]
             /\ Rtp!InSequence(ps, seq)
             /\ \A k \in DOMAIN ps : /\ ps[k].size <= Rtp!DEFAULT_MTU /\ ps[k].from < ps[k].to
                                     /\ ps[k].marker = (ends /\ k = Len(ps))
    /\ \A n \in 1..2 : \A us \in [1..n -> Units], cs \in [1..n -> StartCodes] :
         Rtp!split_annex_b(Joined(us, cs)) = us
    /\ \A ref \in {0, 1, 3}, type \in {7, 8} : Rtp!detect_codec(32 * ref + type, 1) = "H264"
    /\ \A type \in 32..34, tid \in 1..7 : Rtp!detect_codec(2 * type, tid) = "H265"
    /\ \A length \in 7..8191 :
         Rtp!AuLength(Rtp!AuHeader(length - Rtp!ADTS_HEADER_LEN)) = length - Rtp!ADTS_HEADER_LEN
    /\ \A profile \in 0..3, index \in 0..15, channels \in 1..7 :
         LET h == Rtp!parse_adts(TRUE, profile, index, channels, 100, 0)
         IN  h # Rtp!NoAdts =>
               Rtp!build_audio_specific_config(h.aot, h.sample_rate, h.channels)
                 = (profile + 1) * 2048 + index * 128 + channels * 8
    /\ \A pcm \in {131 * k : k \in -250..250} \union {-32768, 32767} :
         LET u == Rtp!encode_sample(pcm)
         IN  Abs(Rtp!decode_sample(u) - Rtp!Clamp(pcm, -Rtp!CLIP, Rtp!CLIP)) <= 2^(u.exp + 2)
    /\ \A predictor \in {-32768, -5, 32767}, index \in {0, 40, 88}, a, b, c \in {0, 7, 8, 15} :
         LET pcm == Rtp!decode_block(predictor, index, <<a, b, c, a>>)
             half == Rtp!decimate_16_to_8(pcm)
         IN  /\ Len(pcm) = 5 /\ \A i \in 1..5 : pcm[i] \in -32768..32767
             /\ \A i \in DOMAIN half : /\ half[i] >= Rtp!Low(pcm[2 * i - 1], pcm[2 * i])
                                       /\ half[i] <= Rtp!High(pcm[2 * i - 1], pcm[2 * i])
    /\ \A sec, dsec \in {0, 1, 7, 15}, frac, dfrac \in 0..(Rtp!FRACTIONS - 1) :
         LET d == Rtp!ntp_minus(sec, frac, dsec, dfrac)
             whole == Rtp!FRACTIONS * Rtp!SECONDS
         IN  (d.sec * Rtp!FRACTIONS + d.frac + dsec * Rtp!FRACTIONS + dfrac) % whole
               = sec * Rtp!FRACTIONS + frac

-----------------------------------------------------------------------------
Permitted == [camera \in {"cam", "den"} |-> IF camera = "cam" THEN {"a"} ELSE {}]
Passwords == [u \in {"a", "b"} |-> u]
Path(camera) == <<"", camera, "sub">>
Headers(camera) ==
    {Rtsp!Absent, Rtsp!Garbled} \union {Rtsp!Basic(n, p) : n, p \in {"a", "b", "c"}}
      \union {Rtsp!Digest(n, p, m, Path(camera), 0) :
                n, p \in {"a", "b", "c"}, m \in {"DESCRIBE", "SETUP"}}
Reply(method, camera, header, is_tls, age) ==
    Rtsp!Answer(method, Rtsp!Uri("none", Path(camera)), header, "UdpUnicast", is_tls,
                Passwords, 0, age, Permitted, {"Main", "Sub"})

\* Pipelined requests are all taken, every track of a description can be set
\* up, and exactly the users get in (see RtspProtocol); a camera with an allow
\* list is served to nobody else; and who does not get in cannot tell which
\* cameras there are (connection.rs, auth.rs, camera_provider.rs).
RequestsAnswered == topic = "rtsp" =>
    /\ Rtsp!RequestsTaken
    /\ Rtsp!TracksResolve
    /\ Rtsp!OnlyUsersEnter
    /\ \A method \in {"DESCRIBE", "SETUP"}, camera \in {"cam", "den", "ghost"},
          is_tls \in BOOLEAN, age \in 0..2 :
         \A header \in Headers(camera) :
           LET reply == Reply(method, camera, header, is_tls, age)
           IN  /\ reply.status = "Ok" =>
                    /\ header.scheme # "none" /\ header.name \in {"a", "b"}
                    /\ reply.serves.camera = camera
                    /\ Permitted[camera] # {} => header.name \in Permitted[camera]
               /\ reply.status = "NotFound" => header.scheme # "none" /\ header.name \in {"a", "b"}

-----------------------------------------------------------------------------
(* Statements of the repository that its code does not keep: each is       *)
(* violated (README, 3).                                                   *)

\* codex.rs:78: bytes that are no frame are dropped with their payload, and the
\* decoder waits for "a packet that starts with magic", so it reads the first
\* one that does.  Fewer than four such bytes are not dropped, and the payload
\* after them is.
ResumesAtMagic == topic = "media" =>
    \A frames \in Triples : \A lost \in 1..(Wire!WireOf(frames)[1] - 1) :
      Wire!AfterLoss(frames, lost, 2) = Wire!From(frames, 2)

\* What set_time writes the camera turns back into the time it was given
\* (time.rs:220-222).
DisplayLandsOnTimestamp == topic = "clock" => Clock!SetTimeLands

\* No accepted duration panics later (config.rs:1342-1346).
NoLatePanic == topic = "config" => Cfg!DurationsRefused

\* A camera with an address can be reached (hassio/bairelay/DOCS.md:29).
AddressedIsReachable == topic = "config" => Cfg!AddressReaches

\* What the add-on's overlay sets at the top level is in the result
\* (merge.rs:148-149).
OverlayTaken == topic = "config" => Cfg!OverlayWins

=============================================================================
