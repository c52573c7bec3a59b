----------------------------- MODULE RtpPayload -----------------------------
(***************************************************************************)
(* From an access unit to RTP packets: src/rtsp/rtp.rs,                    *)
(* server/{packetizer,rtcp}.rs, codec/{nal,h264,h265,aac,g711}.rs and      *)
(* transcode/{adpcm,resample}.rs.  A NAL unit is its length (and, where    *)
(* the codec is guessed from it, its first two bytes); a packet is its     *)
(* sequence number, its marker and the bytes of the unit it carries.       *)
(***************************************************************************)
EXTENDS Integers, Sequences, SequencesExt

DEFAULT_MTU == 1400
RTP_HEADER == 12
SEQ == 65536                      \* sequence numbers are 16 bits wide

\* RtpCounters::next_seq
next_seq(seq) == (seq + 1) % SEQ

\* build_packet: size is that of the datagram
Packet(seq, marker, nal, from, to, start, end, size) ==
    [seq |-> seq, marker |-> marker, nal |-> nal, from |-> from, to |-> to,
     start |-> start, end |-> end, size |-> size]

\* packetize_single: the unit as it is
packetize_single(i, len, seq, marker) ==
    <<Packet(seq, marker, i, 0, len, TRUE, TRUE, RTP_HEADER + len)>>

\* The NAL header that the fragments replace, and what they put in its place
NalHeader(codec) == IF codec = "H264" THEN 1 ELSE 2
MaxFragment(codec) ==
    DEFAULT_MTU - RTP_HEADER - (IF codec = "H264" THEN 2 ELSE 3)

\* Defect: the last fragment is sent even when it is empty.
FragmentsRoundUp(codec, len) == (len - NalHeader(codec)) \div MaxFragment(codec) + 1

\* The turns of the loop `while offset < total'
Fragments(codec, len) ==
    (len - NalHeader(codec) + MaxFragment(codec) - 1) \div MaxFragment(codec)

\* packetize_fu_a, packetize_fu
packetize_fu(codec, i, len, seq, marker) ==
    LET total == len - NalHeader(codec)
        n == Fragments(codec, len)
        from(k) == (k - 1) * MaxFragment(codec)
        to(k) == IF from(k) + MaxFragment(codec) < total
                 THEN from(k) + MaxFragment(codec) ELSE total
    IN  [k \in 1..n |->
           Packet((seq + k - 1) % SEQ, marker /\ k = n, i, from(k), to(k), k = 1, k = n,
                  DEFAULT_MTU - MaxFragment(codec) + to(k) - from(k))]

Packetize(codec, i, len, seq, marker) ==
    IF len + RTP_HEADER <= DEFAULT_MTU
    THEN packetize_single(i, len, seq, marker)
    ELSE packetize_fu(codec, i, len, seq, marker)

\* dispatch: the units of one frame in order, the marker on the last of an access unit
dispatch(codec, nals, access_unit_end, seq) ==
    FoldLeft(LAMBDA acc, i :
               LET ps == Packetize(codec, i, nals[i], acc.seq, access_unit_end /\ i = Len(nals))
               IN  [seq |-> (acc.seq + Len(ps)) % SEQ, out |-> acc.out \o ps],
             [seq |-> seq, out |-> <<>>], [i \in 1..Len(nals) |-> i]).out

\* Reference: what a receiver puts together.  A unit is a run of packets from
\* a start to an end, without a gap in the numbers or in the bytes.
Reassemble(codec, ps) ==
    FoldLeft(LAMBDA acc, k :
               LET p == ps[k] IN
               IF ~acc.ok THEN acc
               ELSE IF p.start /\ p.end THEN [acc EXCEPT !.out = Append(@, p.to), !.at = 0]
               ELSE IF p.start THEN [acc EXCEPT !.at = p.to, !.ok = (p.from = 0)]
               ELSE IF p.from # acc.at \/ acc.at = 0 THEN [acc EXCEPT !.ok = FALSE]
               ELSE IF p.end THEN [acc EXCEPT !.out = Append(@, p.to + NalHeader(codec)), !.at = 0]
               ELSE [acc EXCEPT !.at = p.to],
             [ok |-> TRUE, at |-> 0, out |-> <<>>], [k \in 1..Len(ps) |-> k])

InSequence(ps, seq) == \A k \in 1..Len(ps) : ps[k].seq = (seq + k - 1) % SEQ

-----------------------------------------------------------------------------
(* nal.rs: the codec a key frame is in, from the head of its first unit    *)

H264NalType(b) == b % 32
H265NalType(b) == (b \div 2) % 64

\* `tid' is the low three bits of the second byte, 0 when there is none
detect_codec(b, tid) ==
    LET h264 == H264NalType(b)
        h265 == H265NalType(b)
    IN  IF b >= 128 THEN "none"
        ELSE IF h264 \in {7, 8} /\ h265 < 32 THEN "H264"
        ELSE IF h265 \in 32..40 /\ tid >= 1 THEN "H265"
        ELSE IF h264 = 5 /\ h265 \notin 19..21 THEN "H264"
        ELSE IF h265 \in 19..21 /\ tid >= 1 THEN "H265"
        ELSE "H264"

\* split_annex_b on a stream in which 0 and 1 are themselves and any other
\* byte is 2: the units between start codes of three or four bytes
StartCode(s, i) ==
    CASE i + 3 <= Len(s) /\ SubSeq(s, i, i + 3) = <<0, 0, 0, 1>> -> 4
      [] i + 2 <= Len(s) /\ SubSeq(s, i, i + 2) = <<0, 0, 1>> -> 3
      [] OTHER -> 0

split_annex_b(s) ==
    LET scan == FoldLeft(LAMBDA acc, i :
                  IF i < acc.next THEN acc
                  ELSE LET c == StartCode(s, i) IN
                       IF c = 0 THEN [acc EXCEPT !.next = i + 1]
                       ELSE [next |-> i + c, start |-> i + c,
                             out |-> IF acc.start > 0 /\ i > acc.start
                                     THEN Append(acc.out, SubSeq(s, acc.start, i - 1))
                                     ELSE acc.out],
                  [next |-> 1, start |-> 0, out |-> <<>>], [i \in 1..Len(s) |-> i])
    IN  IF scan.start > 0 /\ scan.start <= Len(s)
        THEN Append(scan.out, SubSeq(s, scan.start, Len(s))) ELSE scan.out

-----------------------------------------------------------------------------
(* aac.rs: ADTS in, RFC 3640 out                                           *)

ADTS_HEADER_LEN == 7
SampleRates == <<96000, 88200, 64000, 48000, 44100, 32000, 24000, 22050, 16000, 12000,
                 11025, 8000, 7350>>
NoAdts == [aot |-> 0]

\* parse_adts on the fields of the header
parse_adts(synced, profile, index, channels, frame_length, frames) ==
    IF ~synced \/ frame_length < ADTS_HEADER_LEN \/ index >= Len(SampleRates) THEN NoAdts
    ELSE [aot |-> profile + 1, sample_rate |-> SampleRates[index + 1], channels |-> channels,
          frame_length |-> frame_length, aac_frames |-> frames + 1]

sample_rate_index(hz) ==
    IF \E i \in 1..Len(SampleRates) : SampleRates[i] = hz
    THEN (CHOOSE i \in 1..Len(SampleRates) : SampleRates[i] = hz) - 1 ELSE -1

\* build_audio_specific_config_hex as the number it prints, -1 for None
build_audio_specific_config(aot, hz, channels) ==
    IF aot \notin 1..29 \/ sample_rate_index(hz) < 0 \/ channels \notin 1..7 THEN -1
    ELSE aot * 2048 + sample_rate_index(hz) * 128 + channels * 8

\* build_au_hbr_payload: thirteen bits of length in a sixteen-bit header
AuHeader(len) == (len * 8) % 65536
AuLength(header) == header \div 8

-----------------------------------------------------------------------------
(* g711.rs and transcode: ADPCM samples to u-law                           *)

BIAS == 132
CLIP == 32635
Low(a, b) == IF a < b THEN a ELSE b
High(a, b) == IF a > b THEN a ELSE b

\* log2_exp: the highest of the bits 7..14 that is set
log2_exp(biased) ==
    IF \E e \in 1..7 : biased >= 2^(e + 7)
    THEN CHOOSE e \in 1..7 : biased >= 2^(e + 7) /\ (e = 7 \/ biased < 2^(e + 8)) ELSE 0

\* encode_sample as sign, exponent and mantissa (the complement is the wire's)
encode_sample(pcm) ==
    LET magnitude == Low(IF pcm < 0 THEN -pcm ELSE pcm, CLIP)
        biased == magnitude + BIAS
        e == log2_exp(biased)
    IN  [sign |-> IF pcm < 0 THEN -1 ELSE 1, exp |-> e, mant |-> (biased \div 2^(e + 3)) % 16]

decode_sample(u) == u.sign * (u.mant * 2^(u.exp + 3) + BIAS * 2^u.exp - BIAS)

STEP_TABLE ==
    <<7, 8, 9, 10, 11, 12, 13, 14, 16, 17, 19, 21, 23, 25, 28, 31, 34, 37, 41, 45, 50, 55, 60,
      66, 73, 80, 88, 97, 107, 118, 130, 143, 157, 173, 190, 209, 230, 253, 279, 307, 337, 371,
      408, 449, 494, 544, 598, 658, 724, 796, 876, 963, 1060, 1166, 1282, 1411, 1552, 1707,
      1878, 2066, 2272, 2499, 2749, 3024, 3327, 3660, 4026, 4428, 4871, 5358, 5894, 6484, 7132,
      7845, 8630, 9493, 10442, 11487, 12635, 13899, 15289, 16818, 18500, 20350, 22385, 24623,
      27086, 29794, 32767>>

INDEX_TABLE == <<-1, -1, -1, -1, 2, 4, 6, 8, -1, -1, -1, -1, 2, 4, 6, 8>>

Clamp(v, lo, hi) == High(lo, Low(v, hi))

\* AdpcmDecoder::decode_nibble on [predictor, index]
decode_nibble(d, nibble) ==
    LET step == STEP_TABLE[d.index + 1]
        m == nibble % 8
        diff == step \div 8 + (IF m >= 4 THEN step ELSE 0)
                  + (IF (m \div 2) % 2 = 1 THEN step \div 2 ELSE 0)
                  + (IF m % 2 = 1 THEN step \div 4 ELSE 0)
    IN  [predictor |-> Clamp(IF nibble >= 8 THEN d.predictor - diff ELSE d.predictor + diff,
                             -32768, 32767),
         index |-> Clamp(d.index + INDEX_TABLE[nibble + 1], 0, 88)]

\* decode_block_into: the header seeds the decoder, each byte is two samples
decode_block(predictor, index, nibbles) ==
    IF Len(nibbles) < 2 \/ index \notin 0..88 THEN <<>>
    ELSE FoldLeft(LAMBDA acc, x :
                    LET d == decode_nibble(acc.d, x)
                    IN  [d |-> d, out |-> Append(acc.out, d.predictor)],
                  [d |-> [predictor |-> predictor, index |-> index], out |-> <<predictor>>],
                  nibbles).out

\* decimate_16_to_8: the mean of each pair, rounded half up
decimate_16_to_8(pcm) ==
    [i \in 1..(Len(pcm) \div 2) |-> (pcm[2 * i - 1] + pcm[2 * i] + 1) \div 2]

-----------------------------------------------------------------------------
(* rtcp.rs, with a fraction of FRACTIONS parts for the thirty-two bits     *)

FRACTIONS == 8
SECONDS == 16                     \* seconds wrap as the 32-bit field does

\* ntp_minus: the borrow of the fraction comes out of the seconds
ntp_minus(sec, frac, dsec, dfrac) ==
    [sec |-> (sec - dsec - (IF frac < dfrac THEN 1 ELSE 0)) % SECONDS,
     frac |-> (frac - dfrac) % FRACTIONS]

=============================================================================
