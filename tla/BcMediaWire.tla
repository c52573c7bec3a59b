---------------------------- MODULE BcMediaWire -----------------------------
(***************************************************************************)
(* The framing of the media stream inside the binary payloads of a stream  *)
(* (src/baichuan/bcmedia/{de,ser,codex,model}.rs).  A stream of bytes is   *)
(* its length and the places where frames start; what a frame holds does   *)
(* not matter to the framing, how many bytes its header declares does.     *)
(***************************************************************************)
EXTENDS Naturals, Sequences, SequencesExt, Functions

PAD_SIZE == 8
Padding(n) == (PAD_SIZE - (n % PAD_SIZE)) % PAD_SIZE

\* A frame: its kind, the bytes of its data and of its additional header
Frame(kind, data, extra) == [kind |-> kind, data |-> data, extra |-> extra]

\* The bytes before the data, by kind: the magic and the fixed fields
HeaderLen(kind) ==
    CASE kind \in {"InfoV1", "InfoV2"} -> 32
      [] kind \in {"Iframe", "Pframe"} -> 24
      [] kind = "Aac" -> 8
      [] kind = "Adpcm" -> 12

SUB_HEADER_SIZE == 4

\* payload_size as the header declares it; two bytes wide for audio
PayloadSize(f) ==
    CASE f.kind \in {"InfoV1", "InfoV2"} -> 0
      [] f.kind = "Aac" -> f.data % 65536
      [] f.kind = "Adpcm" -> (f.data + SUB_HEADER_SIZE) % 65536
      [] OTHER -> f.data

\* BcMedia::serialize: every kind is padded on the length of its data
serialize(f) == HeaderLen(f.kind) + f.extra + f.data + Padding(f.data)

\* What a camera writes pads ADPCM on the declared size, sub-header included
CameraWrites(f) ==
    HeaderLen(f.kind) + f.extra + f.data
      + Padding(IF f.kind = "Adpcm" THEN f.data + SUB_HEADER_SIZE ELSE f.data)

\* Defect: the parser forgets the padding after the data.
ReadsNoPadding(f) ==
    HeaderLen(f.kind) + f.extra + (IF f.kind = "Adpcm" THEN PayloadSize(f) - SUB_HEADER_SIZE
                                   ELSE PayloadSize(f))

\* bcmedia_*: what the parser consumes for a frame whose header it reads
Reads(f) ==
    HeaderLen(f.kind) + f.extra
      + (IF f.kind = "Adpcm" THEN PayloadSize(f) - SUB_HEADER_SIZE ELSE PayloadSize(f))
      + Padding(PayloadSize(f))

-----------------------------------------------------------------------------
(* A stream: the frames and where each starts, given the bytes each takes  *)

StartOf(wire, i) == SumFunctionOnSet(wire, 1..(i - 1))
Total(wire) == StartOf(wire, Len(wire) + 1)

MAGIC_LEN == 4

\* BcMediaCodex::decode, called until it returns nothing, on the bytes from
\* `pos' to `end': complete frames come out, an incomplete one stays, and so
\* do bytes too few to hold a magic; other bytes that are no frame end a strict
\* decoder or empty the buffer.  Bytes of no frame never look like a magic.
RECURSIVE Decode(_, _, _, _, _, _)
Decode(frames, wire, strict, pos, end, out) ==
    LET here == {i \in DOMAIN frames : StartOf(wire, i) = pos}
        stop(p, e) == [pos |-> p, out |-> out, err |-> e]
    IN  IF pos = end THEN stop(pos, FALSE)
        ELSE IF here = {}
        THEN IF end - pos < MAGIC_LEN THEN stop(pos, FALSE)
             ELSE IF strict THEN stop(pos, TRUE) ELSE stop(end, FALSE)
        ELSE LET i == CHOOSE j \in here : TRUE
                 next == pos + Reads(frames[i])
             IN  IF next > end THEN stop(pos, FALSE)
                 ELSE Decode(frames, wire, strict, next, end, Append(out, i))

\* The stream arriving in payloads that end at `ends'; `from' is where the
\* first one starts (past the beginning when earlier bytes were lost)
DecodePayloads(frames, wire, strict, from, ends) ==
    FoldLeft(LAMBDA d, end : IF d.err THEN d
                             ELSE Decode(frames, wire, strict, d.pos, end, d.out),
             [pos |-> from, out |-> <<>>, err |-> FALSE], ends)

-----------------------------------------------------------------------------
(* After a loss                                                            *)

WireOf(frames) == [i \in DOMAIN frames |-> CameraWrites(frames[i])]

\* The frames from the j-th on
From(frames, j) == [i \in 1..(Len(frames) - j + 1) |-> i + j - 1]

\* What a decoder that is not strict reads after the first `lost' bytes were
\* lost: one payload with what is left before the j-th frame, then the frames
\* from the j-th on in a payload each
AfterLoss(frames, lost, j) ==
    LET wire == WireOf(frames)
        ends == [i \in 1..(Len(frames) - j + 2) |-> StartOf(wire, i + j - 1)]
    IN  DecodePayloads(frames, wire, FALSE, lost, ends).out

Left(frames, lost, j) == StartOf(WireOf(frames), j) - lost

=============================================================================
