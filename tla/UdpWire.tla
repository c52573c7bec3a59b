------------------------------ MODULE UdpWire -------------------------------
(***************************************************************************)
(* The BcUdp datagram (src/baichuan/bcudp/{de,ser,codex,model,crc,         *)
(* xml_crypto}.rs).  A datagram is a magic, the 32-bit words of its        *)
(* header, and the bytes after it.  The connection id is a word; an XML    *)
(* payload is the type of its message and a byte of content (UdpXml has    *)
(* the fields), encrypted byte by byte.  Words of more than 31 bits are    *)
(* the named values All and Large.                                         *)
(***************************************************************************)
EXTENDS Integers, Sequences

All == -1                          \* 0xffffffff
Large == -2                        \* a size of more than MAX_BCUDP_PAYLOAD
Undecodable == "undecodable"       \* bytes that are no UdpXml

-----------------------------------------------------------------------------
(* Packets: Discovery has a tid and a message, the others a connection     *)

UdpDiscovery(tid, xml, content) ==
    [kind |-> "Discovery", tid |-> tid, xml |-> xml, content |-> content]
UdpAck(connection_id, group_id, packet_id, maybe_latency, payload) ==
    [kind |-> "Ack", connection_id |-> connection_id, group_id |-> group_id,
     packet_id |-> packet_id, maybe_latency |-> maybe_latency, payload |-> payload]
UdpData(connection_id, packet_id, payload) ==
    [kind |-> "Data", connection_id |-> connection_id, packet_id |-> packet_id,
     payload |-> payload]

\* UdpAck::empty: nothing received yet
EmptyAck(connection_id) == UdpAck(connection_id, All, All, 0, <<>>)

\* decrypt and encrypt: each bit of a byte (here one) against the key stream
\* that starts at the tid, so that either undoes the other with the same tid
decrypt(tid, bytes) == [i \in DOMAIN bytes |-> (bytes[i] + (tid + i)) % 2]

\* UdpXml::serialize and try_parse: the bytes that hold a message
XmlBytes(xml, content) ==
    CASE xml = "D2C_DISC" -> <<0, 0, content>>
      [] xml = "R2C_DISC" -> <<0, 1, content>>
      [] xml = "D2C_CFM" -> <<1, 0, content>>
XmlOf(bytes) ==
    IF Len(bytes) # 3 \/ (bytes[1] = 1 /\ bytes[2] = 1) THEN Undecodable
    ELSE CHOOSE x \in {"D2C_DISC", "R2C_DISC", "D2C_CFM"} :
            XmlBytes(x, bytes[3]) = bytes

\* calc_crc: no two payloads here have one checksum
calc_crc(bytes) == <<"crc", bytes>>

Wire(magic, words, bytes) == [magic |-> magic, words |-> words, bytes |-> bytes]

\* BcUdp::serialize
serialize(p) ==
    CASE p.kind = "Discovery" ->
           LET enc == decrypt(p.tid, XmlBytes(p.xml, p.content))
           IN  Wire("NEGO", <<Len(enc), 1, p.tid, calc_crc(enc)>>, enc)
      [] p.kind = "Ack" ->
           Wire("ACK", <<p.connection_id, 0, p.group_id, p.packet_id, p.maybe_latency,
                         Len(p.payload)>>, p.payload)
      [] p.kind = "Data" ->
           Wire("DATA", <<p.connection_id, 0, p.packet_id, Len(p.payload)>>, p.payload)

-----------------------------------------------------------------------------
(* The parser works from the front: a field that has not arrived makes the *)
(* whole packet incomplete unless an earlier one was already wrong.        *)

HeaderWords(magic) == CASE magic = "NEGO" -> 4 [] magic = "ACK" -> 6 [] OTHER -> 4

\* The word with the size of the payload
SizeWord(magic) == CASE magic = "NEGO" -> 1 [] magic = "ACK" -> 6 [] OTHER -> 4

\* Defect: the size of a payload is not bounded.
VerifiesAnySize(magic, k, w) ==
    CASE magic = "NEGO" /\ k = 2 -> w = 1
      [] magic \in {"ACK", "DATA"} /\ k = 2 -> w = 0
      [] magic = "ACK" /\ k = 3 -> w \in {0, All}
      [] OTHER -> TRUE

\* The verify() of a header word
Verifies(magic, k, w) ==
    CASE k = SizeWord(magic) -> w # Large
      [] magic = "NEGO" /\ k = 2 -> w = 1
      [] magic \in {"ACK", "DATA"} /\ k = 2 -> w = 0
      [] magic = "ACK" /\ k = 3 -> w \in {0, All}
      [] OTHER -> TRUE

Error == [verdict |-> "error"]
Incomplete == [verdict |-> "incomplete"]
Message(p) == [verdict |-> "message", packet |-> p]

\* udp_disc after its header
udp_disc(w, bytes) ==
    LET enc == SubSeq(bytes, 1, w[1])
        xml == XmlOf(decrypt(w[3], enc))
    IN  IF w[4] # calc_crc(enc) \/ xml = Undecodable THEN Error
        ELSE Message(UdpDiscovery(w[3], xml, decrypt(w[3], enc)[3]))

\* bcudp, udp_ack and udp_data on the first n bytes of a datagram
Parse(d, n) ==
    LET words == HeaderWords(d.magic)
        arrived == {k \in 1..words : 4 * (k + 1) <= n}
        size == d.words[SizeWord(d.magic)]
    IN  IF n < 4 THEN Incomplete
        ELSE IF d.magic \notin {"NEGO", "ACK", "DATA"} THEN Error
        ELSE IF \E k \in arrived : ~Verifies(d.magic, k, d.words[k]) THEN Error
        ELSE IF arrived # 1..words \/ n < 4 * (words + 1) + size \/ size > Len(d.bytes)
          THEN Incomplete
        ELSE CASE d.magic = "NEGO" -> udp_disc(d.words, d.bytes)
               [] d.magic = "ACK" ->
                    Message(UdpAck(d.words[1], d.words[3], d.words[4], d.words[5],
                                   SubSeq(d.bytes, 1, size)))
               [] d.magic = "DATA" ->
                    Message(UdpData(d.words[1], d.words[3], SubSeq(d.bytes, 1, size)))

Length(d) == 4 * (HeaderWords(d.magic) + 1) + Len(d.bytes)

\* BcUdpCodex::decode: the two disconnects end the connection
decode(d, n) ==
    LET r == Parse(d, n) IN
    IF r.verdict = "message" /\ r.packet.kind = "Discovery"
         /\ r.packet.xml \in {"R2C_DISC", "D2C_DISC"}
    THEN [verdict |-> IF r.packet.xml = "R2C_DISC" THEN "RelayTerminate" ELSE "CameraTerminate"]
    ELSE r

-----------------------------------------------------------------------------
(* The packets of the check                                                *)

Bytes == UNION {[1..n -> 0..1] : n \in 0..2}

Packets ==
    {UdpDiscovery(t, x, c) : t \in {0, 5}, x \in {"D2C_DISC", "R2C_DISC", "D2C_CFM"}, c \in 0..1}
      \cup {UdpAck(c, g, i, 0, b) : c \in {All, 7}, g \in {0, All}, i \in {0, 9, All}, b \in Bytes}
      \cup {UdpData(c, i, b) : c \in {All, 7}, i \in {0, 9, All}, b \in Bytes}
      \cup {EmptyAck(7)}

\* A packet that arrives whole is the packet that was sent (a disconnect is
\* the end of the connection), cut short it is incomplete and nothing else,
\* and one with too large a size field or a flipped bit in its encrypted bytes
\* is refused (bcudp/{ser,de,codex}.rs).
DatagramsReadBack ==
    \A p \in Packets :
      LET d == serialize(p)
          whole == decode(d, Length(d))
          xml == IF p.kind = "Discovery" THEN p.xml ELSE "none"
      IN  /\ whole = CASE xml = "R2C_DISC" -> [verdict |-> "RelayTerminate"]
                       [] xml = "D2C_DISC" -> [verdict |-> "CameraTerminate"]
                       [] OTHER -> Message(p)
          /\ \A n \in 0..(Length(d) - 1) : decode(d, n) = Incomplete
          /\ \A n \in 0..Length(d) :
               decode([d EXCEPT !.words[SizeWord(d.magic)] = Large], n).verdict
                 = IF n < 4 * (SizeWord(d.magic) + 1) THEN "incomplete" ELSE "error"
          /\ p.kind = "Discovery" =>
               \A i \in DOMAIN d.bytes :
                 decode([d EXCEPT !.bytes[i] = 1 - @], Length(d)) = Error

=============================================================================
