------------------------------ MODULE BcCodec ------------------------------
(***************************************************************************)
(* BcCodex, the codec of one camera connection, between the login that     *)
(* negotiates the encryption and the camera that switches to it            *)
(* (src/baichuan/bc/{codex,de,ser,model,crypto}.rs, login*.rs and          *)
(* credentials.rs under bc_protocol).                                      *)
(*                                                                         *)
(* One context serves both directions.  `ctx' is its encryption, `pending' *)
(* the signed login whose 200 reply changes it, `binMode' the message      *)
(* numbers whose payloads are read as raw bytes.  A body is not a string   *)
(* of bytes here: it is a kind together with the protocol each of its two  *)
(* parts (extension, payload) was encrypted under, and decrypting with     *)
(* another protocol yields garbage, which no XML parser accepts.           *)
(***************************************************************************)
EXTENDS Naturals, Sequences, FiniteSets

CONSTANTS
    Flows,        \* the logins tried: subset of {"password", "authLogin", "signed", "direct"}
    Levels,       \* encryption byte the camera answers with; dd99 stands for those unknown
    MaxMade       \* bound: commands and camera messages after the login

ASSUME CodecAssumption == Levels \subseteq {"dd00", "dd01", "dd02", "dd12", "dd99"}

VARIABLES
    ctx, pending, binMode,   \* BcContext and pending_session_aes
    flow, step, nextNum,     \* the login in progress and new_message_num
    toCam, toClient,         \* the two directions of the connection, in order
    camCtx,                  \* protocol of the camera's session
    read,                    \* the last message decoded: what it was, how it was read
    camRead,                 \* whether the camera could read the last request
    made                     \* commands and events after the login

contextVars == <<ctx, pending, binMode>>
codecVars == <<ctx, pending, binMode, flow, step, nextNum, toCam, toClient,
              camCtx, read, camRead, made>>

-----------------------------------------------------------------------------
(* EncryptionProtocol (crypto.rs).  A protocol is its mode and its key.    *)

NoKey == "fixed"
Unencrypted == [mode |-> "Unencrypted", key |-> NoKey]
BCEncrypt == [mode |-> "BCEncrypt", key |-> NoKey]
aes(k) == [mode |-> "Aes", key |-> k]
full_aes(k) == [mode |-> "FullAes", key |-> k]

\* Credentials::make_aeskey: the digest of nonce and password
make_aeskey == "nonce-password"

\* build_sigv3_extras: the key and IV derived from the ECDHE secret and the nonce
SessionKey == "ecdhe"

IsAes(p) == p.mode \in {"Aes", "FullAes"}

\* decrypt and encrypt share the offset of the header: the same protocol inverts
decrypt(p, part) == IF part.under = p THEN part.kind ELSE "garbage"

Part(kind, under) == [kind |-> kind, under |-> under]
NoPart == Part("none", Unencrypted)

-----------------------------------------------------------------------------
(* The message layout (model.rs, de.rs, ser.rs).                           *)

LOGIN == 1
COMMAND == 80
VIDEO == 3
EVENT == 33

\* has_payload_offset: the classes whose header carries the length of the extension
has_payload_offset(class) == class \in {"6414", "0000"}
is_modern(class) == class # "6514"

Msg(id, num, code, class, ext, binary, encLen, payload) ==
    [id |-> id, num |-> num, code |-> code, class |-> class,
     ext |-> ext, binary |-> binary, encLen |-> encLen, payload |-> payload,
     cut |-> FALSE, frame |-> "good"]

\* Bc::serialize: both XML parts go out under the protocol the encoder chose,
\* a binary payload as it is
serialize(id, num, class, body, p) ==
    Msg(id, num, "0", class, NoPart, "none", "none", Part(body, p))

\* Defect: the login is encrypted with the key just negotiated.
EncodeAsNegotiated(id, c) == c

\* The encoder's choice: a login is never sent under the negotiated key
EncodeAs(id, c) == IF id = LOGIN /\ IsAes(c) THEN BCEncrypt ELSE c

\* bc_modern_msg: the protocol the payload is decrypted under
PayloadProtocol(m, c) ==
    IF m.id = LOGIN /\ m.code \in {"dd00", "dd01", "dd02", "dd12", "dd99"}
    THEN IF m.code = "dd00" THEN Unencrypted ELSE BCEncrypt
    ELSE EncodeAs(m.id, c)

\* bc_header, bc_modern_msg: what cannot be a message ends the connection
Malformed(m) ==
    \/ m.frame \in {"badMagic", "bodyTooLong"}
    \/ is_modern(m.class) /\ m.frame = "offsetPastBody"

\* BcPayloads: the bodies that are not XML
BinaryKinds == {"challenge", "media"}

\* How the payload reads: XML when neither the number nor the extension is
\* binary; under FullAes with an encryptLen its first encryptLen bytes,
\* decrypted, and nothing of what follows them; else the bytes as they came
ReadPayload(m, c, bins) ==
    LET clear == decrypt(PayloadProtocol(m, c), m.payload)
        raw == decrypt(Unencrypted, m.payload)
        sliced == c.mode = "FullAes" /\ m.encLen # "none"
        binary == IF sliced THEN clear ELSE raw
    IN  IF m.num \in bins \/ m.binary = "1"
        THEN IF binary \notin BinaryKinds THEN "bytes"
             ELSE IF sliced /\ m.encLen = "part" THEN "head" ELSE binary
        ELSE IF clear \in BinaryKinds THEN "garbage" ELSE clear

\* Bc::deserialize
deserialize(m, c, bins) ==
    LET ext == decrypt(c, m.ext)
        body == IF m.payload = NoPart THEN "none" ELSE ReadPayload(m, c, bins)
    IN  IF Malformed(m) THEN "error"
        ELSE IF ~is_modern(m.class) THEN "legacy"
        ELSE IF (m.ext # NoPart /\ ext = "garbage") \/ body = "garbage" THEN "error"
        ELSE body

-----------------------------------------------------------------------------
(* BcCodex::encode and BcCodex::decode                                     *)

\* Encoder: a signed login pins BCEncrypt and remembers its session key
Encode(id, class, body, num) ==
    LET signed == body = "SignedLoginUser"
        c == IF signed THEN BCEncrypt ELSE ctx
    IN  /\ ctx' = c
        /\ pending' = IF signed THEN num ELSE pending
        /\ toCam' = Append(toCam, serialize(id, num, class, body, EncodeAs(id, c)))
        /\ UNCHANGED binMode

\* Decoder: the protocol after the login reply m
Negotiated(m, body, c) ==
    IF m.id = LOGIN /\ body = "Encryption"
    THEN CASE m.code = "dd00" -> Unencrypted
           [] m.code = "dd01" -> BCEncrypt
           [] m.code = "dd02" -> aes(make_aeskey)
           [] m.code = "dd12" -> full_aes(make_aeskey)
           [] OTHER -> c
    ELSE c

\* The 200 reply of the armed login switches to its key; any reply disarms it
Armed(m) == m.id = LOGIN /\ m.num = pending

Decode(m) ==
    LET body == deserialize(m, ctx, binMode)
        armed == Armed(m)
        c == IF armed /\ m.code = "200" THEN full_aes(SessionKey) ELSE ctx
        unknown == m.id = LOGIN /\ body = "Encryption" /\ m.code = "dd99"
    IN  /\ read' = [sent |-> m.payload.kind, as |-> IF unknown THEN "error" ELSE body,
                    id |-> m.id, num |-> m.num, code |-> m.code,
                    reused |-> m.num \in binMode]
        /\ pending' = IF armed THEN 0 ELSE pending
        /\ ctx' = Negotiated(m, body, c)
        /\ binMode' = CASE m.binary = "1" -> binMode \union {m.num}
                        [] m.binary = "0" -> binMode \ {m.num}
                        [] OTHER -> binMode

-----------------------------------------------------------------------------
(* The login, one request at a time (login_with_maxenc, run_sigv3_login,   *)
(* run_authlogin).  `step' is what the client waits for next.              *)

NoRead == [sent |-> "none", as |-> "none", id |-> 0, num |-> 0, code |-> "0",
           reused |-> FALSE]

CodecInit ==
    /\ ctx = Unencrypted /\ pending = 0 /\ binMode = {}
    /\ flow \in Flows
    /\ step = IF flow = "direct" THEN "sign" ELSE "upgrade"
    /\ nextNum = 1
    /\ toCam = <<>> /\ toClient = <<>>
    /\ camCtx = Unencrypted
    /\ read = NoRead /\ camRead = TRUE
    /\ made = 0

Ask(id, class, body, num, waitFor) ==
    /\ Encode(id, class, body, num)
    /\ step' = waitFor
    /\ UNCHANGED <<flow, toClient, camCtx, read, camRead, made>>

\* LoginUpgrade, a legacy message with no body
SendUpgrade ==
    /\ step = "upgrade"
    /\ Ask(LOGIN, "6514", "none", nextNum, "offer")
    /\ nextNum' = nextNum + 1

\* The plain LoginUser, and the two of authLogin, reuse the number of the upgrade
SendModern ==
    /\ step = "modern" /\ flow = "password"
    /\ Ask(LOGIN, "6414", "LoginUser", nextNum - 1, "device")
    /\ UNCHANGED nextNum

SendGetAccesskey ==
    /\ step = "modern" /\ flow = "authLogin"
    /\ Ask(LOGIN, "6414", "getAccesskey", nextNum - 1, "challenge")
    /\ UNCHANGED nextNum

SendAuthLogin ==
    /\ step = "answer"
    /\ Ask(LOGIN, "6414", "LoginUser", nextNum - 1, "device")
    /\ UNCHANGED nextNum

\* run_sigv3_login takes a number of its own
Sign ==
    /\ step = "sign" \/ (step = "modern" /\ flow = "signed")
    /\ Ask(LOGIN, "0000", "SignedLoginUser", nextNum, "device")
    /\ nextNum' = nextNum + 1

\* A command of the session, or the request for the video stream
Command(id) ==
    /\ step = "in" /\ made < MaxMade
    /\ Encode(id, "6414", "xml", nextNum)
    /\ nextNum' = nextNum + 1
    /\ made' = made + 1
    /\ UNCHANGED <<flow, step, toClient, camCtx, read, camRead>>

\* What the login makes of the message it waited for
AfterLogin(m) ==
    IF read'.as = "error" THEN "broken"
    ELSE CASE step = "offer" -> IF read'.as = "Encryption" THEN "modern" ELSE "failed"
           [] step = "challenge" -> IF read'.as = "challenge" THEN "answer" ELSE "failed"
           [] step = "device" -> IF m.code = "200" /\ read'.as = "DeviceInfo" THEN "in" ELSE "failed"
           [] OTHER -> step

Receive ==
    /\ toClient # <<>> /\ ~Head(toClient).cut
    /\ step \notin {"broken", "failed"}
    /\ Decode(Head(toClient))
    /\ step' = AfterLogin(Head(toClient))
    /\ toClient' = Tail(toClient)
    /\ UNCHANGED <<flow, nextNum, toCam, camCtx, camRead, made>>

\* NomIncomplete: half a message stays in the buffer and changes nothing
ReceivePart ==
    /\ toClient # <<>> /\ Head(toClient).cut
    /\ toClient' = [toClient EXCEPT ![1].cut = FALSE]
    /\ UNCHANGED <<ctx, pending, binMode, flow, step, nextNum, toCam, camCtx,
                   read, camRead, made>>

-----------------------------------------------------------------------------
(* The camera, as the code and docs/baichuan-protocol.md use it (external) *)

CamProtocol(level) ==
    CASE level = "dd00" -> Unencrypted
      [] level = "dd01" -> BCEncrypt
      [] level = "dd02" -> aes(make_aeskey)
      [] level = "dd12" -> full_aes(make_aeskey)
      [] OTHER -> BCEncrypt

\* Logins travel in the clear or under BCEncrypt, everything else under the session's protocol
CamExpects(m) ==
    IF m.id # LOGIN THEN camCtx
    ELSE IF m.payload.kind = "SignedLoginUser" THEN BCEncrypt
    ELSE IF m.payload.kind = "none" THEN m.payload.under
    ELSE IF IsAes(camCtx) THEN BCEncrypt ELSE camCtx

LoginReply(m) ==
    IF IsAes(camCtx) \/ m.payload.kind = "SignedLoginUser" THEN BCEncrypt ELSE camCtx

Answers(m) ==
    CASE m.payload.kind = "none" ->
           {[code |-> l, body |-> "Encryption", class |-> "6614", binary |-> "none"] : l \in Levels}
           \union {[code |-> "200", body |-> "none", class |-> "6514", binary |-> "none"]}
      [] m.payload.kind = "getAccesskey" ->
           {[code |-> "200", body |-> "challenge", class |-> "6414", binary |-> "1"]}
      [] m.payload.kind \in {"LoginUser", "SignedLoginUser"} ->
           {[code |-> "200", body |-> "DeviceInfo", class |-> "6414", binary |-> b] :
               b \in IF flow = "authLogin" THEN {"none", "0"} ELSE {"none"}}
           \union {[code |-> "406", body |-> "none", class |-> "6414", binary |-> "none"]}
      [] m.id = VIDEO ->
           {[code |-> "200", body |-> "media", class |-> "0000", binary |-> "1"]}
      [] OTHER ->
           {[code |-> "200", body |-> "xml", class |-> "0000", binary |-> "none"]}

\* Media under FullAes: in the clear without an encryptLen, enciphered whole,
\* or its first encryptLen bytes enciphered and the rest plaintext
EncryptLens(a) ==
    IF a.body = "media" /\ camCtx.mode = "FullAes" THEN {"none", "whole", "part"} ELSE {"none"}

PayloadUnder(m, a, len) ==
    CASE a.body = "none" -> Unencrypted
      [] a.body = "Encryption" -> IF a.code = "dd00" THEN Unencrypted ELSE BCEncrypt
      [] a.body = "challenge" -> Unencrypted
      [] a.body = "media" -> IF len = "none" THEN Unencrypted ELSE camCtx
      [] OTHER -> IF m.id = LOGIN THEN LoginReply(m) ELSE camCtx

Camera ==
    /\ toCam # <<>>
    /\ LET m == Head(toCam) IN
       \E a \in Answers(m), cut \in BOOLEAN : \E len \in EncryptLens(a) :
         /\ camRead' = (m.payload.kind = "none" \/ m.payload.under = CamExpects(m))
         /\ toClient' = Append(toClient,
              [Msg(m.id, m.num, a.code, a.class,
                   IF a.binary # "none" THEN Part("ext", camCtx) ELSE NoPart,
                   a.binary, len,
                   IF a.body = "none" THEN NoPart ELSE Part(a.body, PayloadUnder(m, a, len)))
               EXCEPT !.cut = cut])
         /\ camCtx' = IF a.body = "Encryption" THEN CamProtocol(a.code)
                      ELSE IF m.payload.kind = "SignedLoginUser" /\ a.code = "200"
                      THEN full_aes(SessionKey) ELSE camCtx
    /\ toCam' = Tail(toCam)
    /\ UNCHANGED <<ctx, pending, binMode, flow, step, nextNum, read, made>>

\* An event the camera sends of its own accord, or bytes that are no message
CameraEvent ==
    /\ step = "in" /\ made < MaxMade
    /\ \E f \in {"good", "badMagic", "bodyTooLong", "offsetPastBody"} :
         toClient' = Append(toClient,
            [Msg(EVENT, 0, "200", "0000", NoPart, "none", "none", Part(IF f = "good" THEN "xml" ELSE "error", camCtx))
             EXCEPT !.frame = f])
    /\ made' = made + 1
    /\ UNCHANGED <<ctx, pending, binMode, flow, step, nextNum, toCam, camCtx,
                   read, camRead>>

CodecNext ==
    \/ SendUpgrade \/ SendModern \/ SendGetAccesskey \/ SendAuthLogin \/ Sign
    \/ Command(COMMAND) \/ Command(VIDEO)
    \/ Receive \/ ReceivePart \/ Camera \/ CameraEvent

CodecSpec == CodecInit /\ [][CodecNext]_codecVars

-----------------------------------------------------------------------------
(* Both ends follow each other through every switch of the encryption: the *)
(* camera can read each request, and the decoder reads each message as     *)
(* what the camera sent, unless its number is one the connection already   *)
(* used for binary payloads, or it is media with an encryptLen shorter     *)
(* than the payload: of that the decoder keeps the head (MediaWhole says   *)
(* it should keep all).  codex.rs changes one shared context while         *)
(* requests and replies are in flight, and a wrong moment shows only as an *)
(* XML error that drops the connection.                                    *)
CodecAgrees ==
    /\ camRead
    /\ \/ read.as = read.sent
       \/ read.reused
       \/ read.as = "legacy"
       \/ read.code = "dd99"
       \/ read.sent = "media" /\ read.as = "head"

(* docs/baichuan-protocol.md 3.4 and crypto.rs 60-63: only the leading     *)
(* encryptLen bytes of a media payload are enciphered and the rest is      *)
(* plaintext, so what the decoder hands on should be the whole payload.    *)
(* bc_modern_msg (de.rs 204-217) returns the first encryptLen bytes only.  *)
MediaWhole == read.sent = "media" => read.as = "media"

(* login.rs 505-508 and docs/baichuan-protocol.md 4.3: a camera that       *)
(* offers getAccesskey is logged in to by authLogin, its DeviceInfo reply  *)
(* ending the exchange.  It fails: README, 3.                             *)
AuthLoginCompletes ==
    flow = "authLogin" /\ read.sent = "DeviceInfo" => step = "in"
=============================================================================
