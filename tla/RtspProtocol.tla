---------------------------- MODULE RtspProtocol ----------------------------
(***************************************************************************)
(* What an RTSP request means before any session changes:                  *)
(* src/rtsp/protocol/{message,auth,transport}.rs, sdp.rs, url.rs and, of   *)
(* server/connection.rs, the cutting of requests out of the buffer, the    *)
(* scheme check, authenticate and the track of a SETUP.  RtspServer has    *)
(* the sessions.                                                           *)
(*                                                                         *)
(* A URI is its scheme and the segments of its path (an empty one at the   *)
(* front for the leading slash, one at the end for a trailing slash).  A   *)
(* digest response is the tuple that is hashed.                            *)
(***************************************************************************)
EXTENDS Integers, Sequences, SequencesExt

-----------------------------------------------------------------------------
(* Requests in the buffer: a request is the bytes of its header, the       *)
(* declared Content-Length and its name                                    *)

MAX_REQUEST_BYTES == 16            \* 64 KiB in the code

Request(head, body) == [head |-> head, body |-> body]
Size(r) == r.head + r.body
Sizes(rs) == FoldLeft(LAMBDA n, r : n + Size(r), 0, rs)

\* try_consume_request on a buffer that holds the requests `rs' up to byte n:
\* the request at the front, "none" while it is incomplete, or "error"
try_consume_request(rs, n) ==
    IF rs = <<>> \/ n < Head(rs).head THEN "none"
    ELSE IF Head(rs).body > MAX_REQUEST_BYTES \/ Size(Head(rs)) > MAX_REQUEST_BYTES THEN "error"
    ELSE IF n < Size(Head(rs)) THEN "none"
    ELSE "request"

\* The inner loop of handle_connection: every complete request is taken
Drain(rs, n, taken) ==
    FoldLeft(LAMBDA acc, i :
        LET verdict == try_consume_request(acc.left, acc.bytes) IN
        IF acc.closed THEN acc
        ELSE IF verdict = "request"
          THEN [left |-> Tail(acc.left), bytes |-> acc.bytes - Size(Head(acc.left)),
                taken |-> acc.taken + 1, closed |-> FALSE]
        ELSE [acc EXCEPT !.closed = verdict = "error" \/ acc.bytes > MAX_REQUEST_BYTES],
      [left |-> rs, bytes |-> n, taken |-> taken, closed |-> FALSE],
      [i \in 1..(Len(rs) + 1) |-> i])

-----------------------------------------------------------------------------
(* message.rs                                                              *)

RtspMethod == {"OPTIONS", "DESCRIBE", "SETUP", "PLAY", "TEARDOWN", "PAUSE", "GET_PARAMETER"}

\* parse_request: without a method of ours or a CSeq there is no request
parse_request(method, cseq) ==
    IF method \notin RtspMethod THEN "UnsupportedMethod"
    ELSE IF cseq < 0 THEN "MissingCSeq" ELSE "ok"

\* build_response: every answer carries the CSeq of its request
build_response(status, cseq) == [status |-> status, cseq |-> cseq]

\* dispatch_request up to the handlers: a request that cannot be parsed is
\* answered with CSeq 0 and ends the connection
scheme_matches_transport(scheme, is_tls) ==
    CASE scheme = "rtsp" -> ~is_tls [] scheme = "rtsps" -> is_tls [] OTHER -> TRUE

Admission(method, cseq, scheme, is_tls) ==
    IF parse_request(method, cseq) # "ok" THEN build_response("BadRequest", 0)
    ELSE IF ~scheme_matches_transport(scheme, is_tls) THEN build_response("BadRequest", cseq)
    ELSE build_response("Handled", cseq)

-----------------------------------------------------------------------------
(* Paths: url.rs, extract_path, and the tracks of sdp.rs                   *)

Uri(scheme, path) == [scheme |-> scheme, path |-> path]

\* trim_start_matches('/'), trim_end_matches('/') and split('/')
Trimmed(path) ==
    LET full == {i \in DOMAIN path : path[i] # ""}
    IN  IF full = {} THEN <<>>
        ELSE SubSeq(path, CHOOSE i \in full : \A j \in full : i <= j,
                          CHOOSE i \in full : \A j \in full : i >= j)

StreamKind(suffix) ==
    CASE suffix \in {"main", "mainStream"} -> "Main"
      [] suffix \in {"sub", "subStream"} -> "Sub"
      [] suffix \in {"extern", "externStream"} -> "Extern"
      [] OTHER -> "none"

NotFound == [camera |-> "none", stream |-> "none"]

\* resolve: a camera, or a camera and one of its streams
resolve(path) ==
    LET t == Trimmed(path) IN
    IF Len(t) = 1 THEN [camera |-> t[1], stream |-> "Main"]
    ELSE IF Len(t) = 2 /\ StreamKind(t[2]) # "none"
      THEN [camera |-> t[1], stream |-> StreamKind(t[2])]
    ELSE NotFound

\* sdp::build: the media of the description in the order of their track ids
build(video, audio) ==
    (IF video THEN <<"Video">> ELSE <<>>) \o (IF audio THEN <<"Audio">> ELSE <<>>)

TrackId == <<"trackID=0", "trackID=1">>

\* Content-Base: the request URI with a slash at its end
ContentBase(path) == IF Last(path) = "" THEN path ELSE Append(path, "")

\* Reference: the client resolves the control URI of a track against the base
ControlUri(base, k) == Append(Front(base), TrackId[k])

\* handle_setup: a track suffix with a number comes off the path, and any number but
\* 0 means audio
SetupTarget(path) ==
    LET numbered == Last(path) \in {"trackID=0", "trackID=1", "trackID=2"}
    IN  [target |-> resolve(IF numbered THEN Front(path) ELSE path),
         medium |-> IF numbered /\ Last(path) # "trackID=0" THEN "Audio" ELSE "Video"]

\* transport::parse on the parts of the header
parse(profile, cast, interleaved, client_port) ==
    IF profile \notin {"RTP/AVP/TCP", "RTP/AVP", "RTP/AVP/UDP"} \/ cast = "multicast" THEN "Unsupported"
    ELSE IF "malformed" \in {interleaved, client_port} THEN "Malformed"
    ELSE IF profile = "RTP/AVP/TCP"
      THEN IF interleaved = "absent" THEN "Malformed" ELSE "TcpInterleaved"
    ELSE IF client_port = "absent" THEN "Malformed" ELSE "UdpUnicast"

-----------------------------------------------------------------------------
(* auth.rs and authenticate.  A nonce is the number of its mint; it is     *)
(* stale once its age reaches NONCE_TTL.  A header is absent, Basic with   *)
(* name and password, or Digest with what its response hashes.             *)

NONCE_TTL == 2                     \* 300 seconds in the code

Absent == [scheme |-> "none"]
Basic(name, pass) == [scheme |-> "Basic", name |-> name, pass |-> pass]
Garbled == [scheme |-> "Basic"]    \* no base64, no text, or no colon in it

\* digest_response: the hash of everything the two sides must agree on
digest_response(name, pass, method, path, nonce) == <<name, pass, method, path, nonce>>
Digest(name, pass, method, path, nonce) ==
    [scheme |-> "Digest", name |-> name, path |-> path, nonce |-> nonce,
     response |-> digest_response(name, pass, method, path, nonce)]

\* users: a function from names to passwords
verify_basic(authz, users) ==
    IF authz = Garbled THEN "Malformed"
    ELSE IF authz.name \in DOMAIN users /\ users[authz.name] = authz.pass THEN "ok"
    ELSE "BadCredentials"

is_stale(age) == age >= NONCE_TTL

\* Defect: the digest is not bound to the path of the request.
VerifyDigestAnyPath(authz, method, path, users, nonce, age) ==
    IF authz.scheme # "Digest" THEN "UnknownScheme"
    ELSE IF authz.nonce # nonce \/ is_stale(age) THEN "StaleNonce"
    ELSE IF authz.name \in DOMAIN users
           /\ authz.response = digest_response(authz.name, users[authz.name], method,
                                               authz.path, authz.nonce)
      THEN "ok" ELSE "BadCredentials"

\* verify_digest, with the check of the nonce that authenticate hands it
verify_digest(authz, method, path, users, nonce, age) ==
    IF authz.scheme # "Digest" THEN "UnknownScheme"
    ELSE IF authz.nonce # nonce \/ is_stale(age) THEN "StaleNonce"
    ELSE IF authz.path # path THEN "BadCredentials"
    ELSE IF authz.name \in DOMAIN users
           /\ authz.response = digest_response(authz.name, users[authz.name], method,
                                               authz.path, authz.nonce)
      THEN "ok" ELSE "BadCredentials"

\* authenticate: the outcome, and the nonce of the connection afterwards
\* with its age; a challenge names the schemes it offers and its nonce
Outcome(result, offers, nonce, age) ==
    [result |-> result, offers |-> offers, nonce |-> nonce, age |-> age]

authenticate(authz, method, path, users, is_tls, nonce, age) ==
    IF authz.scheme = "none"
      THEN Outcome("Challenge", {"Digest"} \cup (IF is_tls THEN {"Basic"} ELSE {}), nonce, age)
    ELSE IF is_tls /\ authz.scheme = "Basic"
      THEN LET v == verify_basic(authz, users) IN
           CASE v = "ok" -> Outcome("Ok", {}, nonce, age)
             [] v = "BadCredentials" -> Outcome("Forbidden", {}, nonce, age)
             [] OTHER -> Outcome("Challenge", {"Basic"}, nonce, age)
    ELSE LET v == verify_digest(authz, method, path, users, nonce, age) IN
         CASE v = "ok" -> Outcome("Ok", {}, nonce, age)
           [] v = "StaleNonce" -> Outcome("Challenge", {"Digest"}, nonce + 1, 0)
           [] v = "BadCredentials" -> Outcome("Forbidden", {}, nonce, age)
           [] OTHER -> Outcome("Challenge", {"Digest"}, nonce, age)

\* Reference: a client that sends no header first and then answers each
\* challenge, with Basic where it prefers it and it is offered
Dialogue(name, pass, prefersBasic, method, path, users, is_tls, age) ==
    LET answer(o) == IF prefersBasic /\ "Basic" \in o.offers THEN Basic(name, pass)
                     ELSE Digest(name, pass, method, path, o.nonce)
        turn(o) == IF o.result # "Challenge" THEN o
                   ELSE authenticate(answer(o), method, path, users, is_tls, o.nonce, o.age)
    IN  turn(turn(authenticate(Absent, method, path, users, is_tls, 0, age)))

-----------------------------------------------------------------------------
(* The answer to a DESCRIBE or to the SETUP of a new session.  A camera is *)
(* the users it permits, in a function from the names the provider has;    *)
(* kinds are the streams the cameras can deliver.                          *)

\* CameraProvider::subscribe: the camera, its allow list, the stream
subscribe(camera, kind, user, permitted, kinds) ==
    IF camera \notin DOMAIN permitted THEN "UnknownCamera"
    ELSE IF user # "none" /\ permitted[camera] # {} /\ user \notin permitted[camera]
      THEN "AccessDenied"
    ELSE IF kind \in kinds THEN kind ELSE "Unavailable"

\* subscribe_with_extern_fallback
subscribe_with_extern_fallback(camera, kind, user, permitted, kinds) ==
    LET r == subscribe(camera, kind, user, permitted, kinds) IN
    IF r = "Unavailable" /\ kind = "Extern"
    THEN subscribe(camera, "Sub", user, permitted, kinds) ELSE r

\* dispatch_request, handle_describe and handle_setup in the order of their
\* early returns; serves is what the provider handed out, if anything
Answer(method, uri, authz, transport, is_tls, users, nonce, age, permitted, kinds) ==
    LET target == IF method = "SETUP" THEN SetupTarget(uri.path).target ELSE resolve(uri.path)
        auth == IF DOMAIN users = {} THEN Outcome("Ok", {}, nonce, age)
                ELSE authenticate(authz, method, uri.path, users, is_tls, nonce, age)
        user == IF DOMAIN users = {} THEN "none" ELSE authz.name
        stream == subscribe_with_extern_fallback(target.camera, target.stream, user, permitted,
                                                 kinds)
        refuse(status) == [status |-> status, serves |-> NotFound]
    IN  IF Admission(method, 1, uri.scheme, is_tls).status = "BadRequest" THEN refuse("BadRequest")
        ELSE IF target = NotFound THEN refuse("NotFound")
        ELSE IF auth.result = "Challenge" THEN refuse("Unauthorized")
        ELSE IF auth.result = "Forbidden" THEN refuse("Forbidden")
        ELSE IF method = "SETUP" /\ transport = "absent" THEN refuse("BadRequest")
        ELSE IF method = "SETUP" /\ transport \in {"Unsupported", "Malformed"}
          THEN refuse("UnsupportedTransport")
        ELSE IF stream = "UnknownCamera" THEN refuse("NotFound")
        ELSE IF stream = "AccessDenied" /\ method = "SETUP" THEN refuse("Forbidden")
        ELSE IF stream \in {"AccessDenied", "Unavailable"} THEN refuse("ServiceUnavailable")
        ELSE [status |-> "Ok", serves |-> [camera |-> target.camera, stream |-> stream]]

-----------------------------------------------------------------------------
(* What is checked                                                         *)

\* However a client's pipelined requests are cut by the reads, all of them
\* are taken, in order, once the last byte is there; a connection is closed
\* only over a request that is larger than the limit (try_consume_request
\* and the loop of handle_connection).
RequestsTaken ==
    \A rs \in UNION {[1..n -> {Request(h, b) : h \in {4, 6}, b \in {0, 3, 11, 20}}] : n \in 0..3} :
      \A cut \in 0..Sizes(rs) :
        LET first == Drain(rs, cut, 0)
            second == IF first.closed THEN first
                      ELSE Drain(first.left, first.bytes + Sizes(rs) - cut, first.taken)
            large == {i \in DOMAIN rs : Size(rs[i]) > MAX_REQUEST_BYTES}
        IN  IF large = {} THEN ~second.closed /\ second.taken = Len(rs)
            ELSE second.closed /\ second.taken + 1 = CHOOSE i \in large : \A j \in large : i <= j

\* Every track of a description is set up as the medium, the stream and the
\* camera it was described for, whichever spelling the DESCRIBE used (the
\* Content-Base of handle_describe, sdp::build, and handle_setup).  A
\* description always has video (stream_source.rs builds it with the codec).
TracksResolve ==
    \A camera \in {<<"cam">>}, stream \in {<<>>, <<"sub">>, <<"mainStream">>, <<"extern">>},
       slash \in {<<>>, <<"">>}, audio \in BOOLEAN :
      LET path == <<"">> \o camera \o stream \o slash
          media == build(TRUE, audio)
      IN  \A k \in 1..Len(media) :
            SetupTarget(ControlUri(ContentBase(path), k))
              = [target |-> resolve(path), medium |-> media[k]]

\* Exactly the listed users get in: a client with the right password does
\* after at most two challenges, however old the nonce of the connection,
\* and one without never; nobody gets in by Basic on a plain connection, nor
\* with a digest made for another path, method or nonce (authenticate).
OnlyUsersEnter ==
    LET users == [u \in {"a", "b"} |-> u]
        names == {"a", "b", "c"}
        paths == {"/cam", "/cam/sub"}
    IN  \A name \in names, pass \in names, is_tls \in BOOLEAN, age \in 0..3 :
          /\ \A prefersBasic \in BOOLEAN :
               Dialogue(name, pass, prefersBasic, "SETUP", "/cam", users, is_tls, age).result
                 = IF name \in DOMAIN users /\ users[name] = pass THEN "Ok" ELSE "Forbidden"
          /\ authenticate(Basic(name, pass), "SETUP", "/cam", users, FALSE, 0, age).result # "Ok"
          /\ \A method \in {"DESCRIBE", "SETUP"}, path \in paths, nonce \in 0..1 :
               authenticate(Digest(name, pass, method, path, nonce), "SETUP", "/cam", users,
                            is_tls, 0, age).result = "Ok"
                 => /\ name \in DOMAIN users /\ users[name] = pass
                    /\ method = "SETUP" /\ path = "/cam" /\ nonce = 0 /\ age < NONCE_TTL

=============================================================================
