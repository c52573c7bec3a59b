------------------------------ MODULE BcConnection ------------------------------
(***************************************************************************)
(* One connection to a camera: a reader task that queues what the camera   *)
(* sends, the poller that owns the table of subscriptions and hands each   *)
(* message to one of them, and clients that run camera commands over it.   *)
(* The camera (external) answers, refuses, stays silent or hangs up.       *)
(***************************************************************************)
EXTENDS BcCommands

CONSTANTS
    Clients,        \* tasks of the session that issue commands
    Session,        \* the client that logs in
    NumMax,         \* u16::MAX: message numbers wrap after it
    QueueCap,       \* capacity of poll_commander (200)
    SubCap,         \* capacity of a subscription's channel (100)
    MaxCommands,    \* bound: commands of a client
    MaxParts,       \* bound: messages of a stream or a snapshot
    NetCap,         \* bound: messages of the camera under way
    Configs,        \* login configurations
    CommandsOf(_)   \* the commands a client may run after the login

ASSUME ConnectionAssumption ==
    /\ {NumMax, QueueCap, SubCap} \subseteq Nat \ {0}
    /\ {MaxCommands, MaxParts} \subseteq Nat
    /\ Configs \subseteq LoginConfig
    /\ \A c \in Clients : \A plan \in CommandsOf(c) : Planned(plan) /\ plan[1].sub = "new"

VARIABLES
    message_num,    \* the next message number
    commands,       \* commands each client has started
    queue,          \* poll_commander
    subs,           \* the poller's table of subscribers
    handlers,       \* ids answered by a handler
    poller,         \* "run" or "dead"
    chan,           \* messages waiting in each channel
    open,           \* channels whose receiver is alive
    client,         \* state of each client
    config,         \* is_cloud, the password and the sigV3 handshake of this camera
    logged_in,      \* logged_in
    abilities,      \* what populate_abilities learnt
    closing,        \* shutdown: "no", "asked" or "done"
    toCamera,       \* requests on their way
    toApp,          \* messages of the camera on their way
    link,           \* "up", "lost" (an error) or "eof" (the camera hung up)
    parts           \* external: messages the camera has sent unasked

connVars == <<queue, subs, handlers, poller, closing>>
appVars == <<message_num, commands, client, config, logged_in, abilities>>
chanVars == <<chan, open>>
netVars == <<toCamera, toApp, link, parts>>
vars == <<connVars, appVars, chanVars, netVars>>

Nums == 0..NumMax
AnyNum == NumMax + 1                        \* Option<u16>::None
\* A channel, named by the request it was made for and by the kind of subscription.
Channel(num, kind) == <<num, kind>>
Channels == Nums \X {"new", "any", "number"}

Message(id, num, code, body) == [id |-> id, num |-> num, code |-> code, body |-> body]
ErrMessage == Message("error", AnyNum, 0, "empty")

Idle == [phase |-> "idle", plan |-> <<>>, num |-> AnyNum, ch |-> Channel(AnyNum, "new"),
         tried |-> 0]

\* A run begins before the login, which is then all it has, or in a session.
Init ==
    /\ \/ config \in Configs /\ logged_in = FALSE /\ abilities = "unknown"
       \/ config = (CHOOSE k \in Configs : TRUE) /\ logged_in = TRUE /\ abilities \in {"ro", "rw"}
    /\ message_num = NumMax
    /\ commands = [c \in Clients |-> IF logged_in \/ c = Session THEN 0 ELSE MaxCommands]
    /\ queue = <<[type |-> "AddHandler", id |-> "KEEP_ALIVE"]>>
    /\ subs = {} /\ handlers = {} /\ poller = "run"
    /\ chan = [c \in Channels |-> <<>>] /\ open = {}
    /\ client = [c \in Clients |-> Idle]
    /\ closing = "no" /\ toCamera = <<>> /\ toApp = <<>> /\ link = "up" /\ parts = 0

-----------------------------------------------------------------------------------
(* The clients. *)

Has(need) ==
    \/ need = NoNeed
    \/ abilities = "rw"
    \/ abilities = "ro" /\ need.kind = "ro"

Becomes(c, k) == client' = [client EXCEPT ![c] = k]

\* A command starts: the login first, then any other.
Start(c) ==
    /\ client[c].phase = "idle" /\ closing = "no" /\ link = "up" /\ commands[c] < MaxCommands
    /\ commands' = [commands EXCEPT ![c] = @ + 1]
    /\ \E plan \in IF logged_in THEN CommandsOf(c) ELSE {Login(config)} :
         /\ logged_in \/ c = Session
         /\ Becomes(c, IF plan = <<>> THEN Idle
                       ELSE [Idle EXCEPT !.phase = "gate", !.plan = plan])
    /\ UNCHANGED <<connVars, chanVars, netVars, message_num, config, logged_in, abilities>>

\* A receiver that is dropped takes what it had not read along.
Drop(chs) ==
    /\ open' = open \ chs
    /\ chan' = [ch \in Channels |-> IF ch \in chs THEN <<>> ELSE chan[ch]]

\* A command ends: its subscriptions are dropped with it.
End(c) ==
    /\ Becomes(c, Idle)
    /\ Drop({ch \in open : ch[1] = client[c].num})

\* The stop request of a video stream follows whatever happened to the stream.  The
\* stream's subscription lives until the stop is over, but nobody reads it any more.
EndOrStop(c) ==
    LET ch == client[c].ch
    IN  IF client[c].plan[1].reply = "stream"
        THEN /\ Becomes(c, [client[c] EXCEPT !.plan = Tail(client[c].plan), !.phase = "gate"])
             /\ chan' = [chan EXCEPT ![ch] = IF @ = <<>> THEN @ ELSE Tail(@)]
             /\ UNCHANGED open
        ELSE End(c)

\* Bound: a number comes round again, 2^16 requests later, only when nothing of its last
\* use is left.  (A channel is named by its number.)
NumberFree(num) ==
    /\ \A c \in Clients : client[c].num # num
    /\ \A ch \in open : ch[1] # num
    /\ \A s \in subs : s.ch[1] # num
    /\ \A i \in 1..Len(queue) : queue[i].type = "AddSubscriber" => queue[i].ch[1] # num
    /\ \A i \in 1..Len(queue) : queue[i].type = "Bc" => queue[i].msg.num # num
    /\ \A i \in 1..Len(toApp) : toApp[i].num # num
    /\ \A i \in 1..Len(toCamera) : toCamera[i].num # num

\* An exchange begins: ability gate, fresh number, subscription.  A snapshot's
\* second exchange replaces the subscription of the first.
Subscribe(c) ==
    LET x == client[c].plan[1]
        num == IF x.sub = "new" THEN message_num ELSE client[c].num
        ch == Channel(num, x.sub)
    IN  /\ client[c].phase = "gate" /\ Has(x.need) /\ poller = "run"
        /\ x.sub # "same" /\ Len(queue) < QueueCap
        /\ x.sub = "new" => NumberFree(num)
        /\ queue' = Append(queue, [type |-> "AddSubscriber", id |-> x.id, ch |-> ch,
                                   num |-> IF x.sub = "any" THEN AnyNum ELSE num])
        /\ LET old == IF x.sub = "number" THEN {} ELSE {o \in open : o[1] = client[c].num}
           IN  /\ open' = (open \ old) \cup {ch}
               /\ chan' = [o \in Channels |-> IF o \in old THEN <<>> ELSE chan[o]]
        /\ message_num' = IF x.sub = "new" THEN (message_num + 1) % (NumMax + 1) ELSE message_num
        /\ Becomes(c, [client[c] EXCEPT !.phase = IF x.reply = "chunks" THEN "wait" ELSE "send",
                                        !.num = num, !.ch = ch])
        /\ UNCHANGED <<subs, handlers, poller, closing, commands, config, logged_in, abilities, netVars>>

\* The gate refuses, or the connection is gone (the queue's receiver was dropped).
GateFails(c) ==
    LET x == client[c].plan[1]
    IN  /\ client[c].phase = "gate"
        /\ \/ ~Has(x.need) /\ End(c)
           \/ Has(x.need) /\ x.sub # "same" /\ poller = "dead" /\ End(c)
        /\ UNCHANGED <<connVars, netVars, message_num, commands, config, logged_in, abilities>>

\* BcSubscription::send, and the writer task.  A request after the link is gone
\* leads nowhere.
Send(c) ==
    LET x == client[c].plan[1]
    IN  /\ client[c].phase = "send" \/ (client[c].phase = "gate" /\ x.sub = "same")
        /\ toCamera' = IF link = "up" THEN Append(toCamera, [id |-> x.id, num |-> client[c].num,
                                                             reply |-> x.reply])
                       ELSE toCamera
        /\ IF x.reply = "none" THEN End(c)
           ELSE Becomes(c, [client[c] EXCEPT !.phase = "wait"]) /\ UNCHANGED chanVars
        /\ logged_in' = (logged_in /\ x.id # "LOGOUT")
        /\ UNCHANGED <<connVars, message_num, commands, config, abilities, toApp, link, parts>>

\* One reply has been judged.
Settle(c, r) ==
    LET plan == client[c].plan
        x == plan[1]
        v == Judge(x, r, client[c].tried)
        rest == Rest(plan, r, config)
        drained == [chan EXCEPT ![client[c].ch] = Tail(@)]
    IN  CASE v = "retry" ->
               /\ Becomes(c, [client[c] EXCEPT !.phase = "gate", !.tried = client[c].tried + 1])
               /\ chan' = drained /\ UNCHANGED open
          [] v = "more" \/ (v = "ok" /\ x.reply = "stream") ->
               /\ Becomes(c, [client[c] EXCEPT !.phase = IF v = "more" THEN "wait" ELSE "stream"])
               /\ chan' = drained /\ UNCHANGED open
          [] v = "ok" /\ x.reply # "stream" /\ rest # <<>> ->
               /\ Becomes(c, [client[c] EXCEPT !.phase = "gate", !.plan = rest, !.tried = 0])
               /\ chan' = drained /\ UNCHANGED open
          [] v = "ok" /\ x.reply # "stream" /\ rest = <<>> -> End(c)
          [] v \notin {"ok", "retry", "more"} /\ x.advisory ->
               IF Tail(plan) = <<>> THEN End(c)
               ELSE /\ Becomes(c, [client[c] EXCEPT !.phase = "gate", !.plan = Tail(plan)])
                    /\ chan' = drained /\ UNCHANGED open
          [] OTHER -> EndOrStop(c)

\* A piece makes the snapshot larger than MAX_SNAPSHOT_BYTES, or the last one leaves it
\* short of the size announced: sizes are left out, so any piece may.
Misfits(c) == client[c].plan[1].reply = "chunks"

\* BcSubscription::recv.  The reply to the login sets logged_in, the one to the
\* ability query the table of abilities.
Recv(c) ==
    /\ client[c].phase = "wait" /\ chan[client[c].ch] # <<>>
    /\ LET r == Head(chan[client[c].ch])
           x == client[c].plan[1]
       IN  /\ \/ (r = ErrMessage \/ Misfits(c)) /\ EndOrStop(c)
              \/ r # ErrMessage /\ Settle(c, r)
           /\ logged_in' = (logged_in \/ (/\ x.id = "LOGIN" /\ x.reply \in {"modern", "xml"}
                                          /\ Judge(x, r, 0) = "ok"))
           /\ IF x.id = "ABILITY_INFO" /\ Judge(x, r, 0) = "ok"
              THEN abilities' \in {"ro", "rw"} ELSE UNCHANGED abilities
    /\ UNCHANGED <<connVars, message_num, commands, config, netVars>>

\* A channel without a sender ends: DroppedSubscriber.
HasSender(ch) ==
    \/ \E s \in subs : s.ch = ch
    \/ \E i \in 1..Len(queue) : queue[i].type = "AddSubscriber" /\ queue[i].ch = ch
RecvNone(c) ==
    /\ client[c].phase \in {"wait", "stream"}
    /\ chan[client[c].ch] = <<>> /\ ~HasSender(client[c].ch)
    /\ EndOrStop(c)
    /\ UNCHANGED <<connVars, netVars, message_num, commands, config, logged_in, abilities>>

\* await_set_reply_with_quirk and the two-second wait for the stop reply: silence
\* is success.
QuirkTimeout(c) ==
    /\ client[c].phase = "wait" /\ client[c].plan[1].reply \in {"quirk", "stop"}
    /\ chan[client[c].ch] = <<>>
    /\ End(c)
    /\ UNCHANGED <<connVars, netVars, message_num, commands, config, logged_in, abilities>>

\* The stream's task hands a frame to its consumer.
StreamFrame(c) ==
    /\ client[c].phase = "stream" /\ chan[client[c].ch] # <<>>
    /\ IF Head(chan[client[c].ch]) = ErrMessage THEN EndOrStop(c)
       ELSE chan' = [chan EXCEPT ![client[c].ch] = Tail(@)] /\ UNCHANGED <<client, open>>
    /\ UNCHANGED <<connVars, netVars, message_num, commands, config, logged_in, abilities>>

\* StreamData::shutdown, or its drop.
StreamAbort(c) ==
    /\ client[c].phase = "stream"
    /\ Becomes(c, [client[c] EXCEPT !.plan = Tail(client[c].plan), !.phase = "gate"])
    /\ UNCHANGED chanVars
    /\ UNCHANGED <<connVars, netVars, message_num, commands, config, logged_in, abilities>>

\* The caller's own timeout drops the command.
GiveUp(c) ==
    /\ client[c].phase = "wait"
    /\ End(c)
    /\ UNCHANGED <<connVars, netVars, message_num, commands, config, logged_in, abilities>>

-----------------------------------------------------------------------------------
(* The connection's tasks. *)

\* Defect: the reader does not wait for room in the queue.
ReaderUnbounded ==
    /\ toApp # <<>> /\ poller = "run"
    /\ queue' = Append(queue, [type |-> "Bc", msg |-> Head(toApp)])
    /\ toApp' = Tail(toApp)
    /\ UNCHANGED <<subs, handlers, poller, closing, appVars, chanVars, toCamera, link, parts>>

\* The reader task queues what arrives.
Reader ==
    /\ toApp # <<>> /\ poller = "run" /\ Len(queue) < QueueCap
    /\ queue' = Append(queue, [type |-> "Bc", msg |-> Head(toApp)])
    /\ toApp' = Tail(toApp)
    /\ UNCHANGED <<subs, handlers, poller, closing, appVars, chanVars, toCamera, link, parts>>

\* A failing source is one last message; a source that ends ends the reader alone.
ReaderFails ==
    /\ toApp = <<>> /\ link = "lost" /\ poller = "run" /\ Len(queue) < QueueCap
    /\ \A i \in 1..Len(queue) : queue[i] # [type |-> "Bc", msg |-> ErrMessage]
    /\ queue' = Append(queue, [type |-> "Bc", msg |-> ErrMessage])
    /\ UNCHANGED <<subs, handlers, poller, closing, appVars, chanVars, netVars>>

\* The table without the subscribers that are gone.
Pruned == {s \in subs : s.ch \in open}

\* Defect: a message goes to any subscriber of its id.
TargetById(m) == {s \in Pruned : s.id = m.id}

\* The subscriber a message is for: its id and number, else a subscriber to any
\* number of the id.
Target(m) ==
    LET exact == {s \in Pruned : s.id = m.id /\ s.num = m.num}
    IN  IF exact # {} THEN exact ELSE {s \in Pruned : s.id = m.id /\ s.num = AnyNum}

Room(ch) == ch \notin open \/ Len(chan[ch]) < SubCap
Deliver(ch, m) == [chan EXCEPT ![ch] = IF ch \in open THEN Append(@, m) ELSE @]

\* A message: a handler of its id answers it; else its subscriber gets it, and the
\* poller waits while that subscriber's channel is full.
PollBc ==
    /\ poller = "run" /\ queue # <<>> /\ Head(queue).type = "Bc"
    /\ Head(queue).msg # ErrMessage
    /\ queue' = Tail(queue)
    /\ LET m == Head(queue).msg
       IN  \/ /\ m.id \in handlers
              /\ toCamera' = IF link = "up"
                             THEN Append(toCamera, [id |-> m.id, num |-> m.num, reply |-> "none"])
                             ELSE toCamera
              /\ subs' = Pruned /\ UNCHANGED chan
           \/ /\ m.id \notin handlers /\ Target(m) = {}
              /\ subs' = Pruned /\ UNCHANGED <<chan, toCamera>>
           \/ /\ m.id \notin handlers
              /\ \E s \in Target(m) :
                   /\ Room(s.ch)
                   /\ subs' = (Pruned \ {s}) \cup {[s EXCEPT !.num = m.num]}
                   /\ chan' = Deliver(s.ch, m)
              /\ UNCHANGED toCamera
    /\ UNCHANGED <<handlers, poller, closing, appVars, open, toApp, link, parts>>

\* Defect: the error ends the poller and is told to nobody, the table stays.
PollErrSilent ==
    /\ poller = "run" /\ queue # <<>> /\ Head(queue).type = "Bc"
    /\ Head(queue).msg = ErrMessage
    /\ poller' = "dead"
    /\ UNCHANGED <<subs, handlers, closing, appVars, chan, open, netVars, queue>>

\* An error: every subscriber is told, the tables are cleared, the poller ends and
\* with it everything still queued.
PollErr ==
    /\ poller = "run" /\ queue # <<>> /\ Head(queue).type = "Bc"
    /\ Head(queue).msg = ErrMessage
    /\ \A s \in Pruned : Room(s.ch)
    /\ chan' = [ch \in Channels |-> IF \E s \in Pruned : s.ch = ch
                                    THEN Append(chan[ch], ErrMessage) ELSE chan[ch]]
    /\ subs' = {} /\ handlers' = {} /\ queue' = <<>> /\ poller' = "dead"
    /\ UNCHANGED <<closing, appVars, open, netVars>>

\* Defect: a new subscription takes the place of all others to its id.
PollAddSubscriberById ==
    /\ poller = "run" /\ queue # <<>> /\ Head(queue).type = "AddSubscriber"
    /\ queue' = Tail(queue)
    /\ LET a == Head(queue)
       IN  subs' = {s \in Pruned : s.id # a.id} \cup {[id |-> a.id, num |-> a.num, ch |-> a.ch]}
    /\ UNCHANGED <<handlers, poller, closing, appVars, chanVars, netVars>>

\* A subscription to an id and number that is taken fails, unless its holder left.
PollAddSubscriber ==
    /\ poller = "run" /\ queue # <<>> /\ Head(queue).type = "AddSubscriber"
    /\ queue' = Tail(queue)
    /\ LET a == Head(queue)
       IN  IF \E s \in Pruned : s.id = a.id /\ s.num = a.num
           THEN chan' = Deliver(a.ch, ErrMessage) /\ subs' = Pruned
           ELSE /\ subs' = Pruned \cup {[id |-> a.id, num |-> a.num, ch |-> a.ch]}
                /\ UNCHANGED chan
    /\ UNCHANGED <<handlers, poller, closing, appVars, open, netVars>>

\* A handler is entered in the table; keepalive is the only caller of handle_msg and calls
\* it once per connection, so that the id is never taken.
PollAddHandler ==
    /\ poller = "run" /\ queue # <<>> /\ Head(queue).type = "AddHandler"
    /\ queue' = Tail(queue) /\ subs' = Pruned
    /\ handlers' = handlers \cup {Head(queue).id}
    /\ UNCHANGED <<poller, closing, appVars, chanVars, netVars>>

\* shutdown: Disconnect goes through the queue and so waits for room in it; then
\* every task is cancelled.
Shutdown ==
    /\ closing = "no" /\ logged_in
    /\ closing' = "asked"
    /\ UNCHANGED <<queue, subs, handlers, poller, appVars, chanVars, netVars>>
ShutdownCancel ==
    /\ closing = "asked"
    /\ poller = "dead" \/ Len(queue) < QueueCap
    /\ closing' = "done" /\ poller' = "dead"
    /\ queue' = <<>> /\ subs' = {} /\ handlers' = {}
    /\ toApp' = <<>> /\ link' = IF link = "up" THEN "lost" ELSE link
    /\ UNCHANGED <<appVars, chanVars, toCamera, parts>>

-----------------------------------------------------------------------------------
(* External: the camera. *)

Replies(q) ==
    CASE q.reply = "xml" ->
            {Message(q.id, q.num, 200, "element"), Message(q.id, q.num, 400, "empty")}
            \cup (IF q.id = "FLOODLIGHT_TASKS_READ" THEN {Message(q.id, q.num, 200, "already")}
                  ELSE IF q.id = "SNAP" THEN {Message(q.id, q.num, 200, "huge")}
                  ELSE IF q.id = "GET_ABILITY_SUPPORT"
                  THEN {Message(q.id, q.num, 200, b) : b \in {"exists", "missing"}} ELSE {})
      [] q.reply = "offer" -> {Message(q.id, q.num, 200, b) : b \in Offers \cup {"empty"}}
      [] q.reply = "binary" -> {Message(q.id, q.num, 200, b) : b \in {"binary", "empty"}}
      [] q.reply = "modern" -> {Message(q.id, q.num, 200, b) : b \in {"element", "empty"}}
                               \cup {Message(q.id, q.num, 400, "empty")}
      [] OTHER -> {Message(q.id, q.num, code, "element") : code \in {200, 400}}

\* A request is answered; a setting may be taken in silence.
CamAnswer ==
    /\ toCamera # <<>> /\ link = "up" /\ Len(toApp) < NetCap
    /\ toCamera' = Tail(toCamera)
    /\ LET q == Head(toCamera)
       IN  \/ q.reply # "none" /\ \E m \in Replies(q) : toApp' = Append(toApp, m)
           \/ q.reply \in {"quirk", "stop", "none"} /\ UNCHANGED toApp
    /\ UNCHANGED <<connVars, appVars, chanVars, link, parts>>

\* What the camera sends unasked: its keepalive, frames of a running stream under
\* the stream's number, the parts of a snapshot under a number of its own.
CamSends ==
    /\ link = "up" /\ parts < MaxParts /\ logged_in /\ Len(toApp) < NetCap
    /\ \/ toApp' = Append(toApp, Message("KEEP_ALIVE", 0, 0, "empty"))
       \/ \E c \in Clients : client[c].phase = "stream"
            /\ toApp' = Append(toApp, Message("VIDEO", client[c].num, 200, "part"))
       \/ \E c \in Clients : client[c].phase \in {"wait"} /\ client[c].plan[1].reply = "chunks"
            /\ \E code \in {200, 201} : toApp' = Append(toApp, Message("SNAP", 0, code, "part"))
    /\ parts' = parts + 1
    /\ UNCHANGED <<connVars, appVars, chanVars, toCamera, link>>

CamHangsUp ==
    /\ link = "up" /\ logged_in
    /\ link' \in {"lost", "eof"} /\ toCamera' = <<>>
    /\ UNCHANGED <<connVars, appVars, chanVars, toApp, parts>>

Next ==
    \/ \E c \in Clients :
         \/ Start(c) \/ Subscribe(c) \/ GateFails(c) \/ Send(c) \/ Recv(c) \/ RecvNone(c)
         \/ QuirkTimeout(c) \/ StreamFrame(c) \/ StreamAbort(c) \/ GiveUp(c)
    \/ Reader \/ ReaderFails \/ PollBc \/ PollErr \/ PollAddSubscriber \/ PollAddHandler
    \/ Shutdown \/ ShutdownCancel \/ CamAnswer \/ CamSends \/ CamHangsUp

\* The runtime schedules every task; the camera answers what it is asked.  Nobody
\* promises a further command, a timeout, a shutdown or a message of the camera.
Fairness ==
    /\ \A c \in Clients : WF_vars(Subscribe(c) \/ GateFails(c) \/ Send(c) \/ Recv(c)
                                 \/ RecvNone(c) \/ QuirkTimeout(c) \/ StreamFrame(c))
    /\ WF_vars(Reader \/ ReaderFails)
    /\ WF_vars(PollBc \/ PollErr \/ PollAddSubscriber \/ PollAddHandler)
    /\ WF_vars(ShutdownCancel)
    /\ WF_vars(CamAnswer)

Spec == Init /\ [][Next]_vars /\ Fairness

-----------------------------------------------------------------------------------
(* Properties. *)

Codes == {0, 200, 201, 400, 421}
TypeOK ==
    /\ message_num \in Nums /\ commands \in [Clients -> 0..MaxCommands]
    /\ poller \in {"run", "dead"} /\ closing \in {"no", "asked", "done"}
    /\ open \subseteq Channels /\ handlers \subseteq {"KEEP_ALIVE"}
    /\ \A ch \in Channels : Len(chan[ch]) <= SubCap + 1
    /\ Len(queue) <= QueueCap
    /\ \A s \in subs : s.ch \in Channels /\ s.num \in Nums \cup {AnyNum}
    /\ \A c \in Clients : client[c].phase \in {"idle", "gate", "send", "wait", "stream"}
    /\ link \in {"up", "lost", "eof"} /\ abilities \in {"unknown", "ro", "rw"}

\* What a client finds in its channel answers its own request: it bears the id
\* and the number of the request, or, for a subscription to any number, one number
\* throughout.  (Poller::run; BcSubscription::recv drops anything else as an error.)
OwnReply ==
    \A c \in Clients : client[c].phase \in {"send", "wait", "stream"} =>
        LET got == {m \in {chan[client[c].ch][i] : i \in 1..Len(chan[client[c].ch])} :
                      m # ErrMessage}
        IN  /\ \A m \in got : m.id = client[c].plan[1].id
            /\ IF client[c].plan[1].sub = "any" THEN Cardinality({m.num : m \in got}) <= 1
               ELSE \A m \in got : m.num = client[c].num

\* What the poller's tables keep: bounded queues, and to each client its own replies.
ReplySafety == TypeOK /\ OwnReply

\* A reply that is under way reaches the client that waits for it: it stays under
\* way, gets into the client's channel, or the client has moved on or the poller
\* has ended.  (subscribe before send; the poller prunes only subscribers that left.)
UnderWay ==
    {toApp[i] : i \in 1..Len(toApp)}
    \cup {queue[i].msg : i \in {j \in 1..Len(queue) : queue[j].type = "Bc"}}
NoReplyLost ==
    [][\A c \in Clients : \A m \in UnderWay :
         (/\ client[c].phase = "wait" /\ client[c].plan[1].sub # "any"
          /\ m.id = client[c].plan[1].id /\ m.num = client[c].num)
         => \/ m \in UnderWay'
            \/ \E i \in 1..Len(chan'[client[c].ch]) : chan'[client[c].ch][i] = m
            \/ client'[c] # client[c]
            \/ poller' = "dead"]_vars

\* The poller is stuck: what it has to deliver is for the full channel of a stream
\* that nobody reads any more, and whose task waits for room in the poller's queue
\* to subscribe to the reply to its stop request.
Stuck ==
    /\ poller = "run" /\ Len(queue) = QueueCap /\ Head(queue).type = "Bc"
    /\ \E c \in Clients :
          /\ client[c].phase = "gate" /\ client[c].plan[1].reply = "stop"
          /\ ~Room(client[c].ch)
          /\ \E s \in Pruned :
                /\ s.ch = client[c].ch
                /\ Head(queue).msg = ErrMessage \/ s \in Target(Head(queue).msg)

\* Every command gets an answer or an error, whatever the camera answers, when the
\* connection fails and when it is shut down.  Three waits are excepted: a camera that
\* hangs up without an error leaves a command waiting for its caller's timeout, a
\* snapshot waits for parts the camera need not send, and an abandoned stream can
\* stop the poller for good (bcconn.rs 362), and with it every command of the
\* connection.  And shutdown ends although its Disconnect has to find room in
\* the poller's queue, with the same exception.
EveryCommandEnds ==
    /\ \A c \in Clients :
        (client[c].phase = "wait" /\ client[c].plan[1].reply # "chunks")
        ~> (client[c].phase # "wait" \/ link = "eof" \/ Stuck)
    /\ closing = "asked" ~> (closing = "done" \/ Stuck)

\* A stream whose consumer has gone is stopped: the stop request leaves, unless the
\* link fails first.  (StreamData, "When this object is dropped the streaming is
\* stopped"; the task subscribes to the stop reply while it still holds the stream's
\* full channel, and the poller that would make room waits for that channel.)
\* It fails: README, 3.
StreamStops ==
    \A c \in Clients :
        (client[c].phase = "gate" /\ client[c].plan[1].reply = "stop")
        ~> (client[c].phase = "idle" \/ link # "up")
===================================================================================
