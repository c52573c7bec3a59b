---------------------------- MODULE BcConnectionProofs ----------------------------
(***************************************************************************)
(* Proofs about BcConnection, for any number of clients, any commands that *)
(* are planned as those of BcCommands, and any capacities: what a client   *)
(* finds in its channel answers the request it made.  The invariant is in  *)
(* two parts.  The poller's part is about channels: each is subscribed at  *)
(* most once, and holds messages of one id and number only.  The clients'  *)
(* part ties a client to its channel: whatever the table holds for that    *)
(* channel was entered for the exchange the client is in.  Below them,     *)
(* proofs about what a login rests on: Cloud, the account that mints its   *)
(* credentials, and BcCodec, the encryption both ends agree on.            *)
(***************************************************************************)
EXTENDS BcConnection, Cloud, BcCodec, TLAPS, FiniteSetTheorems

Bodies == Elements \cup Offers \cup {"binary", "part", "other", "empty"}
BcMsg == [id : MsgIds, num : Nums, code : Nat, body : Bodies]
Subscriber == [id : MsgIds, num : Nums \cup {AnyNum}, ch : Channels]
Item ==
    [type : {"Bc"}, msg : BcMsg \cup {ErrMessage}]
    \cup [type : {"AddSubscriber"}, id : MsgIds, ch : Channels, num : Nums \cup {AnyNum}]
    \cup [type : {"AddHandler"}, id : {"KEEP_ALIVE"}]
Kinds == {"xml", "anyxml", "ok", "quirk", "none", "offer", "modern", "binary", "chunks", "stream",
          "stop"}
Request == [id : MsgIds, num : Nums, reply : Kinds]

\* A subscription that the poller has not entered yet.
Asks(i) == i \in 1..Len(queue) /\ queue[i].type = "AddSubscriber"

\* The messages in a channel, errors aside.
Msgs(q) == {q[i] : i \in 1..Len(q)} \ {ErrMessage}
Got(ch) == Msgs(chan[ch])

Typed ==
    /\ message_num \in Nums /\ commands \in [Clients -> 0..MaxCommands]
    /\ poller \in {"run", "dead"} /\ closing \in {"no", "asked", "done"}
    /\ handlers \subseteq {"KEEP_ALIVE"}
    /\ link \in {"up", "lost", "eof"} /\ abilities \in {"unknown", "ro", "rw"}

TableInv ==
    /\ queue \in Seq(Item) /\ Len(queue) <= QueueCap
    /\ subs \subseteq Subscriber
    /\ toApp \in Seq(BcMsg) /\ toCamera \in Seq(Request)
    /\ \A s, t \in subs : s.ch = t.ch => s = t
    /\ \A s \in subs, i \in Nat : Asks(i) => queue[i].ch # s.ch
    /\ \A i, j \in Nat : Asks(i) /\ Asks(j) /\ queue[i].ch = queue[j].ch => i = j

\* A channel nobody reads, or that the poller does not know yet, is empty; another one
\* holds what was sent to the one id and number its subscription is for.
ChanInv ==
    /\ open \subseteq Channels
    /\ chan \in [Channels -> Seq(BcMsg \cup {ErrMessage})]
    /\ \A ch \in Channels : Len(chan[ch]) <= SubCap
    /\ \A ch \in Channels \ open : chan[ch] = <<>>
    /\ \A i \in Nat : Asks(i) => chan[queue[i].ch] = <<>>
    /\ \A s \in subs : \A m \in Got(s.ch) : m.id = s.id /\ m.num = s.num
    /\ \A ch \in Channels : \A m, n \in Got(ch) : m.num = n.num

\* The client reads its channel now, or will without subscribing anew.
Listening(k) == k.phase \in {"send", "wait", "stream"} \/ (k.phase = "gate" /\ k.plan[1].sub = "same")
Kind(k) == IF k.plan[1].sub = "same" THEN "new" ELSE k.plan[1].sub
Fits(k, r) == r.id = k.plan[1].id /\ (k.plan[1].sub # "any" => r.num = k.num)
Unused(ch) ==
    /\ ch \notin open
    /\ \A s \in subs : s.ch # ch
    /\ \A i \in Nat : Asks(i) => queue[i].ch # ch

Client ==
    [phase : {"gate", "send", "wait", "stream"}, plan : Seq(Exchanges), num : Nums \cup {AnyNum},
     ch : (Nums \cup {AnyNum}) \X {"new", "any", "number"}, tried : Nat]

Busy(k) ==
    /\ k \in Client
    /\ Planned(k.plan)
    /\ k.num \in Nums \/ (k.num = AnyNum /\ k.phase = "gate" /\ k.plan[1].sub = "new")
    /\ k.phase = "stream" => k.plan[1].reply = "stream"

\* What the table and the channel hold for the exchange the client is in.
Listens(k) ==
    /\ k.ch = Channel(k.num, Kind(k)) /\ k.num \in Nums
    /\ \A s \in subs : s.ch = k.ch => Fits(k, s)
    /\ \A i \in Nat : Asks(i) /\ queue[i].ch = k.ch => Fits(k, queue[i])
    /\ \A m \in Got(k.ch) : Fits(k, m)

\* A later exchange of the command finds its channel unused.
Ahead(k) ==
    k.phase = "gate" \/ k.plan[1].sub \notin {"any", "number"} =>
        Unused(Channel(k.num, "any")) /\ Unused(Channel(k.num, "number"))

ClientInv(k) == k = Idle \/ (Busy(k) /\ (Listening(k) => Listens(k)) /\ Ahead(k))

ClientsInv ==
    /\ client = [c \in Clients |-> client[c]]
    /\ \A c \in Clients : \A k \in {client[c]} : ClientInv(k)
    /\ \A c, d \in Clients : c # d /\ client[c].num \in Nums => client[d].num # client[c].num

IndInv == Typed /\ TableInv /\ ChanInv /\ ClientsInv
-----------------------------------------------------------------------------------
(* Plans. *)

\* What is left of a plan is a plan, and goes on where the first exchange ended.
Continues(x, rest) == Planned(rest) /\ (rest[1].sub = "same" => Follows(x, rest[1]))

\* What is left of a plan after its first exchange continues it.
LEMMA TailPlanned ==
    ASSUME NEW plan, Planned(plan), Tail(plan) # <<>>
    PROVE  Continues(plan[1], Tail(plan)) /\ plan[1].sub \in {"new", "same"}
<1>1. plan \in Seq(Exchanges) /\ Len(plan) \in Nat /\ Len(plan) > 1
    BY DEF Planned
<1>2. /\ Tail(plan) \in Seq(Exchanges) /\ Len(Tail(plan)) = Len(plan) - 1
      /\ \A i \in 1..Len(Tail(plan)) : Tail(plan)[i] = plan[i + 1]
    BY <1>1
<1>3. \A i \in 1..Len(Tail(plan)) : Sound(Tail(plan)[i])
    BY <1>1, <1>2 DEF Planned
<1>4. ASSUME NEW i \in 1..Len(Tail(plan)) - 1
      PROVE  Follows(Tail(plan)[i], Tail(plan)[i + 1])
    <2>1. /\ i + 1 \in 1..Len(plan) - 1
          /\ Tail(plan)[i] = plan[i + 1] /\ Tail(plan)[i + 1] = plan[(i + 1) + 1]
        BY <1>1, <1>2
    <2> QED
        BY <2>1 DEF Planned
<1>5. Tail(plan)[Len(Tail(plan))].reply # "stream"
    <2>1. Tail(plan)[Len(Tail(plan))] = plan[Len(plan)]
        BY <1>1, <1>2
    <2> QED
        BY <2>1 DEF Planned
<1>6. Follows(plan[1], Tail(plan)[1])
    <2>1. 1 \in 1..Len(plan) - 1 /\ Tail(plan)[1] = plan[1 + 1]
        BY <1>1, <1>2
    <2> QED
        BY <2>1 DEF Planned
<1>7. Planned(Tail(plan))
    BY <1>2, <1>3, <1>4, <1>5 DEF Planned
<1> QED
    BY <1>6, <1>7 DEF Continues, Follows

\* A sequence of positive length.
LEMMA NotEmpty == ASSUME NEW s, Len(s) \in Nat \ {0} PROVE s # <<>>
OBVIOUS

\* One exchange that is sound makes a plan.
LEMMA OnePlanned ==
    ASSUME NEW x \in Exchanges, Sound(x), x.reply # "stream"
    PROVE  Planned(<<x>>) /\ <<x>>[1] = x
BY DEF Planned

\* Two exchanges that fit together make a plan.
LEMMA TwoPlanned ==
    ASSUME NEW x \in Exchanges, NEW y \in Exchanges, Sound(x), Sound(y), Follows(x, y),
           y.reply # "stream"
    PROVE  Planned(<<x>> \o <<y>>) /\ (<<x>> \o <<y>>)[1] = x
<1> DEFINE s == <<x>> \o <<y>>
<1>1. s \in Seq(Exchanges) /\ Len(s) = 2 /\ s[1] = x /\ s[2] = y
    OBVIOUS
<1> HIDE DEF s
<1>2. \A i \in 1..Len(s) : Sound(s[i])
    <2>1. \A i \in 1..2 : i = 1 \/ i = 2
        OBVIOUS
    <2> QED
        BY <1>1, <2>1
<1>3. \A i \in 1..Len(s) - 1 : Follows(s[i], s[i + 1])
    <2>1. \A i \in 1..2 - 1 : i = 1 /\ i + 1 = 2
        OBVIOUS
    <2> QED
        BY <1>1, <2>1
<1>4. s # <<>> /\ s[Len(s)].reply # "stream"
    <2>0. Len(s) \in Nat \ {0}
        BY <1>1
    <2>1. s # <<>>
        BY <2>0, NotEmpty
    <2>2. s[Len(s)] = y
        BY <1>1
    <2> QED
        BY <2>1, <2>2
<1>5. Planned(s) /\ s[1] = x
    BY <1>1, <1>2, <1>3, <1>4 DEF Planned
<1> QED
    BY <1>5 DEF s

\* Three exchanges that fit together make a plan.
LEMMA ThreePlanned ==
    ASSUME NEW x \in Exchanges, NEW y \in Exchanges, NEW z \in Exchanges,
           Sound(x), Sound(y), Sound(z), Follows(x, y), Follows(y, z), z.reply # "stream"
    PROVE  Planned(<<x, y>> \o <<z>>) /\ (<<x, y>> \o <<z>>)[1] = x
<1> DEFINE s == <<x, y>> \o <<z>>
<1>1. s \in Seq(Exchanges) /\ Len(s) = 3 /\ s[1] = x /\ s[2] = y /\ s[3] = z
    <2>1. <<x, y>> \in Seq(Exchanges) /\ Len(<<x, y>>) = 2 /\ <<z>> \in Seq(Exchanges) /\ Len(<<z>>) = 1
        OBVIOUS
    <2> QED
        BY <2>1
<1> HIDE DEF s
<1>2. \A i \in 1..Len(s) : Sound(s[i])
    <2>1. \A i \in 1..3 : i = 1 \/ i = 2 \/ i = 3
        OBVIOUS
    <2> QED
        BY <1>1, <2>1
<1>3. \A i \in 1..Len(s) - 1 : Follows(s[i], s[i + 1])
    <2>1. \A i \in 1..3 - 1 : (i = 1 /\ i + 1 = 2) \/ (i = 2 /\ i + 1 = 3)
        OBVIOUS
    <2> QED
        BY <1>1, <2>1
<1>4. s # <<>> /\ s[Len(s)].reply # "stream"
    <2>1. s # <<>>
        BY <1>1, NotEmpty
    <2>2. s[Len(s)] = z
        BY <1>1
    <2> QED
        BY <2>1, <2>2
<1>5. Planned(s) /\ s[1] = x
    BY <1>1, <1>2, <1>3, <1>4 DEF Planned
<1> QED
    BY <1>5 DEF s

\* The exchanges of a login.
LEMMA LoginExchanges ==
    /\ {Upgrade, Modern, GetAccesskey, AuthLogin, SigV3} \subseteq Exchanges
    /\ populate_abilities[1] \in Exchanges /\ populate_abilities = <<populate_abilities[1]>>
    /\ finish_cloud_login[1] \in Exchanges /\ finish_cloud_login = <<finish_cloud_login[1]>>
    /\ populate_abilities[1].sub = "new" /\ populate_abilities[1].reply = "xml"
    /\ finish_cloud_login[1].sub = "new" /\ finish_cloud_login[1].reply = "xml"
<1>1. ASSUME NEW id \in MsgIds, NEW reply \in {"offer", "modern", "binary", "xml"},
             NEW refuse \in {"-", "CameraLoginFail", "CameraServiceUnavailable"}
      PROVE  Exchange(id, NoNeed, reply, refuse) \in Exchanges
    <2>1. NoNeed \in Needs
        BY DEF Needs
    <2> QED
        BY <2>1 DEF Exchange, Exchanges
<1>2. ASSUME NEW x \in Exchanges PROVE [x EXCEPT !.sub = "same"] \in Exchanges
    BY DEF Exchanges
<1>3. {Upgrade, Modern, GetAccesskey, AuthLogin, SigV3} \subseteq Exchanges
    <2> "LOGIN" \in MsgIds
        BY DEF MsgIds
    <2>1. \A reply \in {"offer", "modern", "binary", "xml"}, refuse \in {"-", "CameraLoginFail"} :
             Exchange("LOGIN", NoNeed, reply, refuse) \in Exchanges
        BY <1>1
    <2>2. Upgrade \in Exchanges /\ SigV3 \in Exchanges
        BY <2>1 DEF Upgrade, SigV3
    <2>3. Modern \in Exchanges /\ GetAccesskey \in Exchanges /\ AuthLogin \in Exchanges
        BY <1>2, <2>1 DEF Modern, GetAccesskey, AuthLogin
    <2> QED
        BY <2>2, <2>3
<1>4. /\ populate_abilities[1] \in Exchanges /\ populate_abilities = <<populate_abilities[1]>>
      /\ populate_abilities[1].sub = "new" /\ populate_abilities[1].reply = "xml"
    <2> "ABILITY_INFO" \in MsgIds
        BY DEF MsgIds
    <2>1. populate_abilities = <<Exchange("ABILITY_INFO", NoNeed, "xml", "CameraServiceUnavailable")>>
        BY DEF populate_abilities, get_abilityinfo, Get
    <2>2. populate_abilities[1] = Exchange("ABILITY_INFO", NoNeed, "xml", "CameraServiceUnavailable")
        BY <2>1
    <2>3. populate_abilities[1] \in Exchanges
        BY <1>1, <2>2
    <2>4. populate_abilities[1].sub = "new" /\ populate_abilities[1].reply = "xml"
        BY <2>2 DEF Exchange
    <2> QED
        BY <2>1, <2>2, <2>3, <2>4
<1>5. /\ finish_cloud_login[1] = [populate_abilities[1] EXCEPT !.advisory = TRUE]
      /\ finish_cloud_login = <<finish_cloud_login[1]>>
    BY DEF finish_cloud_login, Advisory
<1>6. /\ finish_cloud_login[1] \in Exchanges
      /\ finish_cloud_login[1].sub = "new" /\ finish_cloud_login[1].reply = "xml"
    BY <1>4, <1>5 DEF Exchanges
<1> QED
    BY <1>3, <1>4, <1>5, <1>6

\* What follows the camera's offer goes on with the login or begins anew.
LEMMA OfferPlanned ==
    ASSUME NEW cfg, NEW offer, NEW x, x.id = "LOGIN", x.sub = "new", AfterOffer(cfg, offer) # <<>>
    PROVE  Continues(x, AfterOffer(cfg, offer))
<1> DEFINE p == populate_abilities[1]
           f == finish_cloud_login[1]
<1>1. /\ Modern.id = "LOGIN" /\ Modern.sub = "same" /\ Modern.reply = "modern"
      /\ SigV3.id = "LOGIN" /\ SigV3.sub = "new" /\ SigV3.reply = "xml"
      /\ GetAccesskey.id = "LOGIN" /\ GetAccesskey.sub = "same" /\ GetAccesskey.reply = "binary"
      /\ AuthLogin.id = "LOGIN" /\ AuthLogin.sub = "same" /\ AuthLogin.reply = "xml"
    BY DEF Modern, SigV3, GetAccesskey, AuthLogin, Exchange
<1>2. AfterOffer(cfg, offer) \in {<<Modern>> \o <<p>>, <<SigV3>> \o <<f>>,
                                  <<GetAccesskey, AuthLogin>> \o <<f>>}
    <2>1. AfterOffer(cfg, offer) \in {<<Modern>> \o populate_abilities, <<SigV3>> \o finish_cloud_login,
                                      run_authlogin \o finish_cloud_login, <<>>}
        BY DEF AfterOffer
    <2> QED
        BY <2>1, LoginExchanges DEF run_authlogin
<1>3. /\ Planned(<<Modern>> \o <<p>>) /\ (<<Modern>> \o <<p>>)[1] = Modern
      /\ Planned(<<SigV3>> \o <<f>>) /\ (<<SigV3>> \o <<f>>)[1] = SigV3
    BY <1>1, LoginExchanges, TwoPlanned DEF Sound, Follows
<1>4. /\ Planned(<<GetAccesskey, AuthLogin>> \o <<f>>)
      /\ (<<GetAccesskey, AuthLogin>> \o <<f>>)[1] = GetAccesskey
    BY <1>1, LoginExchanges, ThreePlanned DEF Sound, Follows
<1> HIDE DEF p, f
<1> QED
    BY <1>1, <1>2, <1>3, <1>4 DEF Continues, Follows

\* The login begins with a subscription of its own.
LEMMA LoginPlanned ==
    ASSUME NEW cfg, Login(cfg) # <<>>
    PROVE  Planned(Login(cfg)) /\ Login(cfg)[1].sub = "new"
<1> DEFINE f == finish_cloud_login[1]
<1>1. /\ SigV3.id = "LOGIN" /\ SigV3.sub = "new" /\ SigV3.reply = "xml"
      /\ Upgrade.id = "LOGIN" /\ Upgrade.sub = "new" /\ Upgrade.reply = "offer"
    BY DEF Upgrade, SigV3, Exchange
<1>2. Login(cfg) \in {<<SigV3>> \o <<f>>, <<Upgrade>>}
    <2>1. Login(cfg) \in {<<SigV3>> \o finish_cloud_login, <<Upgrade>>, <<>>}
        BY DEF Login
    <2> QED
        BY <2>1, LoginExchanges
<1>3. Planned(<<SigV3>> \o <<f>>) /\ (<<SigV3>> \o <<f>>)[1] = SigV3
    BY <1>1, LoginExchanges, TwoPlanned DEF Sound, Follows
<1>4. Planned(<<Upgrade>>) /\ <<Upgrade>>[1] = Upgrade
    BY <1>1, LoginExchanges, OnePlanned DEF Sound
<1> HIDE DEF f
<1> QED
    BY <1>1, <1>2, <1>3, <1>4
-----------------------------------------------------------------------------------
(* Channels. *)

\* What is in a channel that is empty, has been read from, or was delivered to.
LEMMA MsgsEmpty == Msgs(<<>>) = {}
BY DEF Msgs

\* Reading a channel takes messages out of it and adds none.
LEMMA MsgsTail ==
    ASSUME NEW S, NEW q \in Seq(S), q # <<>>
    PROVE  /\ Msgs(Tail(q)) \subseteq Msgs(q)
           /\ Tail(q) \in Seq(S) /\ Len(Tail(q)) <= Len(q)
<1>1. /\ Len(q) \in Nat /\ Len(q) > 0 /\ Tail(q) \in Seq(S) /\ Len(Tail(q)) = Len(q) - 1
      /\ \A i \in 1..Len(Tail(q)) : i + 1 \in 1..Len(q) /\ Tail(q)[i] = q[i + 1]
    OBVIOUS
<1> QED
    BY <1>1 DEF Msgs

\* Sending to a channel adds the one message that is sent.
LEMMA MsgsAppend ==
    ASSUME NEW S, NEW q \in Seq(S), NEW m \in S
    PROVE  /\ Msgs(Append(q, m)) = Msgs(q) \cup ({m} \ {ErrMessage})
           /\ Append(q, m) \in Seq(S) /\ Len(Append(q, m)) = Len(q) + 1
<1>1. /\ Len(q) \in Nat /\ Append(q, m) \in Seq(S) /\ Len(Append(q, m)) = Len(q) + 1
      /\ \A i \in 1..Len(q) : Append(q, m)[i] = q[i]
      /\ Append(q, m)[Len(q) + 1] = m
    OBVIOUS
<1>2. \A i \in 1..Len(q) + 1 : i \in 1..Len(q) \/ i = Len(q) + 1
    BY <1>1
<1>3. \A i \in 1..Len(q) : i \in 1..Len(q) + 1
    BY <1>1
<1>4. Len(q) + 1 \in 1..Len(q) + 1
    BY <1>1
<1>5. ASSUME NEW x \in Msgs(Append(q, m)) PROVE x \in Msgs(q) \cup ({m} \ {ErrMessage})
    <2>1. PICK i \in 1..Len(q) + 1 : x = Append(q, m)[i] /\ x # ErrMessage
        BY <1>1, <1>5 DEF Msgs
    <2> QED
        BY <1>1, <1>2, <2>1 DEF Msgs
<1>6. Msgs(q) \subseteq Msgs(Append(q, m))
    BY <1>1, <1>3 DEF Msgs
<1>7. m # ErrMessage => m \in Msgs(Append(q, m))
    BY <1>1, <1>4 DEF Msgs
<1> QED
    BY <1>1, <1>5, <1>6, <1>7

\* An error adds no message.
LEMMA ErrAppends ==
    ASSUME NEW q \in Seq(BcMsg \cup {ErrMessage})
    PROVE  /\ Msgs(Append(q, ErrMessage)) = Msgs(q)
           /\ Append(q, ErrMessage) \in Seq(BcMsg \cup {ErrMessage})
           /\ Len(Append(q, ErrMessage)) = Len(q) + 1
<1>1. ErrMessage \in BcMsg \cup {ErrMessage}
    OBVIOUS
<1>2. /\ Msgs(Append(q, ErrMessage)) = Msgs(q) \cup ({ErrMessage} \ {ErrMessage})
      /\ Append(q, ErrMessage) \in Seq(BcMsg \cup {ErrMessage})
      /\ Len(Append(q, ErrMessage)) = Len(q) + 1
    BY <1>1, MsgsAppend
<1> QED
    BY <1>2

\* A step of a client only takes messages out of channels and closes channels.
Shrinks ==
    /\ UNCHANGED <<queue, subs>>
    /\ open' \subseteq open
    /\ chan' \in [Channels -> Seq(BcMsg \cup {ErrMessage})]
    /\ \A ch \in Channels :
          /\ Len(chan'[ch]) <= Len(chan[ch])
          /\ Msgs(chan'[ch]) \subseteq Msgs(chan[ch])
          /\ chan[ch] = <<>> => chan'[ch] = <<>>
          /\ ch \notin open' => chan'[ch] = <<>>

\* A step that leaves table and channels alone shrinks nothing.
LEMMA SameShrinks ==
    ASSUME ChanInv, UNCHANGED <<queue, subs, chan, open>>
    PROVE  Shrinks
<1>1. \A ch \in Channels : Len(chan[ch]) \in Nat
    BY DEF ChanInv
<1> QED
    BY <1>1 DEF ChanInv, Shrinks

\* A client that reads a message only takes from its channel (BcSubscription::recv).
LEMMA DrainShrinks ==
    ASSUME ChanInv, UNCHANGED <<queue, subs, open>>, NEW ch \in Channels,
           chan' = [chan EXCEPT ![ch] = IF chan[ch] = <<>> THEN chan[ch] ELSE Tail(chan[ch])]
    PROVE  Shrinks
<1>1. \A o \in Channels : chan[o] \in Seq(BcMsg \cup {ErrMessage}) /\ Len(chan[o]) \in Nat
    BY DEF ChanInv
<1>2. \A o \in Channels : chan'[o] = IF o = ch /\ chan[o] # <<>> THEN Tail(chan[o]) ELSE chan[o]
    BY DEF ChanInv
<1>3. chan' = [o \in Channels |-> chan'[o]]
    BY DEF ChanInv
<1>4. ASSUME NEW o \in Channels
      PROVE  /\ chan'[o] \in Seq(BcMsg \cup {ErrMessage})
             /\ Len(chan'[o]) <= Len(chan[o])
             /\ Msgs(chan'[o]) \subseteq Msgs(chan[o])
             /\ chan[o] = <<>> => chan'[o] = <<>>
             /\ o \notin open' => chan'[o] = <<>>
    <2>1. CASE o = ch /\ chan[o] # <<>>
        <3>1. chan'[o] = Tail(chan[o])
            BY <1>2, <2>1
        <3>2. o \in open
            BY <2>1 DEF ChanInv
        <3> QED
            BY <1>1, <2>1, <3>1, <3>2, MsgsTail
    <2>2. CASE ~(o = ch /\ chan[o] # <<>>)
        <3>1. chan'[o] = chan[o]
            BY <1>2, <2>2
        <3> QED
            BY <1>1, <3>1 DEF ChanInv
    <2> QED
        BY <2>1, <2>2
<1> QED
    BY <1>3, <1>4 DEF Shrinks

\* A receiver that is dropped only empties its channels (BcSubscription).
LEMMA DropShrinks ==
    ASSUME ChanInv, UNCHANGED <<queue, subs>>, NEW chs, Drop(chs)
    PROVE  Shrinks
<1>1. \A o \in Channels : chan[o] \in Seq(BcMsg \cup {ErrMessage}) /\ Len(chan[o]) \in Nat
    BY DEF ChanInv
<1>2. /\ open' = open \ chs
      /\ \A o \in Channels : chan'[o] = IF o \in chs THEN <<>> ELSE chan[o]
    BY DEF Drop
<1>3. chan' = [o \in Channels |-> chan'[o]]
    BY DEF Drop
<1>4. ASSUME NEW o \in Channels
      PROVE  /\ chan'[o] \in Seq(BcMsg \cup {ErrMessage})
             /\ Len(chan'[o]) <= Len(chan[o])
             /\ Msgs(chan'[o]) \subseteq Msgs(chan[o])
             /\ chan[o] = <<>> => chan'[o] = <<>>
             /\ o \notin open' => chan'[o] = <<>>
    <2>1. CASE o \in chs
        <3>1. chan'[o] = <<>>
            BY <1>2, <2>1
        <3> QED
            BY <1>1, <3>1, MsgsEmpty
    <2>2. CASE o \notin chs
        <3>1. chan'[o] = chan[o] /\ (o \notin open' => o \notin open)
            BY <1>2, <2>2
        <3> QED
            BY <1>1, <3>1 DEF ChanInv
    <2> QED
        BY <2>1, <2>2
<1> QED
    BY <1>2, <1>3, <1>4 DEF Shrinks

\* The poller's part of the invariant survives it.
LEMMA ShrinkKeeps ==
    ASSUME TableInv, ChanInv, Shrinks, toApp' \in Seq(BcMsg), toCamera' \in Seq(Request)
    PROVE  TableInv' /\ ChanInv'
<1>1. queue' = queue /\ subs' = subs
    BY DEF Shrinks
<1>2. \A i \in Nat : Asks(i)' <=> Asks(i)
    BY <1>1 DEF Asks
<1>3. TableInv'
    BY <1>1, <1>2 DEF TableInv
<1>4. \A ch \in Channels : Len(chan'[ch]) <= SubCap
    <2>1. \A ch \in Channels : Len(chan'[ch]) \in Nat /\ Len(chan[ch]) \in Nat /\ SubCap \in Nat
        BY ConnectionAssumption DEF Shrinks, ChanInv
    <2> QED
        BY <2>1 DEF Shrinks, ChanInv
<1>5. \A i \in Nat : Asks(i) => queue[i].ch \in Channels
    BY DEF TableInv, Asks, Item
<1>6. \A s \in subs : s.ch \in Channels
    BY DEF TableInv, Subscriber
<1>7. \A i \in Nat : Asks(i)' => chan'[queue'[i].ch] = <<>>
    BY <1>1, <1>2, <1>5 DEF Shrinks, ChanInv
<1>8. \A ch \in Channels : Got(ch)' \subseteq Got(ch)
    BY DEF Got, Shrinks
<1>9. \A s \in subs' : \A m \in Got(s.ch)' : m.id = s.id /\ m.num = s.num
    BY <1>1, <1>6, <1>8 DEF ChanInv
<1>10. \A ch \in Channels : \A m, n \in Got(ch)' : m.num = n.num
    BY <1>8 DEF ChanInv
<1>11. open' \subseteq Channels
    BY DEF Shrinks, ChanInv
<1> QED
    BY <1>3, <1>4, <1>7, <1>9, <1>10, <1>11 DEF ChanInv, Shrinks
-----------------------------------------------------------------------------------
(* Clients. *)

\* A client that listens has a channel.
LEMMA ListensOn ==
    ASSUME NEW k, Busy(k), Listens(k)
    PROVE  /\ k.ch \in Channels /\ k.num \in Nums
           /\ k.plan[1] \in Exchanges /\ Sound(k.plan[1])
           /\ Kind(k) \in {"new", "any", "number"}
<1>1. k.plan \in Seq(Exchanges) /\ k.plan # <<>> /\ \A i \in 1..Len(k.plan) : Sound(k.plan[i])
    BY DEF Busy, Planned
<1>2. k.plan[1] \in Exchanges /\ 1 \in 1..Len(k.plan)
    BY <1>1
<1>3. k.plan[1].sub \in {"new", "same", "any", "number"}
    BY <1>2 DEF Exchanges
<1>4. Kind(k) \in {"new", "any", "number"}
    BY <1>3 DEF Kind
<1>5. k.ch \in Channels
    BY <1>4 DEF Listens, Channel, Channels
<1> QED
    BY <1>1, <1>2, <1>4, <1>5 DEF Listens

\* What a client relies on is not touched by channels that shrink.
LEMMA UnusedStays ==
    ASSUME Shrinks, NEW ch, Unused(ch)
    PROVE  Unused(ch)'
BY DEF Shrinks, Unused, Asks

\* What a client's channel holds still fits it when channels only shrink.
LEMMA ListensStays ==
    ASSUME Shrinks, NEW k, Busy(k), Listens(k)
    PROVE  Listens(k)'
<1>1. queue' = queue /\ subs' = subs /\ k.ch \in Channels
    BY ListensOn DEF Shrinks
<1>2. Got(k.ch)' \subseteq Got(k.ch)
    BY <1>1 DEF Shrinks, Got
<1>3. \A i \in Nat : Asks(i)' <=> Asks(i)
    BY <1>1 DEF Asks
<1> QED
    BY <1>1, <1>2, <1>3 DEF Listens, Fits, Kind

\* The invariant of a client survives steps that only shrink channels.
LEMMA ClientStays ==
    ASSUME Shrinks, NEW k, ClientInv(k)
    PROVE  ClientInv(k)'
<1>1. CASE k = Idle
    BY <1>1 DEF ClientInv, Idle
<1>2. CASE k # Idle
    <2>1. Busy(k) /\ (Listening(k) => Listens(k)) /\ Ahead(k)
        BY <1>2 DEF ClientInv
    <2>2. Listening(k) => Listens(k)'
        BY <2>1, ListensStays
    <2>3. Ahead(k)'
        BY <2>1, UnusedStays DEF Ahead
    <2>4. Busy(k)'
        BY <2>1 DEF Busy
    <2>5. Listening(k)' => Listens(k)'
        BY <2>2 DEF Listening
    <2> QED
        BY <2>3, <2>4, <2>5 DEF ClientInv
<1> QED
    BY <1>1, <1>2

\* The exchange goes on: the client waits, or has its stream.
LEMMA ClientWaits ==
    ASSUME Shrinks, NEW k, NEW n \in Client, ClientInv(k), k # Idle, Listening(k),
           n.phase \in {"wait", "stream"}, n.phase = "stream" => k.plan[1].reply = "stream",
           n.plan = k.plan, n.num = k.num, n.ch = k.ch
    PROVE  ClientInv(n)'
<1>1. Busy(k) /\ Listens(k) /\ Ahead(k)
    BY DEF ClientInv
<1>2. Listens(k)' /\ k.num \in Nums
    BY <1>1, ListensStays DEF Listens
<1>3. Listens(n)'
    BY <1>2 DEF Listens, Fits, Kind
<1>4. Busy(n)'
    BY <1>1, <1>2 DEF Busy, Client
<1>5. Ahead(n)'
    <2>1. SUFFICES ASSUME n.plan[1].sub \notin {"any", "number"}
                   PROVE  Unused(Channel(n.num, "any"))' /\ Unused(Channel(n.num, "number"))'
        BY DEF Ahead, Channel
    <2>2. Unused(Channel(k.num, "any")) /\ Unused(Channel(k.num, "number"))
        BY <1>1, <2>1 DEF Ahead
    <2>3. \A ch : Unused(ch) => Unused(ch)'
        BY UnusedStays
    <2>4. \A ch : ch = Channel(k.num, "any") => Unused(ch)'
        BY <2>2, <2>3
    <2>5. \A ch : ch = Channel(k.num, "number") => Unused(ch)'
        BY <2>2, <2>3
    <2> QED
        BY <2>4, <2>5 DEF Unused, Channel
<1> QED
    BY <1>3, <1>4, <1>5 DEF ClientInv

\* The next exchange begins.
LEMMA ClientAdvances ==
    ASSUME Shrinks, NEW k, NEW n \in Client, ClientInv(k), k # Idle, Listening(k),
           k.plan[1].sub \in {"new", "same"}, Continues(k.plan[1], n.plan),
           n.phase = "gate", n.num = k.num, n.ch = k.ch
    PROVE  ClientInv(n)'
<1>1. Busy(k) /\ Listens(k) /\ Ahead(k)
    BY DEF ClientInv
<1>2. Listens(k)' /\ k.num \in Nums
    BY <1>1, ListensStays DEF Listens
<1>3. Listening(n)' => Listens(n)'
    <2>1. SUFFICES ASSUME n.plan[1].sub = "same" PROVE Listens(n)'
        BY DEF Listening
    <2>2. n.plan[1].id = k.plan[1].id
        BY <2>1 DEF Continues, Follows
    <2>3. Kind(n) = Kind(k) /\ Kind(k) = "new"
        BY <2>1 DEF Kind
    <2>4. \A r : Fits(k, r) => Fits(n, r)
        BY <2>1, <2>2 DEF Fits
    <2> QED
        BY <1>2, <2>3, <2>4 DEF Listens, Fits, Kind
<1>4. Busy(n)'
    BY <1>1, <1>2 DEF Busy, Continues
<1>5. Ahead(n)'
    <2>1. Unused(Channel(k.num, "any")) /\ Unused(Channel(k.num, "number"))
        BY <1>1 DEF Ahead
    <2>2. \A ch : Unused(ch) => Unused(ch)'
        BY UnusedStays
    <2>3. \A ch : ch = Channel(k.num, "any") => Unused(ch)'
        BY <2>1, <2>2
    <2>4. \A ch : ch = Channel(k.num, "number") => Unused(ch)'
        BY <2>1, <2>2
    <2> QED
        BY <2>3, <2>4 DEF Ahead, Unused, Channel
<1> QED
    BY <1>3, <1>4, <1>5 DEF ClientInv

\* One client moves on and keeps its number or gives it up.
LEMMA ClientMoves ==
    ASSUME ClientsInv, Shrinks, NEW c \in Clients, NEW n, Becomes(c, n), ClientInv(n)',
           n.num \in {client[c].num, AnyNum}
    PROVE  ClientsInv'
<1>1. client' = [client EXCEPT ![c] = n] /\ client = [d \in Clients |-> client[d]]
    BY DEF Becomes, ClientsInv
<1>2. \A d \in Clients : client'[d] = IF d = c THEN n ELSE client[d]
    BY <1>1
<1>3. client' = [d \in Clients |-> client'[d]]
    BY <1>1
<1>4. \A k : ClientInv(k) => ClientInv(k)'
    BY ClientStays
<1>5. \A d \in Clients : \A k \in {client'[d]} : ClientInv(k)'
    BY <1>2, <1>4 DEF ClientsInv
<1>6. AnyNum \notin Nums
    BY ConnectionAssumption DEF AnyNum, Nums
<1>7. \A d, e \in Clients : d # e /\ client'[d].num \in Nums => client'[e].num # client'[d].num
    BY <1>2, <1>6 DEF ClientsInv
<1> QED
    BY <1>3, <1>5, <1>7 DEF ClientsInv

\* A client ends its command.
LEMMA ClientEnds ==
    ASSUME ClientsInv, ChanInv, UNCHANGED <<queue, subs>>, NEW c \in Clients, End(c)
    PROVE  Shrinks /\ ClientsInv'
<1>1. Shrinks
    BY DropShrinks DEF End
<1>2. \A n : n = Idle => ClientInv(n)'
    BY DEF ClientInv, Idle
<1>3. Idle.num = AnyNum /\ Becomes(c, Idle)
    BY DEF Idle, End
<1>4. \A n : n = Idle => Becomes(c, n) /\ n.num = AnyNum
    BY <1>3
<1> QED
    BY <1>1, <1>2, <1>4, ClientMoves
-----------------------------------------------------------------------------------
(* The clients' steps. *)

\* Only a reply that carries an element is asked for again.
LEMMA RetryIsXml ==
    ASSUME NEW x \in Exchanges, NEW r, NEW tried, Judge(x, r, tried) = "retry"
    PROVE  x.reply = "xml"
BY DEF Judge, Exchanges

\* A stream has its stop ahead.
LEMMA StreamTail ==
    ASSUME NEW plan, Planned(plan), plan[1].reply = "stream"
    PROVE  Tail(plan) # <<>>
<1>1. plan \in Seq(Exchanges) /\ plan # <<>> /\ plan[Len(plan)].reply # "stream"
    BY DEF Planned
<1>2. Len(plan) \in Nat /\ Len(plan) > 1
    BY <1>1
<1>3. Len(Tail(plan)) \in Nat \ {0}
    BY <1>1, <1>2
<1> QED
    BY <1>3, NotEmpty

\* A client that waits or streams has its channel.
LEMMA Waiting ==
    ASSUME ClientsInv, NEW c \in Clients, client[c].phase \in {"wait", "stream"}
    PROVE  \E k \in Client :
              /\ k = client[c] /\ k # Idle /\ Listening(k) /\ Busy(k) /\ ClientInv(k)
              /\ k.ch \in Channels /\ k.num \in Nums /\ k.plan[1] \in Exchanges /\ Sound(k.plan[1])
<1>1. PICK k : k = client[c]
    OBVIOUS
<1>2. ClientInv(k) /\ k.phase \in {"wait", "stream"}
    BY <1>1 DEF ClientsInv
<1>3. k # Idle /\ Listening(k)
    BY <1>2 DEF Idle, Listening
<1>4. Busy(k) /\ Listens(k)
    BY <1>2, <1>3 DEF ClientInv
<1>5. k \in Client
    BY <1>4 DEF Busy
<1> QED
    BY <1>1, <1>2, <1>3, <1>4, <1>5, ListensOn

\* A command that ends, or goes on to stop its stream, keeps the clients' invariant.
LEMMA EndOrStopKeeps ==
    ASSUME ClientsInv, ChanInv, UNCHANGED <<queue, subs>>, NEW c \in Clients,
           client[c].phase \in {"wait", "stream"}, EndOrStop(c)
    PROVE  Shrinks /\ ClientsInv'
<1>1. PICK k \in Client :
              /\ k = client[c] /\ k # Idle /\ Listening(k) /\ Busy(k) /\ ClientInv(k)
              /\ k.ch \in Channels /\ k.num \in Nums /\ k.plan[1] \in Exchanges /\ Sound(k.plan[1])
    BY Waiting
<1>2. CASE k.plan[1].reply = "stream"
    <2> DEFINE n == [k EXCEPT !.plan = Tail(k.plan), !.phase = "gate"]
    <2>1. /\ Becomes(c, n) /\ open' = open
          /\ chan' = [chan EXCEPT ![k.ch] = IF chan[k.ch] = <<>> THEN chan[k.ch] ELSE Tail(chan[k.ch])]
        BY <1>1, <1>2 DEF EndOrStop
    <2>2. Shrinks
        BY <1>1, <2>1, DrainShrinks
    <2>3. Tail(k.plan) # <<>>
        BY <1>1, <1>2, StreamTail DEF Busy
    <2>4. Continues(k.plan[1], Tail(k.plan)) /\ k.plan[1].sub \in {"new", "same"}
        BY <1>1, <2>3, TailPlanned DEF Busy
    <2>5. n \in Client /\ n.plan = Tail(k.plan) /\ n.phase = "gate" /\ n.num = k.num /\ n.ch = k.ch
        BY <1>1, <2>4 DEF Client, Continues, Planned
    <2> HIDE DEF n
    <2>6. ClientInv(n)'
        BY <1>1, <2>2, <2>4, <2>5, ClientAdvances
    <2> QED
        BY <1>1, <2>1, <2>2, <2>5, <2>6, ClientMoves
<1>3. CASE k.plan[1].reply # "stream"
    BY <1>1, <1>3, ClientEnds DEF EndOrStop
<1> QED
    BY <1>2, <1>3

\* Whatever a reply is judged to be.
LEMMA SettleKeeps ==
    ASSUME ClientsInv, ChanInv, UNCHANGED <<queue, subs>>, NEW c \in Clients,
           client[c].phase = "wait", chan[client[c].ch] # <<>>, NEW r, Settle(c, r)
    PROVE  Shrinks /\ ClientsInv'
<1>1. PICK k \in Client :
              /\ k = client[c] /\ k # Idle /\ Listening(k) /\ Busy(k) /\ ClientInv(k)
              /\ k.ch \in Channels /\ k.num \in Nums /\ k.plan[1] \in Exchanges /\ Sound(k.plan[1])
    BY Waiting
<1> DEFINE x == k.plan[1]
           v == Judge(x, r, k.tried)
           rest == Rest(k.plan, r, config)
           Drained == chan' = [chan EXCEPT ![k.ch] = Tail(chan[k.ch])] /\ open' = open
<1>2. ASSUME Drained PROVE Shrinks
    <2>1. chan' = [chan EXCEPT ![k.ch] = IF chan[k.ch] = <<>> THEN chan[k.ch] ELSE Tail(chan[k.ch])]
        BY <1>1, <1>2
    <2> QED
        BY <1>1, <1>2, <2>1, DrainShrinks
<1>3. ASSUME NEW plan, NEW tried \in Nat, Drained, Continues(x, plan), x.sub \in {"new", "same"},
             Becomes(c, [k EXCEPT !.phase = "gate", !.plan = plan, !.tried = tried])
      PROVE  Shrinks /\ ClientsInv'
    <2> DEFINE n == [k EXCEPT !.phase = "gate", !.plan = plan, !.tried = tried]
    <2>1. n \in Client /\ n.plan = plan /\ n.phase = "gate" /\ n.num = k.num /\ n.ch = k.ch
        BY <1>1, <1>3 DEF Client, Continues, Planned
    <2>2. Becomes(c, n)
        BY <1>3
    <2> HIDE DEF n
    <2>3. ClientInv(n)'
        BY <1>1, <1>2, <1>3, <2>1, ClientAdvances
    <2> QED
        BY <1>1, <1>2, <1>3, <2>1, <2>2, <2>3, ClientMoves
<1>4. k.tried \in Nat /\ k.tried + 1 \in Nat
    BY DEF Client
<1>5. CASE v = "retry"
    <2>1. x.reply = "xml"
        BY <1>1, <1>5, RetryIsXml
    <2>2. x.sub \in {"new", "same"}
        BY <1>1, <2>1 DEF Sound, Exchanges
    <2>3. Continues(x, k.plan)
        BY <1>1, <2>2 DEF Continues, Follows, Busy
    <2>4. Drained /\ Becomes(c, [k EXCEPT !.phase = "gate", !.tried = k.tried + 1])
        BY <1>1, <1>5 DEF Settle
    <2>5. [k EXCEPT !.phase = "gate", !.tried = k.tried + 1]
          = [k EXCEPT !.phase = "gate", !.plan = k.plan, !.tried = k.tried + 1]
        BY DEF Client
    <2>6. Becomes(c, [k EXCEPT !.phase = "gate", !.plan = k.plan, !.tried = k.tried + 1])
        BY <2>4, <2>5 DEF Becomes
    <2> QED
        BY <1>3, <1>4, <2>2, <2>3, <2>4, <2>6
<1>6. CASE v = "more" \/ (v = "ok" /\ x.reply = "stream")
    <2> DEFINE n == [k EXCEPT !.phase = IF v = "more" THEN "wait" ELSE "stream"]
    <2>1. Drained /\ Becomes(c, n)
        BY <1>1, <1>6 DEF Settle
    <2>2. /\ n \in Client /\ n.plan = k.plan /\ n.phase \in {"wait", "stream"} /\ n.num = k.num
          /\ n.ch = k.ch /\ (n.phase = "stream" => x.reply = "stream")
        BY <1>6 DEF Client
    <2> HIDE DEF n
    <2>3. ClientInv(n)'
        BY <1>1, <1>2, <2>1, <2>2, ClientWaits
    <2> QED
        BY <1>1, <1>2, <2>1, <2>2, <2>3, ClientMoves
<1>7. CASE v = "ok" /\ x.reply # "stream" /\ rest # <<>>
    <2>1. Drained /\ Becomes(c, [k EXCEPT !.phase = "gate", !.plan = rest, !.tried = 0])
        BY <1>1, <1>7 DEF Settle
    <2>2. Continues(x, rest) /\ x.sub \in {"new", "same"}
        <3>1. CASE x.reply = "offer"
            <4>1. rest = AfterOffer(config, r.body) /\ x.id = "LOGIN" /\ x.sub = "new"
                BY <1>1, <3>1 DEF Rest, Sound
            <4> QED
                BY <1>7, <4>1, OfferPlanned
        <3>2. CASE x.reply # "offer"
            <4>1. rest = Tail(k.plan)
                BY <1>7, <3>2 DEF Rest
            <4> QED
                BY <1>1, <1>7, <4>1, TailPlanned DEF Busy
        <3> QED
            BY <3>1, <3>2
    <2> QED
        BY <1>3, <2>1, <2>2
<1>8. CASE v = "ok" /\ x.reply # "stream" /\ rest = <<>>
    BY <1>1, <1>8, ClientEnds DEF Settle
<1>9. CASE v \notin {"ok", "retry", "more"} /\ x.advisory
    <2>1. CASE Tail(k.plan) = <<>>
        BY <1>1, <1>9, <2>1, ClientEnds DEF Settle
    <2>2. CASE Tail(k.plan) # <<>>
        <3>1. Drained /\ Becomes(c, [k EXCEPT !.phase = "gate", !.plan = Tail(k.plan)])
            BY <1>1, <1>9, <2>2 DEF Settle
        <3>2. [k EXCEPT !.phase = "gate", !.plan = Tail(k.plan)]
              = [k EXCEPT !.phase = "gate", !.plan = Tail(k.plan), !.tried = k.tried]
            BY DEF Client
        <3>3. Becomes(c, [k EXCEPT !.phase = "gate", !.plan = Tail(k.plan), !.tried = k.tried])
            BY <3>1, <3>2 DEF Becomes
        <3>4. Continues(x, Tail(k.plan)) /\ x.sub \in {"new", "same"}
            BY <1>1, <2>2, TailPlanned DEF Busy
        <3> QED
            BY <1>3, <1>4, <3>1, <3>3, <3>4
    <2> QED
        BY <2>1, <2>2
<1>10. CASE v \notin {"ok", "retry", "more"} /\ ~x.advisory
    <2>1. EndOrStop(c)
        BY <1>1, <1>10 DEF Settle
    <2> QED
        BY <2>1, EndOrStopKeeps
<1> QED
    BY <1>5, <1>6, <1>7, <1>8, <1>9, <1>10
\* A step of a client that subscribes to nothing.
LEMMA StartKeeps ==
    ASSUME IndInv, NEW c \in Clients, Start(c)
    PROVE  IndInv'
<1>1. /\ UNCHANGED <<queue, subs, handlers, poller, closing, chan, open, toCamera, toApp, link,
                     message_num, abilities>>
      /\ commands[c] < MaxCommands /\ commands' = [commands EXCEPT ![c] = commands[c] + 1]
    BY DEF Start, connVars, chanVars, netVars
<1>2. Typed'
    <2>1. MaxCommands \in Nat /\ commands[c] \in 0..MaxCommands
        BY ConnectionAssumption DEF IndInv, Typed
    <2>2. commands[c] + 1 \in 0..MaxCommands
        BY <1>1, <2>1
    <2>3. commands' \in [Clients -> 0..MaxCommands]
        BY <1>1, <2>2 DEF IndInv, Typed
    <2> QED
        BY <1>1, <2>3 DEF IndInv, Typed
<1>3. Shrinks
    BY <1>1, SameShrinks DEF IndInv
<1>4. TableInv' /\ ChanInv'
    BY <1>1, <1>3, ShrinkKeeps DEF IndInv, TableInv
<1>5. PICK plan \in (IF logged_in THEN CommandsOf(c) ELSE {Login(config)}) :
           Becomes(c, IF plan = <<>> THEN Idle ELSE [Idle EXCEPT !.phase = "gate", !.plan = plan])
    BY DEF Start
<1>6. CASE plan = <<>>
    <2>1. \A n : n = Idle => Becomes(c, n) /\ n.num = AnyNum /\ ClientInv(n)'
        BY <1>5, <1>6 DEF Idle, ClientInv
    <2>2. ClientsInv'
        BY <1>3, <2>1, ClientMoves DEF IndInv
    <2> QED
        BY <1>2, <1>4, <2>2 DEF IndInv
<1>7. CASE plan # <<>>
    <2> DEFINE n == [Idle EXCEPT !.phase = "gate", !.plan = plan]
    <2>1. Planned(plan) /\ plan[1].sub = "new"
        BY <1>5, <1>7, LoginPlanned, ConnectionAssumption
    <2>2. Becomes(c, n)
        BY <1>5, <1>7
    <2>3. /\ n \in Client /\ n.phase = "gate" /\ n.plan = plan /\ n.num = AnyNum
        BY <2>1 DEF Idle, Client, Planned, Channel
    <2> HIDE DEF n
    <2>4. Busy(n)' /\ ~Listening(n)
        BY <2>1, <2>3 DEF Busy, Listening
    <2>5. AnyNum \notin Nums
        BY ConnectionAssumption DEF AnyNum, Nums
    <2>6. \A ch : ch \notin Channels => Unused(ch)'
        <3>1. open' \subseteq Channels /\ \A s \in subs' : s.ch \in Channels
            BY <1>4 DEF ChanInv, TableInv, Subscriber
        <3>2. \A i \in Nat : Asks(i)' => queue'[i].ch \in Channels
            BY <1>4 DEF TableInv, Asks, Item
        <3> QED
            BY <3>1, <3>2 DEF Unused
    <2>7. \A ch : ch \in {Channel(AnyNum, "any"), Channel(AnyNum, "number")} => ch \notin Channels
        BY <2>5 DEF Channel, Channels
    <2>8. Ahead(n)'
        BY <2>3, <2>6, <2>7 DEF Ahead, Unused, Channel
    <2>9. ClientInv(n)'
        BY <2>4, <2>8 DEF ClientInv, Listening
    <2>10. ClientsInv'
        BY <1>3, <2>2, <2>3, <2>9, ClientMoves DEF IndInv
    <2> QED
        BY <1>2, <1>4, <2>10 DEF IndInv
<1> QED
    BY <1>6, <1>7

\* A request that is sent keeps the invariant (BcSubscription::send).
LEMMA SendKeeps ==
    ASSUME IndInv, NEW c \in Clients, Send(c)
    PROVE  IndInv'
<1>1. UNCHANGED <<queue, subs, handlers, poller, closing, toApp, link, message_num, commands, abilities>>
    BY DEF Send, connVars
<1>2. PICK k : k = client[c]
    OBVIOUS
<1>3. ClientInv(k) /\ k # Idle /\ Listening(k)
    BY <1>2 DEF Send, IndInv, ClientsInv, Listening, Idle
<1>4. Busy(k) /\ Listens(k)
    BY <1>3 DEF ClientInv
<1>5. k \in Client /\ k.num \in Nums /\ k.plan[1] \in Exchanges
    BY <1>4, ListensOn DEF Busy
<1>6. Typed'
    BY <1>1 DEF IndInv, Typed
<1>7. toCamera' \in Seq(Request)
    <2>1. [id |-> k.plan[1].id, num |-> k.num, reply |-> k.plan[1].reply] \in Request
        BY <1>5 DEF Request, Exchanges, Kinds
    <2>2. toCamera' = toCamera
          \/ toCamera' = Append(toCamera, [id |-> k.plan[1].id, num |-> k.num, reply |-> k.plan[1].reply])
        BY <1>2 DEF Send
    <2> QED
        BY <2>1, <2>2 DEF IndInv, TableInv
<1>8. Shrinks /\ ClientsInv'
    <2>1. CASE k.plan[1].reply = "none"
        BY <1>1, <1>2, <2>1, ClientEnds DEF Send, IndInv
    <2>2. CASE k.plan[1].reply # "none"
        <3> DEFINE n == [k EXCEPT !.phase = "wait"]
        <3>1. Becomes(c, n) /\ chan' = chan /\ open' = open
            BY <1>2, <2>2 DEF Send, chanVars
        <3>2. Shrinks
            BY <1>1, <3>1, SameShrinks DEF IndInv
        <3>3. n \in Client /\ n.phase = "wait" /\ n.plan = k.plan /\ n.num = k.num /\ n.ch = k.ch
            BY <1>5 DEF Client
        <3> HIDE DEF n
        <3>4. ClientInv(n)'
            BY <1>3, <3>2, <3>3, ClientWaits
        <3> QED
            BY <1>2, <3>1, <3>2, <3>3, <3>4, ClientMoves DEF IndInv
    <2> QED
        BY <2>1, <2>2
<1>9. TableInv' /\ ChanInv'
    BY <1>1, <1>7, <1>8, ShrinkKeeps DEF IndInv, TableInv
<1> QED
    BY <1>6, <1>8, <1>9 DEF IndInv

\* The steps that only read the client's channel or end its command.
LEMMA ReadsKeep ==
    ASSUME IndInv, NEW c \in Clients,
           \/ GateFails(c) \/ Recv(c) \/ RecvNone(c) \/ QuirkTimeout(c) \/ StreamFrame(c)
           \/ StreamAbort(c) \/ GiveUp(c)
    PROVE  IndInv'
<1>1. /\ UNCHANGED <<queue, subs, handlers, poller, closing, toApp, toCamera, link, message_num, commands>>
      /\ abilities' \in {"ro", "rw"} \/ abilities' = abilities
    BY DEF GateFails, Recv, RecvNone, QuirkTimeout, StreamFrame, StreamAbort, GiveUp, connVars, netVars
<1>2. Typed'
    BY <1>1 DEF IndInv, Typed
<1>3. SUFFICES Shrinks /\ ClientsInv'
    <2> SUFFICES ASSUME Shrinks, ClientsInv' PROVE IndInv'
        OBVIOUS
    <2>1. TableInv' /\ ChanInv'
        BY <1>1, ShrinkKeeps DEF IndInv, TableInv
    <2> QED
        BY <1>2, <2>1 DEF IndInv
<1>4. ASSUME client[c].phase \in {"wait", "stream"}, EndOrStop(c) PROVE Shrinks /\ ClientsInv'
    BY <1>1, <1>4, EndOrStopKeeps DEF IndInv
<1>5. CASE GateFails(c) \/ QuirkTimeout(c) \/ GiveUp(c)
    BY <1>1, <1>5, ClientEnds DEF IndInv, GateFails, QuirkTimeout, GiveUp
<1>6. CASE RecvNone(c)
    BY <1>4, <1>6 DEF RecvNone
<1>7. CASE Recv(c)
    <2>1. client[c].phase = "wait" /\ chan[client[c].ch] # <<>>
          /\ (EndOrStop(c) \/ Settle(c, Head(chan[client[c].ch])))
        BY <1>7 DEF Recv
    <2>2. PICK r : r = Head(chan[client[c].ch])
        OBVIOUS
    <2>3. EndOrStop(c) \/ Settle(c, r)
        BY <2>1, <2>2
    <2> QED
        BY <1>1, <1>4, <2>1, <2>3, SettleKeeps DEF IndInv
<1>8. CASE StreamFrame(c)
    <2>1. client[c].phase = "stream" /\ chan[client[c].ch] # <<>>
        BY <1>8 DEF StreamFrame
    <2>2. CASE EndOrStop(c)
        BY <1>4, <2>1, <2>2
    <2>3. CASE ~EndOrStop(c)
        <3>1. /\ chan' = [chan EXCEPT ![client[c].ch] = Tail(chan[client[c].ch])]
              /\ client' = client /\ open' = open
            BY <1>8, <2>3 DEF StreamFrame
        <3>2. PICK ch \in Channels : ch = client[c].ch
            BY <2>1, Waiting DEF IndInv
        <3>3. chan' = [chan EXCEPT ![ch] = IF chan[ch] = <<>> THEN chan[ch] ELSE Tail(chan[ch])]
            BY <2>1, <3>1, <3>2
        <3>4. Shrinks
            BY <1>1, <3>1, <3>3, DrainShrinks DEF IndInv
        <3>5. PICK k : k = client[c] /\ ClientInv(k)
            BY DEF IndInv, ClientsInv
        <3>6. Becomes(c, k) /\ k.num = client[c].num
            BY <3>1, <3>5 DEF Becomes, IndInv, ClientsInv
        <3> QED
            BY <3>4, <3>5, <3>6, ClientStays, ClientMoves DEF IndInv
    <2> QED
        BY <2>2, <2>3
<1>9. CASE StreamAbort(c)
    <2>1. PICK k \in Client :
              /\ k = client[c] /\ k # Idle /\ Listening(k) /\ Busy(k) /\ ClientInv(k)
              /\ k.ch \in Channels /\ k.num \in Nums /\ k.plan[1] \in Exchanges /\ Sound(k.plan[1])
        BY <1>9, Waiting DEF StreamAbort, IndInv
    <2> DEFINE n == [k EXCEPT !.plan = Tail(k.plan), !.phase = "gate"]
    <2>2. Becomes(c, n) /\ open' = open /\ chan' = chan /\ k.phase = "stream"
        BY <1>9, <2>1 DEF StreamAbort, chanVars
    <2>3. Shrinks
        BY <1>1, <2>2, SameShrinks DEF IndInv
    <2>4. Tail(k.plan) # <<>>
        BY <2>1, <2>2, StreamTail DEF Busy
    <2>5. Continues(k.plan[1], Tail(k.plan)) /\ k.plan[1].sub \in {"new", "same"}
        BY <2>1, <2>4, TailPlanned DEF Busy
    <2>6. n \in Client /\ n.plan = Tail(k.plan) /\ n.phase = "gate" /\ n.num = k.num /\ n.ch = k.ch
        BY <2>1, <2>5 DEF Client, Continues, Planned
    <2> HIDE DEF n
    <2>7. ClientInv(n)'
        BY <2>1, <2>3, <2>5, <2>6, ClientAdvances
    <2> QED
        BY <2>1, <2>2, <2>3, <2>6, <2>7, ClientMoves DEF IndInv
<1> QED
    BY <1>5, <1>6, <1>7, <1>8, <1>9
-----------------------------------------------------------------------------------
(* The queue. *)

\* An item put into the poller's queue is the only new subscription in it.
LEMMA QueueAppends ==
    ASSUME TableInv, NEW a \in Item, Len(queue) < QueueCap, queue' = Append(queue, a)
    PROVE  /\ queue' \in Seq(Item) /\ Len(queue') <= QueueCap
           /\ \A i \in Nat : Asks(i)' => \/ Asks(i) /\ queue'[i] = queue[i]
                                         \/ i = Len(queue) + 1 /\ queue'[i] = a /\ a.type = "AddSubscriber"
<1>1. /\ Len(queue) \in Nat /\ QueueCap \in Nat /\ queue' \in Seq(Item) /\ Len(queue') = Len(queue) + 1
      /\ \A i \in 1..Len(queue) : queue'[i] = queue[i]
      /\ queue'[Len(queue) + 1] = a
    BY ConnectionAssumption DEF TableInv
<1>2. \A i \in Nat : i \in 1..Len(queue') => i \in 1..Len(queue) \/ i = Len(queue) + 1
    BY <1>1
<1> QED
    BY <1>1, <1>2 DEF Asks

\* The poller takes the first item; the others move up and stay what they are.
LEMMA QueueTails ==
    ASSUME TableInv, queue # <<>>, queue' = Tail(queue)
    PROVE  /\ queue' \in Seq(Item) /\ Len(queue') <= QueueCap
           /\ Head(queue) = queue[1] /\ Head(queue) \in Item
           /\ \A i \in Nat : Asks(i)' =>
                 \E j \in Nat : j = i + 1 /\ j # 1 /\ Asks(j) /\ queue'[i] = queue[j]
<1>1. /\ Len(queue) \in Nat /\ Len(queue) > 0 /\ QueueCap \in Nat /\ queue' \in Seq(Item)
      /\ Len(queue') = Len(queue) - 1
      /\ \A i \in 1..Len(queue') : queue'[i] = queue[i + 1]
      /\ Head(queue) = queue[1] /\ Head(queue) \in Item
    BY ConnectionAssumption DEF TableInv
<1>2. \A i \in Nat : i \in 1..Len(queue') => i + 1 \in 1..Len(queue) /\ i + 1 # 1
    BY <1>1
<1>3. Len(queue') <= QueueCap
    BY <1>1 DEF TableInv
<1>4. ASSUME NEW i \in Nat, Asks(i)'
      PROVE  \E j \in Nat : j = i + 1 /\ j # 1 /\ Asks(j) /\ queue'[i] = queue[j]
    <2>1. PICK j \in Nat : j = i + 1
        OBVIOUS
    <2> QED
        BY <1>1, <1>2, <1>4, <2>1 DEF Asks
<1> QED
    BY <1>1, <1>3, <1>4

\* A subscription goes to a channel nobody knows, or knew, and leaves the channels of
\* the other clients alone.
LEMMA SubscribeKeeps ==
    ASSUME IndInv, NEW c \in Clients, Subscribe(c)
    PROVE  IndInv'
<1>1. PICK k : k = client[c]
    OBVIOUS
<1>2. ClientInv(k) /\ k # Idle /\ k.phase = "gate"
    BY <1>1 DEF Subscribe, IndInv, ClientsInv, Idle
<1>3. Busy(k) /\ Ahead(k) /\ k \in Client
    BY <1>2 DEF ClientInv, Busy
<1> DEFINE x == k.plan[1]
<1>4. x \in Exchanges
    BY <1>3 DEF Busy, Planned
<1>5. PICK num : num = IF x.sub = "new" THEN message_num ELSE k.num
    OBVIOUS
<1>6. PICK ch : ch = Channel(num, x.sub)
    OBVIOUS
<1>7. PICK a : a = [type |-> "AddSubscriber", id |-> x.id, ch |-> ch,
                    num |-> IF x.sub = "any" THEN AnyNum ELSE num]
    OBVIOUS
<1>8. PICK old : old = IF x.sub = "number" THEN {} ELSE {o \in open : o[1] = k.num}
    OBVIOUS
<1>9. PICK n : n = [k EXCEPT !.phase = IF x.reply = "chunks" THEN "wait" ELSE "send",
                             !.num = num, !.ch = ch]
    OBVIOUS
<1>10. /\ x.sub # "same" /\ Len(queue) < QueueCap /\ (x.sub = "new" => NumberFree(num))
       /\ queue' = Append(queue, a) /\ Becomes(c, n)
       /\ open' = (open \ old) \cup {ch}
       /\ chan' = [o \in Channels |-> IF o \in old THEN <<>> ELSE chan[o]]
       /\ message_num' = IF x.sub = "new" THEN (message_num + 1) % (NumMax + 1) ELSE message_num
    BY <1>1, <1>5, <1>6, <1>7, <1>8, <1>9 DEF Subscribe
<1>11. UNCHANGED <<subs, handlers, poller, closing, commands, abilities, toCamera, toApp, link>>
    BY DEF Subscribe, netVars
<1>12. x.sub \in {"new", "any", "number"}
    BY <1>4, <1>10 DEF Exchanges
<1>13. num \in Nums
    BY <1>3, <1>5, <1>12 DEF Busy, IndInv, Typed
<1>14. ch \in Channels /\ ch[1] = num
    BY <1>6, <1>12, <1>13 DEF Channel, Channels
<1>15. AnyNum \notin Nums
    BY ConnectionAssumption DEF AnyNum, Nums
<1>16. ch \notin open /\ (\A s \in subs : s.ch # ch) /\ (\A i \in Nat : Asks(i) => queue[i].ch # ch)
    <2>1. CASE x.sub = "new"
        BY <1>10, <1>14, <2>1 DEF NumberFree, Asks
    <2>2. CASE x.sub # "new"
        <3>1. ch = Channel(k.num, "any") \/ ch = Channel(k.num, "number")
            BY <1>5, <1>6, <1>12, <2>2
        <3> QED
            BY <1>2, <1>3, <3>1 DEF Ahead, Unused
    <2> QED
        BY <2>1, <2>2
<1>17. \A d \in Clients : d # c => client[d].num # num
    <2>1. CASE x.sub = "new"
        BY <1>10, <2>1 DEF NumberFree
    <2>2. CASE x.sub # "new"
        BY <1>1, <1>5, <1>13, <2>2 DEF IndInv, ClientsInv
    <2> QED
        BY <2>1, <2>2
<1>18. a \in Item /\ a.type = "AddSubscriber" /\ a.ch = ch /\ a.id = x.id /\ (x.sub # "any" => a.num = num)
    <2>1. a \in [type : {"AddSubscriber"}, id : MsgIds, ch : Channels, num : Nums \cup {AnyNum}]
        BY <1>4, <1>7, <1>13, <1>14 DEF Exchanges
    <2> QED
        BY <1>7, <2>1 DEF Item
<1>19. /\ queue' \in Seq(Item) /\ Len(queue') <= QueueCap
       /\ \A i \in Nat : Asks(i)' => \/ Asks(i) /\ queue'[i] = queue[i]
                                     \/ i = Len(queue) + 1 /\ queue'[i] = a
    BY <1>10, <1>18, QueueAppends DEF IndInv
<1>20. Typed'
    <2>1. (message_num + 1) % (NumMax + 1) \in Nums
        BY ConnectionAssumption DEF IndInv, Typed, Nums
    <2> QED
        BY <1>10, <1>11, <2>1 DEF IndInv, Typed
<1>21. TableInv'
    <2>1. \A s \in subs', i \in Nat : Asks(i)' => queue'[i].ch # s.ch
        BY <1>11, <1>16, <1>18, <1>19 DEF IndInv, TableInv
    <2>2. \A i, j \in Nat : Asks(i)' /\ Asks(j)' /\ queue'[i].ch = queue'[j].ch => i = j
        BY <1>16, <1>18, <1>19 DEF IndInv, TableInv
    <2> QED
        BY <1>11, <1>19, <2>1, <2>2 DEF IndInv, TableInv
<1>22. \A o \in Channels : /\ chan'[o] \in Seq(BcMsg \cup {ErrMessage}) /\ Len(chan'[o]) <= SubCap
                           /\ chan'[o] = <<>> \/ chan'[o] = chan[o]
                           /\ chan[o] = <<>> => chan'[o] = <<>>
                           /\ o \notin open' => chan'[o] = <<>>
    BY <1>10, ConnectionAssumption DEF IndInv, ChanInv
<1>23. \A o \in Channels : Got(o)' \subseteq Got(o)
    BY <1>22, MsgsEmpty DEF Got
<1>24. ChanInv'
    <2>1. chan' \in [Channels -> Seq(BcMsg \cup {ErrMessage})]
        BY <1>10, <1>22
    <2>2. \A i \in Nat : Asks(i) => queue[i].ch \in Channels
        BY DEF IndInv, TableInv, Asks, Item
    <2>3. chan[ch] = <<>>
        BY <1>14, <1>16 DEF IndInv, ChanInv
    <2>4. \A i \in Nat : Asks(i)' => chan'[queue'[i].ch] = <<>>
        BY <1>14, <1>18, <1>19, <1>22, <2>2, <2>3 DEF IndInv, ChanInv
    <2>5. \A s \in subs' : s.ch \in Channels
        BY <1>11 DEF IndInv, TableInv, Subscriber
    <2>6. \A s \in subs' : \A m \in Got(s.ch)' : m.id = s.id /\ m.num = s.num
        BY <1>11, <1>23, <2>5 DEF IndInv, ChanInv
    <2>7. \A o \in Channels : \A m, p \in Got(o)' : m.num = p.num
        BY <1>23 DEF IndInv, ChanInv
    <2>8. open' \subseteq Channels
        BY <1>10, <1>14 DEF IndInv, ChanInv
    <2> QED
        BY <1>22, <2>1, <2>4, <2>6, <2>7, <2>8 DEF ChanInv
<1>25. \A o : o # ch /\ Unused(o) => Unused(o)'
    BY <1>10, <1>11, <1>18, <1>19 DEF Unused
<1>26. ASSUME NEW l, ClientInv(l), l.num # num PROVE ClientInv(l)'
    <2>1. CASE l = Idle
        BY <2>1 DEF ClientInv, Idle
    <2>2. CASE l # Idle
        <3>1. Busy(l) /\ (Listening(l) => Listens(l)) /\ Ahead(l)
            BY <1>26, <2>2 DEF ClientInv
        <3>2. Channel(l.num, "any") # ch /\ Channel(l.num, "number") # ch
            BY <1>6, <1>26 DEF Channel
        <3>3. Ahead(l)'
            <4>1. \A o : o \in {Channel(l.num, "any"), Channel(l.num, "number")} /\ Unused(o) => Unused(o)'
                BY <1>25, <3>2
            <4> QED
                BY <3>1, <4>1 DEF Ahead
        <3>4. ASSUME Listens(l) PROVE Listens(l)'
            <4>1. l.ch \in Channels /\ l.ch # ch
                BY <1>6, <1>26, <3>1, <3>4, ListensOn DEF Listens, Channel
            <4>2. Got(l.ch)' \subseteq Got(l.ch)
                BY <1>23, <4>1
            <4> QED
                BY <1>11, <1>18, <1>19, <3>4, <4>1, <4>2 DEF Listens, Fits, Kind
        <3>5. Busy(l)'
            BY <3>1 DEF Busy
        <3> QED
            BY <3>1, <3>3, <3>4, <3>5 DEF ClientInv, Listening
    <2> QED
        BY <2>1, <2>2
<1>27. /\ n \in Client /\ n.plan = k.plan /\ n.num = num /\ n.ch = ch
       /\ n.phase \in {"wait", "send"}
    BY <1>3, <1>9, <1>13, <1>14 DEF Client, Channels
<1>28. ClientInv(n)'
    <2>1. Busy(n)'
        BY <1>3, <1>13, <1>27 DEF Busy
    <2>2. Got(ch)' = {}
        BY <1>14, <1>16, <1>22, MsgsEmpty DEF Got, IndInv, ChanInv
    <2>3. Listens(n)'
        BY <1>6, <1>10, <1>11, <1>13, <1>16, <1>18, <1>19, <1>27, <2>2 DEF Listens, Fits, Kind
    <2>4. Ahead(n)'
        <3>1. CASE x.sub = "new"
            <4>1. \A o : o \in {Channel(num, "any"), Channel(num, "number")} => o[1] = num /\ o # ch
                BY <1>6, <3>1 DEF Channel
            <4>2. \A o : o[1] = num => Unused(o)
                BY <1>10, <3>1 DEF NumberFree, Unused, Asks
            <4>3. \A o : o \in {Channel(num, "any"), Channel(num, "number")} => Unused(o)'
                BY <1>25, <4>1, <4>2
            <4> QED
                BY <1>27, <4>3 DEF Ahead, Unused, Channel
        <3>2. CASE x.sub # "new"
            BY <1>12, <1>27, <3>2 DEF Ahead
        <3> QED
            BY <3>1, <3>2
    <2> QED
        BY <2>1, <2>3, <2>4 DEF ClientInv
<1>29. ClientsInv'
    <2>1. \A d \in Clients : client'[d] = IF d = c THEN n ELSE client[d]
        BY <1>10 DEF Becomes, IndInv, ClientsInv
    <2>2. client' = [d \in Clients |-> client'[d]]
        BY <1>10 DEF Becomes, IndInv, ClientsInv
    <2>3. \A d \in Clients : \A l \in {client'[d]} : ClientInv(l)'
        BY <1>17, <1>26, <1>28, <2>1 DEF IndInv, ClientsInv
    <2>4. \A d, e \in Clients : d # e /\ client'[d].num \in Nums => client'[e].num # client'[d].num
        BY <1>17, <1>27, <2>1 DEF IndInv, ClientsInv
    <2> QED
        BY <2>2, <2>3, <2>4 DEF ClientsInv
<1> QED
    BY <1>20, <1>21, <1>24, <1>29 DEF IndInv
-----------------------------------------------------------------------------------
(* The connection's tasks. *)

\* A step that leaves the clients alone keeps their part when it keeps what each of
\* them relies on.
LEMMA ClientsRely ==
    ASSUME ClientsInv, client' = client, \A k : ClientInv(k) => ClientInv(k)'
    PROVE  ClientsInv'
BY DEF ClientsInv

\* What a client relies on: the poller frees no channel for another subscription, and
\* what it enters or delivers for the client's channel fits its exchange.
LEMMA PollRely ==
    ASSUME TableInv, ChanInv, open' = open,
           \A s \in subs' : \/ \E t \in subs : t.ch = s.ch
                            \/ \E i \in Nat : Asks(i) /\ queue[i].ch = s.ch,
           \A i \in Nat : Asks(i)' => \E j \in Nat : Asks(j) /\ queue'[i] = queue[j],
           NEW k, ClientInv(k),
           Busy(k) /\ Listens(k) => /\ \A s \in subs' : s.ch = k.ch => Fits(k, s)
                                    /\ \A m \in Got(k.ch)' : Fits(k, m)
    PROVE  ClientInv(k)'
<1>1. CASE k = Idle
    BY <1>1 DEF ClientInv, Idle
<1>2. CASE k # Idle
    <2>1. Busy(k) /\ (Listening(k) => Listens(k)) /\ Ahead(k)
        BY <1>2 DEF ClientInv
    <2>2. \A ch : Unused(ch) => Unused(ch)'
        BY DEF Unused
    <2>3. Ahead(k)'
        BY <2>1, <2>2 DEF Ahead
    <2>4. ASSUME Listens(k) PROVE Listens(k)'
        <3>1. \A s \in subs' : s.ch = k.ch => Fits(k, s)
            BY <2>1, <2>4
        <3>2. \A m \in Got(k.ch)' : Fits(k, m)
            BY <2>1, <2>4
        <3>3. \A i \in Nat : Asks(i)' /\ queue'[i].ch = k.ch => Fits(k, queue'[i])
            <4> SUFFICES ASSUME NEW i \in Nat, Asks(i)', queue'[i].ch = k.ch
                         PROVE  \A r : r = queue'[i] => Fits(k, r)
                OBVIOUS
            <4>1. PICK j \in Nat : Asks(j) /\ queue'[i] = queue[j]
                OBVIOUS
            <4>2. \A r : r = queue[j] => Fits(k, r)
                BY <2>4, <4>1 DEF Listens, Fits
            <4> QED
                BY <4>1, <4>2
        <3> QED
            BY <2>4, <3>1, <3>2, <3>3 DEF Listens, Fits, Kind
    <2>5. Busy(k)'
        BY <2>1 DEF Busy
    <2> QED
        BY <2>1, <2>3, <2>4, <2>5 DEF ClientInv, Listening
<1> QED
    BY <1>1, <1>2

\* The reader adds messages behind the subscriptions.
LEMMA ReaderKeeps ==
    ASSUME IndInv, Reader \/ ReaderFails
    PROVE  IndInv'
<1>1. /\ UNCHANGED <<subs, handlers, poller, closing, message_num, commands, client, abilities, chan,
                     open, toCamera, link>>
      /\ Len(queue) < QueueCap
    BY DEF Reader, ReaderFails, appVars, chanVars, netVars
<1>2. PICK m \in BcMsg \cup {ErrMessage} : queue' = Append(queue, [type |-> "Bc", msg |-> m])
    <2>1. toApp \in Seq(BcMsg)
        BY DEF IndInv, TableInv
    <2>2. CASE Reader
        <3>1. Head(toApp) \in BcMsg
            BY <2>1, <2>2 DEF Reader
        <3> QED
            BY <2>2, <3>1 DEF Reader
    <2>3. CASE ReaderFails
        BY <2>3 DEF ReaderFails
    <2> QED
        BY <2>2, <2>3
<1>3. toApp' \in Seq(BcMsg)
    <2>1. toApp \in Seq(BcMsg)
        BY DEF IndInv, TableInv
    <2>2. toApp' = toApp \/ (toApp # <<>> /\ toApp' = Tail(toApp))
        BY DEF Reader, ReaderFails, netVars
    <2> QED
        BY <2>1, <2>2
<1>4. PICK a \in Item : queue' = Append(queue, a) /\ a.type = "Bc"
    <2>1. [type |-> "Bc", msg |-> m] \in [type : {"Bc"}, msg : BcMsg \cup {ErrMessage}]
        OBVIOUS
    <2>2. [type |-> "Bc", msg |-> m] \in Item
        BY <2>1 DEF Item
    <2> QED
        BY <1>2, <2>2
<1>5. /\ queue' \in Seq(Item) /\ Len(queue') <= QueueCap
      /\ \A i \in Nat : Asks(i)' => Asks(i) /\ queue'[i] = queue[i]
    BY <1>1, <1>4, QueueAppends DEF IndInv
<1>6. Typed'
    BY <1>1 DEF IndInv, Typed
<1>7. TableInv'
    BY <1>1, <1>3, <1>5 DEF IndInv, TableInv
<1>8. \A ch : Got(ch)' = Got(ch)
    BY <1>1 DEF Got
<1>9. ChanInv'
    BY <1>1, <1>5, <1>8 DEF IndInv, ChanInv
<1>10. \A k : ClientInv(k) => ClientInv(k)'
    BY <1>1, <1>5, <1>8, PollRely DEF IndInv, Listens
<1> QED
    BY <1>1, <1>6, <1>7, <1>9, <1>10, ClientsRely DEF IndInv

\* A message: nobody wants it, or a handler does.
LEMMA DropsKeep ==
    ASSUME IndInv, queue # <<>>, queue' = Tail(queue), subs' \subseteq subs, toCamera' \in Seq(Request),
           UNCHANGED <<poller, closing, message_num, commands, client, abilities, chan, open, toApp, link>>,
           handlers' \subseteq {"KEEP_ALIVE"}
    PROVE  IndInv'
<1>1. /\ queue' \in Seq(Item) /\ Len(queue') <= QueueCap
      /\ \A i \in Nat : Asks(i)' => \E j \in Nat : j = i + 1 /\ Asks(j) /\ queue'[i] = queue[j]
    BY QueueTails DEF IndInv
<1>2. Typed'
    BY DEF IndInv, Typed
<1>3. TableInv'
    <2>1. ASSUME NEW s \in subs', NEW i \in Nat, Asks(i)' PROVE queue'[i].ch # s.ch
        <3>1. PICK j \in Nat : Asks(j) /\ queue'[i] = queue[j]
            BY <1>1, <2>1
        <3> QED
            BY <3>1 DEF IndInv, TableInv
    <2>2. ASSUME NEW i \in Nat, NEW j \in Nat, Asks(i)', Asks(j)', queue'[i].ch = queue'[j].ch
          PROVE  i = j
        <3>1. PICK a \in Nat : a = i + 1 /\ Asks(a) /\ queue'[i] = queue[a]
            BY <1>1, <2>2
        <3>2. PICK b \in Nat : b = j + 1 /\ Asks(b) /\ queue'[j] = queue[b]
            BY <1>1, <2>2
        <3>3. a = b
            BY <2>2, <3>1, <3>2 DEF IndInv, TableInv
        <3> QED
            BY <3>1, <3>2, <3>3
    <2> QED
        BY <1>1, <2>1, <2>2 DEF IndInv, TableInv
<1>4. \A ch : Got(ch)' = Got(ch)
    BY DEF Got
<1>5. ChanInv'
    BY <1>1, <1>4 DEF IndInv, ChanInv
<1>6. \A i \in Nat : Asks(i)' => \E j \in Nat : Asks(j) /\ queue'[i] = queue[j]
    BY <1>1
<1>7. \A k : ClientInv(k) => ClientInv(k)'
    BY <1>4, <1>6, PollRely DEF IndInv, Listens
<1> QED
    BY <1>2, <1>3, <1>5, <1>7, ClientsRely DEF IndInv
\* A message is delivered: the subscriber's number is now the message's.
LEMMA DeliveryKeeps ==
    ASSUME IndInv, queue # <<>>, queue' = Tail(queue), NEW m \in BcMsg, NEW s \in subs,
           s.id = m.id, s.num = m.num \/ s.num = AnyNum, s.ch \in open,
           Len(chan[s.ch]) < SubCap, NEW gone, gone \subseteq subs,
           subs' = (gone \ {s}) \cup {[s EXCEPT !.num = m.num]},
           chan' = [chan EXCEPT ![s.ch] = Append(chan[s.ch], m)],
           UNCHANGED <<handlers, poller, closing, message_num, commands, client, abilities, open,
                       toApp, toCamera, link>>
    PROVE  IndInv'
<1>1. /\ queue' \in Seq(Item) /\ Len(queue') <= QueueCap
      /\ \A i \in Nat : Asks(i)' => \E j \in Nat : j = i + 1 /\ Asks(j) /\ queue'[i] = queue[j]
    BY QueueTails DEF IndInv
<1>2. Typed'
    BY DEF IndInv, Typed
<1>3. PICK t : t = [s EXCEPT !.num = m.num]
    OBVIOUS
<1>4. /\ t \in Subscriber /\ t.ch = s.ch /\ t.id = m.id /\ t.num = m.num /\ s \in Subscriber
      /\ m.num \in Nums
    BY <1>3 DEF IndInv, TableInv, Subscriber, BcMsg
<1>5. /\ AnyNum \notin Nums /\ m # ErrMessage
    <2>1. AnyNum \notin Nums
        BY ConnectionAssumption DEF AnyNum, Nums
    <2>2. ErrMessage.num = AnyNum
        BY DEF ErrMessage, Message
    <2> QED
        BY <1>4, <2>1, <2>2
<1>6. subs' = (gone \ {s}) \cup {t} /\ s.ch \in Channels
    BY <1>3, <1>4 DEF Subscriber
<1>7. \A u \in subs' : u = t \/ (u \in subs /\ u.ch # s.ch)
    BY <1>6 DEF IndInv, TableInv
<1>8. TableInv'
    <2>1. ASSUME NEW u \in subs', NEW i \in Nat, Asks(i)' PROVE queue'[i].ch # u.ch
        <3>1. PICK j \in Nat : Asks(j) /\ queue'[i] = queue[j]
            BY <1>1, <2>1
        <3>2. \A w \in subs : queue[j].ch # w.ch
            BY <3>1 DEF IndInv, TableInv
        <3>3. \E w \in subs : u.ch = w.ch
            BY <1>4, <1>7, <2>1
        <3> QED
            BY <3>1, <3>2, <3>3
    <2>2. ASSUME NEW i \in Nat, NEW j \in Nat, Asks(i)', Asks(j)', queue'[i].ch = queue'[j].ch
          PROVE  i = j
        <3>1. PICK a \in Nat : a = i + 1 /\ Asks(a) /\ queue'[i] = queue[a]
            BY <1>1, <2>2
        <3>2. PICK b \in Nat : b = j + 1 /\ Asks(b) /\ queue'[j] = queue[b]
            BY <1>1, <2>2
        <3>3. a = b
            BY <2>2, <3>1, <3>2 DEF IndInv, TableInv
        <3> QED
            BY <3>1, <3>2, <3>3
    <2>3. subs' \subseteq Subscriber
        BY <1>4, <1>7 DEF IndInv, TableInv
    <2>4. \A u, w \in subs' : u.ch = w.ch => u = w
        BY <1>4, <1>7 DEF IndInv, TableInv
    <2> QED
        BY <1>1, <2>1, <2>2, <2>3, <2>4 DEF IndInv, TableInv
<1>9. /\ chan[s.ch] \in Seq(BcMsg \cup {ErrMessage})
      /\ \A ch \in Channels : chan'[ch] = IF ch = s.ch THEN Append(chan[s.ch], m) ELSE chan[ch]
    BY <1>6 DEF IndInv, ChanInv
<1>10. /\ Append(chan[s.ch], m) \in Seq(BcMsg \cup {ErrMessage})
       /\ Len(Append(chan[s.ch], m)) = Len(chan[s.ch]) + 1
       /\ Msgs(Append(chan[s.ch], m)) = Msgs(chan[s.ch]) \cup {m}
    BY <1>5, <1>9, MsgsAppend
<1>11. /\ \A ch \in Channels : ch # s.ch => Got(ch)' = Got(ch)
       /\ Got(s.ch)' = Got(s.ch) \cup {m}
    BY <1>6, <1>9, <1>10 DEF Got
<1>12. \A g \in Got(s.ch) : g.id = m.id /\ g.num = m.num
    <2>1. \A g \in Got(s.ch) : g.id = s.id /\ g.num = s.num
        BY DEF IndInv, ChanInv
    <2>2. \A g \in Got(s.ch) : g \in BcMsg
        BY <1>9 DEF Got, Msgs
    <2>3. \A g \in Got(s.ch) : g.num \in Nums
        BY <2>2 DEF BcMsg
    <2> QED
        BY <1>5, <2>1, <2>3
<1>13. ChanInv'
    <2>1. chan' \in [Channels -> Seq(BcMsg \cup {ErrMessage})]
        BY <1>9, <1>10 DEF IndInv, ChanInv
    <2>2. \A ch \in Channels : Len(chan'[ch]) <= SubCap
        <3>1. SubCap \in Nat /\ Len(chan[s.ch]) \in Nat
            BY <1>9, ConnectionAssumption
        <3> QED
            BY <1>9, <1>10, <3>1 DEF IndInv, ChanInv
    <2>3. \A ch \in Channels \ open' : chan'[ch] = <<>>
        BY <1>9 DEF IndInv, ChanInv
    <2>4. \A i \in Nat : Asks(i) => queue[i].ch \in Channels /\ queue[i].ch # s.ch
        BY DEF IndInv, TableInv, Asks, Item
    <2>5. ASSUME NEW i \in Nat, Asks(i)' PROVE chan'[queue'[i].ch] = <<>>
        <3>1. PICK j \in Nat : Asks(j) /\ queue'[i] = queue[j]
            BY <1>1, <2>5
        <3> QED
            BY <1>9, <2>4, <3>1 DEF IndInv, ChanInv
    <2>6. \A u \in subs : u.ch \in Channels
        BY DEF IndInv, TableInv, Subscriber
    <2>7. \A u \in subs' : \A g \in Got(u.ch)' : g.id = u.id /\ g.num = u.num
        <3>1. ASSUME NEW u \in subs', u # t PROVE \A g \in Got(u.ch)' : g.id = u.id /\ g.num = u.num
            BY <1>7, <1>11, <2>6, <3>1 DEF IndInv, ChanInv
        <3>2. \A g \in Got(s.ch)' : g.id = t.id /\ g.num = t.num
            BY <1>4, <1>11, <1>12
        <3>3. \A g \in Got(t.ch)' : g.id = t.id /\ g.num = t.num
            BY <1>4, <3>2 DEF Got
        <3> QED
            BY <3>1, <3>3
    <2>8. \A ch \in Channels : \A g, h \in Got(ch)' : g.num = h.num
        <3>1. \A ch \in Channels : ch # s.ch => \A g, h \in Got(ch)' : g.num = h.num
            BY <1>11 DEF IndInv, ChanInv
        <3>2. \A g, h \in Got(s.ch)' : g.num = h.num
            BY <1>11, <1>12
        <3> QED
            BY <3>1, <3>2
    <2> QED
        BY <2>1, <2>2, <2>3, <2>5, <2>7, <2>8 DEF IndInv, ChanInv
<1>14. ASSUME NEW k, ClientInv(k) PROVE ClientInv(k)'
    <2>1. ASSUME Busy(k), Listens(k)
          PROVE  /\ \A u \in subs' : u.ch = k.ch => Fits(k, u)
                 /\ \A g \in Got(k.ch)' : Fits(k, g)
        <3>1. k.ch \in Channels /\ k.num \in Nums
            BY <2>1, ListensOn
        <3>2. CASE k.ch # s.ch
            BY <1>4, <1>7, <1>11, <2>1, <3>1, <3>2 DEF Listens
        <3>3. CASE k.ch = s.ch
            <4>1. Fits(k, s)
                BY <2>1, <3>3 DEF Listens
            <4>2. Fits(k, t) /\ Fits(k, m)
                BY <1>4, <1>5, <3>1, <4>1 DEF Fits
            <4>3. Got(k.ch)' = Got(k.ch) \cup {m}
                BY <1>11, <3>3 DEF Got
            <4> QED
                BY <1>7, <2>1, <3>3, <4>2, <4>3 DEF Listens
        <3> QED
            BY <3>2, <3>3
    <2>2. \A i \in Nat : Asks(i)' => \E j \in Nat : Asks(j) /\ queue'[i] = queue[j]
        BY <1>1
    <2>3. \A u \in subs' : \E w \in subs : w.ch = u.ch
        BY <1>4, <1>7
    <2> QED
        BY <1>14, <2>1, <2>2, <2>3, PollRely DEF IndInv
<1> QED
    BY <1>2, <1>8, <1>13, <1>14, ClientsRely DEF IndInv
\* A handler's answer is a request.
LEMMA RequestAppends ==
    ASSUME toCamera \in Seq(Request), NEW q \in Request, NEW sent,
           sent = IF link = "up" THEN Append(toCamera, q) ELSE toCamera
    PROVE  sent \in Seq(Request)
OBVIOUS

\* A message the poller gives to its subscriber, or to nobody, keeps the invariant
\* (Poller::run, Bc).
LEMMA PollBcKeeps ==
    ASSUME IndInv, PollBc
    PROVE  IndInv'
<1>1. /\ queue # <<>> /\ queue' = Tail(queue)
      /\ UNCHANGED <<handlers, poller, closing, message_num, commands, client, abilities, open, toApp, link>>
      /\ Pruned \subseteq subs
    BY DEF PollBc, appVars, Pruned
<1>2. PICK m : m = Head(queue).msg
    OBVIOUS
<1>3. m \in BcMsg
    <2>1. Head(queue) \in Item /\ Head(queue).type = "Bc" /\ Head(queue).msg # ErrMessage
        BY <1>1, QueueTails DEF IndInv, PollBc
    <2> QED
        BY <1>2, <2>1 DEF Item
<1>4. CASE /\ toCamera' = IF link = "up" THEN Append(toCamera, [id |-> m.id, num |-> m.num, reply |-> "none"])
                          ELSE toCamera
           /\ subs' = Pruned /\ chan' = chan
    <2>1. [id |-> m.id, num |-> m.num, reply |-> "none"] \in Request
        BY <1>3 DEF BcMsg, Request, Kinds
    <2>2. toCamera' \in Seq(Request)
        BY <1>4, <2>1, RequestAppends DEF IndInv, TableInv
    <2> QED
        BY <1>1, <1>4, <2>2, DropsKeep DEF IndInv, Typed
<1>5. CASE subs' = Pruned /\ chan' = chan /\ toCamera' = toCamera
    <2>1. toCamera' \in Seq(Request)
        BY <1>5 DEF IndInv, TableInv
    <2> QED
        BY <1>1, <1>5, <2>1, DropsKeep DEF IndInv, Typed
<1>6. ASSUME NEW s \in Target(m), Room(s.ch), subs' = (Pruned \ {s}) \cup {[s EXCEPT !.num = m.num]},
             chan' = Deliver(s.ch, m), toCamera' = toCamera
      PROVE  IndInv'
    <2>1. s \in subs /\ s.ch \in open /\ s.id = m.id /\ (s.num = m.num \/ s.num = AnyNum)
        BY <1>6 DEF Target, Pruned
    <2>2. Len(chan[s.ch]) < SubCap
        BY <1>6, <2>1 DEF Room
    <2>3. chan' = [chan EXCEPT ![s.ch] = Append(chan[s.ch], m)]
        BY <1>6, <2>1 DEF Deliver
    <2> QED
        BY <1>1, <1>3, <1>6, <2>1, <2>2, <2>3, DeliveryKeeps
<1> QED
    BY <1>2, <1>4, <1>5, <1>6 DEF PollBc

\* The error: every channel of the table gets it and nothing else, and the queue is dropped.
LEMMA PollErrKeeps ==
    ASSUME IndInv, PollErr
    PROVE  IndInv'
<1>1. /\ subs' = {} /\ handlers' = {} /\ queue' = <<>> /\ poller' = "dead"
      /\ UNCHANGED <<closing, message_num, commands, client, abilities, open, toApp, toCamera, link>>
    BY DEF PollErr, appVars, netVars
<1>2. \A i \in Nat : ~Asks(i)'
    BY <1>1 DEF Asks
<1>3. ASSUME NEW ch \in Channels
      PROVE  /\ chan'[ch] \in Seq(BcMsg \cup {ErrMessage}) /\ Len(chan'[ch]) <= SubCap
             /\ Got(ch)' = Got(ch)
             /\ ch \notin open => chan'[ch] = <<>>
    <2>1. chan[ch] \in Seq(BcMsg \cup {ErrMessage}) /\ Len(chan[ch]) \in Nat /\ SubCap \in Nat
        BY ConnectionAssumption DEF IndInv, ChanInv
    <2>2. CASE \E s \in Pruned : s.ch = ch
        <3>1. ch \in open /\ Len(chan[ch]) < SubCap
            BY <2>2 DEF PollErr, Pruned, Room
        <3>2. chan'[ch] = Append(chan[ch], ErrMessage)
            BY <2>2 DEF PollErr
        <3>3. /\ Msgs(chan'[ch]) = Msgs(chan[ch]) /\ chan'[ch] \in Seq(BcMsg \cup {ErrMessage})
              /\ Len(chan'[ch]) = Len(chan[ch]) + 1
            BY <2>1, <3>2, ErrAppends
        <3> QED
            BY <2>1, <3>1, <3>3 DEF Got
    <2>3. CASE ~\E s \in Pruned : s.ch = ch
        <3>1. chan'[ch] = chan[ch]
            BY <2>3 DEF PollErr
        <3> QED
            BY <2>1, <3>1 DEF Got, IndInv, ChanInv
    <2> QED
        BY <2>2, <2>3
<1>4. Typed'
    BY <1>1 DEF IndInv, Typed
<1>5. TableInv'
    <2>1. queue' \in Seq(Item) /\ Len(queue') <= QueueCap
        BY <1>1, ConnectionAssumption
    <2> QED
        BY <1>1, <1>2, <2>1 DEF IndInv, TableInv
<1>6. chan' \in [Channels -> Seq(BcMsg \cup {ErrMessage})]
    <2>1. chan' = [ch \in Channels |-> chan'[ch]]
        BY DEF PollErr
    <2> QED
        BY <1>3, <2>1
<1>7. ChanInv'
    BY <1>1, <1>2, <1>3, <1>6 DEF IndInv, ChanInv
<1>8. ASSUME NEW k, ClientInv(k) PROVE ClientInv(k)'
    <2>1. Busy(k) /\ Listens(k) => \A m \in Got(k.ch)' : Fits(k, m)
        BY <1>3, ListensOn DEF Listens
    <2> QED
        BY <1>1, <1>2, <1>8, <2>1, PollRely DEF IndInv
<1> QED
    BY <1>1, <1>4, <1>5, <1>7, <1>8, ClientsRely DEF IndInv
\* A subscription is entered under the id and number it was made for, or is told that
\* they are taken.
LEMMA AddSubscriberKeeps ==
    ASSUME IndInv, PollAddSubscriber
    PROVE  IndInv'
<1>1. /\ queue # <<>> /\ queue' = Tail(queue)
      /\ UNCHANGED <<handlers, poller, closing, message_num, commands, client, abilities, open, toApp,
                     toCamera, link>>
      /\ Pruned \subseteq subs
    BY DEF PollAddSubscriber, appVars, netVars, Pruned
<1>2. PICK a : a = Head(queue)
    OBVIOUS
<1>3. /\ a = queue[1] /\ a \in Item /\ a.type = "AddSubscriber"
      /\ queue' \in Seq(Item) /\ Len(queue') <= QueueCap
      /\ \A i \in Nat : Asks(i)' => \E j \in Nat : j = i + 1 /\ j # 1 /\ Asks(j) /\ queue'[i] = queue[j]
    BY <1>1, <1>2, QueueTails DEF IndInv, PollAddSubscriber
<1>4. Asks(1)
    <2>1. queue \in Seq(Item) /\ Len(queue) \in Nat /\ Len(queue) > 0
        BY <1>1 DEF IndInv, TableInv
    <2> QED
        BY <1>3, <2>1 DEF Asks
<1>5. PICK r : r = [id |-> a.id, num |-> a.num, ch |-> a.ch]
    OBVIOUS
<1>6. r \in Subscriber /\ r.ch = a.ch /\ r.id = a.id /\ r.num = a.num /\ a.ch \in Channels
    BY <1>3, <1>5 DEF Item, Subscriber
<1>7. /\ chan[a.ch] = <<>>
      /\ \A s \in subs : s.ch # a.ch
      /\ \A i \in Nat : Asks(i) /\ i # 1 => queue[i].ch # a.ch
    BY <1>3, <1>4 DEF IndInv, TableInv, ChanInv
<1>8. \A s \in subs' : s \in subs \/ s = r
    BY <1>1, <1>2, <1>5 DEF PollAddSubscriber
<1>9. chan' = chan \/ chan' = Deliver(a.ch, ErrMessage)
    BY <1>2 DEF PollAddSubscriber
<1>10. /\ chan' \in [Channels -> Seq(BcMsg \cup {ErrMessage})]
       /\ \A ch \in Channels : Len(chan'[ch]) <= SubCap /\ (ch \notin open => chan'[ch] = <<>>)
       /\ \A ch \in Channels : ch # a.ch => chan'[ch] = chan[ch]
       /\ \A ch \in Channels : Got(ch)' = Got(ch)
    <2>1. CASE chan' = chan
        BY <2>1 DEF IndInv, ChanInv, Got
    <2>2. CASE chan' = Deliver(a.ch, ErrMessage) /\ a.ch \notin open
        <3>1. chan' = chan
            BY <1>6, <2>2 DEF Deliver, IndInv, ChanInv
        <3> QED
            BY <2>1, <3>1
    <2>3. CASE chan' = Deliver(a.ch, ErrMessage) /\ a.ch \in open
        <3> DEFINE q == Append(chan[a.ch], ErrMessage)
        <3>1. chan' = [chan EXCEPT ![a.ch] = q]
            BY <2>3 DEF Deliver
        <3>2. chan[a.ch] \in Seq(BcMsg \cup {ErrMessage}) /\ Len(chan[a.ch]) = 0
            BY <1>6, <1>7 DEF IndInv, ChanInv
        <3>3. /\ Msgs(q) = Msgs(chan[a.ch]) /\ q \in Seq(BcMsg \cup {ErrMessage})
              /\ Len(q) = Len(chan[a.ch]) + 1
            BY <3>2, ErrAppends
        <3>4. Len(q) <= SubCap
            BY <3>2, <3>3, ConnectionAssumption
        <3> HIDE DEF q
        <3>5. /\ chan' \in [Channels -> Seq(BcMsg \cup {ErrMessage})]
              /\ chan'[a.ch] = q /\ \A ch \in Channels : ch # a.ch => chan'[ch] = chan[ch]
            BY <1>6, <3>1, <3>3 DEF IndInv, ChanInv
        <3>6. \A ch \in Channels : Len(chan'[ch]) <= SubCap /\ (ch \notin open => chan'[ch] = <<>>)
            BY <2>3, <3>4, <3>5 DEF IndInv, ChanInv
        <3>7. \A ch \in Channels : Got(ch)' = Got(ch)
            BY <3>3, <3>5 DEF Got
        <3> QED
            BY <3>5, <3>6, <3>7
    <2> QED
        BY <1>9, <2>1, <2>2, <2>3
<1>11. Typed'
    BY <1>1 DEF IndInv, Typed
<1>12. TableInv'
    <2>1. ASSUME NEW s \in subs', NEW i \in Nat, Asks(i)' PROVE queue'[i].ch # s.ch
        <3>1. PICK j \in Nat : j # 1 /\ Asks(j) /\ queue'[i] = queue[j]
            BY <1>3, <2>1
        <3>2. queue[j].ch # a.ch /\ \A w \in subs : queue[j].ch # w.ch
            BY <1>7, <3>1 DEF IndInv, TableInv
        <3> QED
            BY <1>6, <1>8, <2>1, <3>1, <3>2
    <2>2. ASSUME NEW i \in Nat, NEW j \in Nat, Asks(i)', Asks(j)', queue'[i].ch = queue'[j].ch
          PROVE  i = j
        <3>1. PICK b \in Nat : b = i + 1 /\ Asks(b) /\ queue'[i] = queue[b]
            BY <1>3, <2>2
        <3>2. PICK d \in Nat : d = j + 1 /\ Asks(d) /\ queue'[j] = queue[d]
            BY <1>3, <2>2
        <3>3. b = d
            BY <2>2, <3>1, <3>2 DEF IndInv, TableInv
        <3> QED
            BY <3>1, <3>2, <3>3
    <2>3. subs' \subseteq Subscriber
        BY <1>6, <1>8 DEF IndInv, TableInv
    <2>4. \A u, w \in subs' : u.ch = w.ch => u = w
        BY <1>6, <1>7, <1>8 DEF IndInv, TableInv
    <2> QED
        BY <1>1, <1>3, <2>1, <2>2, <2>3, <2>4 DEF IndInv, TableInv
<1>13. ChanInv'
    <2>1. ASSUME NEW i \in Nat, Asks(i)' PROVE chan'[queue'[i].ch] = <<>>
        <3>1. PICK j \in Nat : j # 1 /\ Asks(j) /\ queue'[i] = queue[j]
            BY <1>3, <2>1
        <3>2. queue[j].ch # a.ch /\ queue[j].ch \in Channels
            BY <1>7, <3>1 DEF Asks, IndInv, TableInv, Item
        <3> QED
            BY <1>10, <3>1, <3>2 DEF IndInv, ChanInv
    <2>2. Got(a.ch) = {}
        BY <1>7, MsgsEmpty DEF Got
    <2>3. \A s \in subs' : \A m \in Got(s.ch)' : m.id = s.id /\ m.num = s.num
        <3>1. \A s \in subs : s.ch \in Channels
            BY DEF IndInv, TableInv, Subscriber
        <3>2. ASSUME NEW s \in subs', NEW g \in Got(s.ch)' PROVE s \in subs /\ g \in Got(s.ch)
            <4>1. s.ch \in Channels
                BY <1>6, <1>8, <3>1
            <4>2. g \in Got(s.ch)
                BY <1>10, <3>2, <4>1
            <4>3. s = r => Got(s.ch) = {}
                BY <1>6, <2>2
            <4> QED
                BY <1>8, <4>2, <4>3
        <3> QED
            BY <3>2 DEF IndInv, ChanInv
    <2>4. \A ch \in Channels : \A g, h \in Got(ch)' : g.num = h.num
        BY <1>10 DEF IndInv, ChanInv
    <2> QED
        BY <1>1, <1>10, <2>1, <2>3, <2>4 DEF IndInv, ChanInv
<1>14. ASSUME NEW k, ClientInv(k) PROVE ClientInv(k)'
    <2>1. ASSUME Busy(k), Listens(k)
          PROVE  /\ \A s \in subs' : s.ch = k.ch => Fits(k, s)
                 /\ \A g \in Got(k.ch)' : Fits(k, g)
        <3>1. k.ch \in Channels
            BY <2>1, ListensOn
        <3>2. \A g \in Got(k.ch)' : Fits(k, g)
            BY <1>10, <2>1, <3>1 DEF Listens
        <3>3. a.ch = k.ch => Fits(k, a)
            BY <1>3, <1>4, <2>1 DEF Listens
        <3>4. r.ch = k.ch => Fits(k, r)
            BY <1>6, <3>3 DEF Fits
        <3> QED
            BY <1>8, <2>1, <3>2, <3>4 DEF Listens
    <2>2. \A i \in Nat : Asks(i)' => \E j \in Nat : Asks(j) /\ queue'[i] = queue[j]
        BY <1>3
    <2>3. \A s \in subs' : \/ \E t \in subs : t.ch = s.ch
                           \/ \E i \in Nat : Asks(i) /\ queue[i].ch = s.ch
        BY <1>3, <1>4, <1>6, <1>8
    <2> QED
        BY <1>1, <1>14, <2>1, <2>2, <2>3, PollRely DEF IndInv
<1> QED
    BY <1>1, <1>11, <1>12, <1>13, <1>14, ClientsRely DEF IndInv

\* A handler the poller enters keeps the invariant (Poller::run, AddHandler).
LEMMA AddHandlerKeeps ==
    ASSUME IndInv, PollAddHandler
    PROVE  IndInv'
<1>1. /\ queue # <<>> /\ queue' = Tail(queue) /\ subs' \subseteq subs
      /\ UNCHANGED <<poller, closing, message_num, commands, client, abilities, chan, open, toApp,
                     toCamera, link>>
    BY DEF PollAddHandler, appVars, chanVars, netVars, Pruned
<1>2. Head(queue) \in Item /\ Head(queue).type = "AddHandler"
    BY <1>1, QueueTails DEF IndInv, PollAddHandler
<1>3. Head(queue).id = "KEEP_ALIVE"
    BY <1>2 DEF Item
<1>4. handlers' \subseteq {"KEEP_ALIVE"} /\ toCamera' \in Seq(Request)
    BY <1>1, <1>3 DEF PollAddHandler, IndInv, Typed, TableInv
<1> QED
    BY <1>1, <1>4, DropsKeep
-----------------------------------------------------------------------------------
(* The shutdown and the camera. *)

\* What leaves the poller, the channels and the clients alone.
LEMMA AsideKeeps ==
    ASSUME IndInv, UNCHANGED <<queue, subs, chan, open, client>>, Typed',
           toApp' \in Seq(BcMsg), toCamera' \in Seq(Request)
    PROVE  IndInv'
<1>1. Shrinks
    BY SameShrinks DEF IndInv
<1>2. TableInv' /\ ChanInv'
    BY <1>1, ShrinkKeeps DEF IndInv
<1>3. ClientsInv'
    BY <1>1, ClientStays, ClientsRely DEF IndInv
<1> QED
    BY <1>2, <1>3 DEF IndInv

\* Both halves of a shutdown keep the invariant (BcConnection::shutdown).
LEMMA ShutdownKeeps ==
    ASSUME IndInv, Shutdown \/ ShutdownCancel
    PROVE  IndInv'
<1>1. CASE Shutdown
    <2>1. UNCHANGED <<queue, subs, chan, open, client, toApp, toCamera>> /\ Typed'
        BY <1>1 DEF Shutdown, IndInv, Typed, appVars, chanVars, netVars
    <2>2. toApp' \in Seq(BcMsg) /\ toCamera' \in Seq(Request)
        BY <2>1 DEF IndInv, TableInv
    <2> QED
        BY <2>1, <2>2, AsideKeeps
<1>2. CASE ShutdownCancel
    <2>1. /\ queue' = <<>> /\ subs' = {} /\ toApp' = <<>>
          /\ UNCHANGED <<chan, open, client, toCamera>>
        BY <1>2 DEF ShutdownCancel, appVars, chanVars
    <2>2. Typed'
        BY <1>2 DEF ShutdownCancel, IndInv, Typed, appVars
    <2>3. \A i \in Nat : ~Asks(i)'
        BY <2>1 DEF Asks
    <2>4. \A ch : Got(ch)' = Got(ch)
        BY <2>1 DEF Got
    <2>5. TableInv'
        <3>1. queue' \in Seq(Item) /\ Len(queue') <= QueueCap /\ toApp' \in Seq(BcMsg)
            BY <2>1, ConnectionAssumption
        <3> QED
            BY <2>1, <2>3, <3>1 DEF IndInv, TableInv
    <2>6. ChanInv'
        BY <2>1, <2>3, <2>4 DEF IndInv, ChanInv
    <2>7. ASSUME NEW k, ClientInv(k) PROVE ClientInv(k)'
        <3>1. Busy(k) /\ Listens(k) => \A m \in Got(k.ch)' : Fits(k, m)
            BY <2>4 DEF Listens
        <3> QED
            BY <2>1, <2>3, <2>7, <3>1, PollRely DEF IndInv
    <2> QED
        BY <2>1, <2>2, <2>5, <2>6, <2>7, ClientsRely DEF IndInv
<1> QED
    BY <1>1, <1>2

\* The camera answers under the id and the number of the request.
LEMMA RepliesTyped ==
    ASSUME NEW q \in Request, NEW m \in Replies(q)
    PROVE  m \in BcMsg
<1>1. q.id \in MsgIds /\ q.num \in Nums
    BY DEF Request
<1>2. PICK code \in {200, 400}, body \in Bodies : m = Message(q.id, q.num, code, body)
    <2>1. CASE q.reply = "xml"
        BY <2>1 DEF Replies, Bodies, Elements
    <2>2. CASE q.reply = "offer"
        BY <2>2 DEF Replies, Bodies
    <2>3. CASE q.reply = "binary"
        BY <2>3 DEF Replies, Bodies
    <2>4. CASE q.reply = "modern"
        BY <2>4 DEF Replies, Bodies, Elements
    <2>5. CASE q.reply \notin {"xml", "offer", "binary", "modern"}
        BY <2>5 DEF Replies, Bodies, Elements
    <2> QED
        BY <2>1, <2>2, <2>3, <2>4, <2>5
<1>3. code \in Nat
    OBVIOUS
<1> QED
    BY <1>1, <1>2, <1>3 DEF Message, BcMsg

\* The camera may answer, report or hang up: the invariant does not depend on it.
LEMMA CameraKeeps ==
    ASSUME IndInv, CamAnswer \/ CamSends \/ CamHangsUp
    PROVE  IndInv'
<1>1. /\ UNCHANGED <<queue, subs, chan, open, client, handlers, poller, closing, message_num, commands,
                     abilities>>
      /\ link' \in {link, "lost", "eof"}
    BY DEF CamAnswer, CamSends, CamHangsUp, connVars, appVars, chanVars
<1>2. Typed'
    BY <1>1 DEF IndInv, Typed
<1>3. /\ toApp \in Seq(BcMsg) /\ toCamera \in Seq(Request)
      /\ \A m \in BcMsg : Append(toApp, m) \in Seq(BcMsg)
    BY DEF IndInv, TableInv
<1>4. toCamera' \in Seq(Request)
    <2>1. \/ toCamera # <<>> /\ toCamera' = Tail(toCamera)
          \/ toCamera' = toCamera
          \/ toCamera' = <<>>
        BY DEF CamAnswer, CamSends, CamHangsUp
    <2>2. CASE toCamera # <<>> /\ toCamera' = Tail(toCamera)
        BY <1>3, <2>2
    <2>3. CASE toCamera' = toCamera
        BY <1>3, <2>3
    <2>4. CASE toCamera' = <<>>
        BY <2>4
    <2> QED
        BY <2>1, <2>2, <2>3, <2>4
<1>5. CASE CamAnswer
    <2>1. Head(toCamera) \in Request
        BY <1>3, <1>5 DEF CamAnswer
    <2>2. toApp' = toApp \/ \E m \in Replies(Head(toCamera)) : toApp' = Append(toApp, m)
        BY <1>5 DEF CamAnswer
    <2>3. toApp' \in Seq(BcMsg)
        BY <1>3, <2>1, <2>2, RepliesTyped
    <2> QED
        BY <1>1, <1>2, <1>4, <2>3, AsideKeeps
<1>6. CASE CamSends
    <2>1. 0 \in Nums
        BY ConnectionAssumption DEF Nums
    <2>2. ASSUME NEW id \in {"KEEP_ALIVE", "VIDEO", "SNAP"}, NEW num \in Nums, NEW code \in {0, 200, 201},
                 NEW body \in {"empty", "part"}
          PROVE  Message(id, num, code, body) \in BcMsg
        BY DEF Message, BcMsg, MsgIds, Bodies
    <2>3. ASSUME toApp' = Append(toApp, Message("KEEP_ALIVE", 0, 0, "empty"))
          PROVE  toApp' \in Seq(BcMsg)
        BY <1>3, <2>1, <2>2, <2>3
    <2>4. ASSUME NEW c \in Clients, client[c].phase = "stream",
                 toApp' = Append(toApp, Message("VIDEO", client[c].num, 200, "part"))
          PROVE  toApp' \in Seq(BcMsg)
        <3>1. client[c].num \in Nums
            BY <2>4, Waiting DEF IndInv
        <3> QED
            BY <1>3, <2>2, <2>4, <3>1
    <2>5. ASSUME NEW code \in {200, 201}, toApp' = Append(toApp, Message("SNAP", 0, code, "part"))
          PROVE  toApp' \in Seq(BcMsg)
        BY <1>3, <2>1, <2>2, <2>5
    <2>6. toApp' \in Seq(BcMsg)
        <3>1. \/ toApp' = Append(toApp, Message("KEEP_ALIVE", 0, 0, "empty"))
              \/ \E c \in Clients : /\ client[c].phase = "stream"
                                    /\ toApp' = Append(toApp, Message("VIDEO", client[c].num, 200, "part"))
              \/ \E code \in {200, 201} : toApp' = Append(toApp, Message("SNAP", 0, code, "part"))
            BY <1>6 DEF CamSends
        <3> QED
            BY <2>3, <2>4, <2>5, <3>1
    <2> QED
        BY <1>1, <1>2, <1>4, <2>6, AsideKeeps
<1>7. CASE CamHangsUp
    <2>1. toApp' \in Seq(BcMsg)
        BY <1>3, <1>7 DEF CamHangsUp
    <2> QED
        BY <1>1, <1>2, <1>4, <2>1, AsideKeeps
<1> QED
    BY <1>5, <1>6, <1>7
-----------------------------------------------------------------------------------
(* The theorems. *)

\* A new connection satisfies the invariant (BcConnection::new).
LEMMA InitInv == Init => IndInv
<1> SUFFICES ASSUME Init PROVE IndInv
    OBVIOUS
<1> DEFINE first == [type |-> "AddHandler", id |-> "KEEP_ALIVE"]
<1>1. Typed
    <2>1. message_num \in Nums
        BY ConnectionAssumption DEF Init, Nums
    <2>2. commands \in [Clients -> 0..MaxCommands]
        BY ConnectionAssumption DEF Init
    <2> QED
        BY <2>1, <2>2 DEF Init, Typed
<1>2. first \in Item /\ first.type = "AddHandler"
    BY DEF Item
<1>3. queue = <<first>>
    BY DEF Init
<1> HIDE DEF first
<1>4. /\ queue \in Seq(Item) /\ Len(queue) <= QueueCap
      /\ \A i \in Nat : ~Asks(i)
    <2>1. queue \in Seq(Item) /\ Len(queue) = 1 /\ queue[1] = first
        BY <1>2, <1>3
    <2>2. \A i \in 1..Len(queue) : queue[i] = first
        BY <2>1
    <2>3. Len(queue) <= QueueCap
        BY <2>1, ConnectionAssumption
    <2> QED
        BY <1>2, <2>1, <2>2, <2>3 DEF Asks
<1>5. TableInv
    BY <1>4 DEF Init, TableInv
<1>6. chan = [ch \in Channels |-> <<>>] /\ open = {} /\ subs = {}
    BY DEF Init
<1>7. \A ch \in Channels : chan[ch] = <<>> /\ Got(ch) = {}
    BY <1>6, MsgsEmpty DEF Got
<1>8. ChanInv
    <2>1. chan \in [Channels -> Seq(BcMsg \cup {ErrMessage})]
        BY <1>6
    <2>2. \A ch \in Channels : Len(chan[ch]) <= SubCap
        BY <1>7, ConnectionAssumption
    <2> QED
        BY <1>4, <1>6, <1>7, <2>1, <2>2 DEF ChanInv
<1>9. ClientsInv
    <2>1. client = [c \in Clients |-> Idle] /\ Idle.num = AnyNum
        BY DEF Init, Idle
    <2>2. AnyNum \notin Nums
        BY ConnectionAssumption DEF AnyNum, Nums
    <2> QED
        BY <2>1, <2>2 DEF ClientsInv, ClientInv
<1> QED
    BY <1>1, <1>5, <1>8, <1>9 DEF IndInv

\* Every step of the connection, its clients and the camera keeps the invariant.
LEMMA NextInv == IndInv /\ [Next]_vars => IndInv'
<1> SUFFICES ASSUME IndInv, [Next]_vars PROVE IndInv'
    OBVIOUS
<1>1. ASSUME NEW c \in Clients,
             \/ Start(c) \/ Subscribe(c) \/ GateFails(c) \/ Send(c) \/ Recv(c) \/ RecvNone(c)
             \/ QuirkTimeout(c) \/ StreamFrame(c) \/ StreamAbort(c) \/ GiveUp(c)
      PROVE  IndInv'
    BY <1>1, StartKeeps, SubscribeKeeps, SendKeeps, ReadsKeep
<1>2. CASE Reader \/ ReaderFails
    BY <1>2, ReaderKeeps
<1>3. CASE PollBc \/ PollErr \/ PollAddSubscriber \/ PollAddHandler
    BY <1>3, PollBcKeeps, PollErrKeeps, AddSubscriberKeeps, AddHandlerKeeps
<1>4. CASE Shutdown \/ ShutdownCancel
    BY <1>4, ShutdownKeeps
<1>5. CASE CamAnswer \/ CamSends \/ CamHangsUp
    BY <1>5, CameraKeeps
<1>6. CASE UNCHANGED vars
    <2>1. /\ UNCHANGED <<queue, subs, chan, open, client, toApp, toCamera>>
          /\ UNCHANGED <<message_num, commands, poller, closing, handlers, link, abilities>>
        BY <1>6 DEF vars, connVars, appVars, chanVars, netVars
    <2>2. Typed' /\ toApp' \in Seq(BcMsg) /\ toCamera' \in Seq(Request)
        BY <2>1 DEF IndInv, Typed, TableInv
    <2> QED
        BY <2>1, <2>2, AsideKeeps
<1> QED
    BY <1>1, <1>2, <1>3, <1>4, <1>5, <1>6 DEF Next

\* The inductive invariant holds in every state the connection reaches.
THEOREM IndInvHolds == Spec => []IndInv
<1>1. Init => IndInv
    BY InitInv
<1>2. IndInv /\ [Next]_vars => IndInv'
    BY NextInv
<1> QED
    BY <1>1, <1>2, PTL DEF Spec

\* What a client finds in its channel, from the poller's and the clients' invariant.
LEMMA ReplyFromInv == IndInv => ReplySafety
<1> SUFFICES ASSUME IndInv PROVE TypeOK /\ OwnReply
    BY DEF ReplySafety
<1>1. TypeOK
    <2>1. \A ch \in Channels : Len(chan[ch]) <= SubCap + 1
        <3>1. \A ch \in Channels : Len(chan[ch]) \in Nat /\ SubCap \in Nat
            BY ConnectionAssumption DEF IndInv, ChanInv
        <3> QED
            BY <3>1 DEF IndInv, ChanInv
    <2>2. \A s \in subs : s.ch \in Channels /\ s.num \in Nums \cup {AnyNum}
        BY DEF IndInv, TableInv, Subscriber
    <2>3. ASSUME NEW c \in Clients PROVE client[c].phase \in {"idle", "gate", "send", "wait", "stream"}
        <3>1. PICK k : k = client[c] /\ ClientInv(k)
            BY DEF IndInv, ClientsInv
        <3>2. k = Idle \/ k \in Client
            BY <3>1 DEF ClientInv, Busy
        <3> QED
            BY <3>1, <3>2 DEF Idle, Client
    <2>4. open \subseteq Channels /\ Len(queue) <= QueueCap
        BY DEF IndInv, ChanInv, TableInv
    <2> QED
        BY <2>1, <2>2, <2>3, <2>4 DEF IndInv, Typed, TypeOK
<1>2. OwnReply
    <2> SUFFICES ASSUME NEW c \in Clients, client[c].phase \in {"send", "wait", "stream"}, NEW got,
                        got = {m \in {chan[client[c].ch][i] : i \in 1..Len(chan[client[c].ch])} :
                                 m # ErrMessage}
                 PROVE  /\ \A m \in got : m.id = client[c].plan[1].id
                        /\ IF client[c].plan[1].sub = "any" THEN Cardinality({m.num : m \in got}) <= 1
                           ELSE \A m \in got : m.num = client[c].num
        BY DEF OwnReply
    <2>1. PICK k : k = client[c] /\ ClientInv(k)
        BY DEF IndInv, ClientsInv
    <2>2. Busy(k) /\ Listens(k)
        BY <2>1 DEF ClientInv, Idle, Listening
    <2>3. got = Got(k.ch) /\ k.ch \in Channels
        BY <2>1, <2>2, ListensOn DEF Got, Msgs
    <2>4. \A m \in got : m.id = k.plan[1].id /\ (k.plan[1].sub # "any" => m.num = k.num)
        BY <2>2, <2>3 DEF Listens, Fits
    <2>5. Cardinality({m.num : m \in got}) <= 1
        <3>1. CASE got = {}
            <4>1. {m.num : m \in got} = {}
                BY <3>1
            <4>2. Cardinality({m.num : m \in got}) = 0
                BY <4>1, FS_EmptySet
            <4> QED
                BY <4>2
        <3>2. CASE got # {}
            <4>1. PICK g \in got : TRUE
                BY <3>2
            <4>2. \A m \in got : m.num = g.num
                <5>1. \A m, n \in Got(k.ch) : m.num = n.num
                    BY <2>3 DEF IndInv, ChanInv
                <5> QED
                    BY <2>3, <4>1, <5>1
            <4>3. {m.num : m \in got} = {g.num}
                BY <4>2
            <4>4. Cardinality({m.num : m \in got}) = 1
                BY <4>3, FS_Singleton
            <4> QED
                BY <4>4
        <3> QED
            BY <3>1, <3>2
    <2> QED
        BY <2>1, <2>4, <2>5
<1> QED
    BY <1>1, <1>2

\* Whatever the camera sends and in whatever order, and however many clients share the
\* connection: the poller's queue and every channel stay within their capacity, and a
\* client in an exchange finds in its channel only messages of the id it asked for, under
\* the number it asked with (one number throughout, when it asked for any).
\* (Connection::subscribe, Poller::run, BcSubscription.)
THEOREM ReplySafetyHolds == Spec => []ReplySafety
<1>1. IndInv => ReplySafety
    BY ReplyFromInv
<1> QED
    BY <1>1, IndInvHolds, PTL

-----------------------------------------------------------------------------------
(* No reply is lost.  A client's subscription is in the poller's table, or in the  *)
(* queue ahead of every reply to it, and it is the only one to its id and number;  *)
(* for the stop of a stream, which shares the stream's number, because nothing     *)
(* under that number is of another id than the stream's.                           *)


\* No command but the snapshot is used.
DirectCommands == \A c \in Clients : \A plan \in CommandsOf(c) : Direct(plan)

\* Requests and messages of an id and a number that are on their way or queued.
Carries(w, id, num) == \E i \in 1..Len(w) : w[i].id = id /\ w[i].num = num
Queued(i, id, num) ==
    /\ i \in 1..Len(queue) /\ queue[i].type = "Bc"
    /\ queue[i].msg.id = id /\ queue[i].msg.num = num
Abroad(id, num) ==
    Carries(toCamera, id, num) \/ Carries(toApp, id, num) \/ \E i \in Nat : Queued(i, id, num)

\* What is abroad under a client's number is of the exchange it is in; before a stop
\* request is subscribed to, nothing is abroad or entered that could pass for its reply.
Own(k) ==
    /\ Listening(k) /\ k.plan[1].sub # "number" =>
         \A id : id # "KEEP_ALIVE" /\ Abroad(id, k.num) => id = k.plan[1].id
    /\ k.plan[1].sub = "number" =>
         /\ k.phase = "gate" => ~Abroad(k.plan[1].id, k.num)
         /\ \A s \in subs : s.ch = Channel(k.num, "new") => s.id # k.plan[1].id
         /\ \A i \in Nat : Asks(i) /\ queue[i].ch = Channel(k.num, "new") =>
              queue[i].id # k.plan[1].id

\* The client's subscription is in the table, or in the queue ahead of every reply.
Entered(k) ==
    /\ k.ch \in open
    /\ \/ \E s \in subs : s.ch = k.ch
       \/ \E i \in Nat : /\ Asks(i) /\ queue[i].ch = k.ch
                         /\ \A j \in Nat : j < i => ~Queued(j, k.plan[1].id, k.num)

Reach(k) ==
    k = Idle \/ (/\ Direct(k.plan)
                 /\ k.num \in Nums => Own(k)
                 /\ Listening(k) /\ poller = "run" => Entered(k))

\* A channel is subscribed under the number it is named by.
RowsInv ==
    /\ \A s \in subs : s.num = s.ch[1] /\ s.ch[2] # "any"
    /\ \A i \in Nat : Asks(i) => queue[i].num = queue[i].ch[1] /\ queue[i].ch[2] # "any"

ReachInv == RowsInv /\ \A c \in Clients : \A k \in {client[c]} : Reach(k)

\* What is left of a direct command is direct, and its stop has an id of its own.
LEMMA DirectTail ==
    ASSUME NEW plan, Planned(plan), Direct(plan), Tail(plan) # <<>>
    PROVE  /\ Direct(Tail(plan))
           /\ Tail(plan)[1].sub = "number" => Tail(plan)[1].id # plan[1].id
<1>1. plan \in Seq(Exchanges) /\ Len(plan) \in Nat /\ Len(plan) > 1
    BY DEF Planned
<1>2. /\ Len(Tail(plan)) = Len(plan) - 1
      /\ \A i \in 1..Len(Tail(plan)) : Tail(plan)[i] = plan[i + 1] /\ i + 1 \in 1..Len(plan)
    BY <1>1
<1>3. ASSUME NEW i \in 1..Len(Tail(plan)) - 1, Tail(plan)[i + 1].sub = "number"
      PROVE  Tail(plan)[i + 1].id # Tail(plan)[i].id
  <2>1. /\ i + 1 \in 1..Len(plan) - 1
        /\ Tail(plan)[i] = plan[i + 1] /\ Tail(plan)[i + 1] = plan[(i + 1) + 1]
      BY <1>1, <1>2
  <2> QED
      BY <1>3, <2>1 DEF Direct
<1>4. Tail(plan)[1].sub = "number" => Tail(plan)[1].id # plan[1].id
  <2>1. 1 \in 1..Len(plan) - 1 /\ Tail(plan)[1] = plan[1 + 1]
      BY <1>1, <1>2
  <2> QED
      BY <2>1 DEF Direct
<1>5. \A i \in 1..Len(Tail(plan)) :
        /\ Tail(plan)[i].id # "KEEP_ALIVE" /\ Tail(plan)[i].sub # "any"
        /\ Tail(plan)[i].reply # "chunks"
        /\ Tail(plan)[i].reply = "stream" => Tail(plan)[i].id = "VIDEO"
    BY <1>2 DEF Direct
<1> QED
    BY <1>3, <1>4, <1>5 DEF Direct

\* What the exchanges of a login are.
Plain(x) == x.id # "KEEP_ALIVE" /\ x.sub \in {"new", "same"} /\ x.reply \notin {"chunks", "stream"}

\* Sequences of one to three of them are direct.
LEMMA PlainDirect ==
    /\ \A x : Plain(x) => Direct(<<x>>)
    /\ \A x, y : Plain(x) /\ Plain(y) => Direct(<<x>> \o <<y>>) /\ (<<x>> \o <<y>>)[1] = x
    /\ \A x, y, z : Plain(x) /\ Plain(y) /\ Plain(z) =>
         Direct(<<x, y>> \o <<z>>) /\ (<<x, y>> \o <<z>>)[1] = x
<1>0. ASSUME NEW w, Len(w) \in Nat, \A i \in 1..Len(w) : Plain(w[i]) PROVE Direct(w)
  <2>1. \A i \in 1..Len(w) - 1 : i + 1 \in 1..Len(w)
      BY <1>0
  <2> QED
      BY <1>0, <2>1 DEF Direct, Plain
<1>1. ASSUME NEW x, Plain(x) PROVE Direct(<<x>>)
  <2>1. Len(<<x>>) = 1 /\ <<x>>[1] = x
      OBVIOUS
  <2>2. PICK w : w = <<x>>
      OBVIOUS
  <2>3. Len(w) \in Nat /\ \A i \in 1..Len(w) : i = 1
      BY <2>1, <2>2
  <2> QED
      BY <1>0, <1>1, <2>1, <2>2, <2>3
<1>2. ASSUME NEW x, NEW y, Plain(x), Plain(y)
      PROVE  Direct(<<x>> \o <<y>>) /\ (<<x>> \o <<y>>)[1] = x
  <2>1. PICK w : w = <<x>> \o <<y>>
      OBVIOUS
  <2>2. Len(w) = 2 /\ w[1] = x /\ w[2] = y
      BY <2>1
  <2>3. Len(w) \in Nat /\ \A i \in 1..Len(w) : i \in {1, 2}
      BY <2>2
  <2> QED
      BY <1>0, <1>2, <2>1, <2>2, <2>3
<1>3. ASSUME NEW x, NEW y, NEW z, Plain(x), Plain(y), Plain(z)
      PROVE  Direct(<<x, y>> \o <<z>>) /\ (<<x, y>> \o <<z>>)[1] = x
  <2>1. PICK w : w = <<x, y>> \o <<z>>
      OBVIOUS
  <2>2. Len(w) = 3 /\ w[1] = x /\ w[2] = y /\ w[3] = z
      BY <2>1
  <2>3. Len(w) \in Nat /\ \A i \in 1..Len(w) : i \in {1, 2, 3}
      BY <2>2
  <2> QED
      BY <1>0, <1>3, <2>1, <2>2, <2>3
<1> QED
    BY <1>1, <1>2, <1>3

\* So is a login, before and after the camera's offer.
LEMMA LoginDirect ==
    /\ \A cfg : Login(cfg) # <<>> => Direct(Login(cfg))
    /\ \A cfg, offer : AfterOffer(cfg, offer) # <<>> =>
         Direct(AfterOffer(cfg, offer)) /\ AfterOffer(cfg, offer)[1].sub # "number"
<1> DEFINE p == populate_abilities[1]
           f == finish_cloud_login[1]
<1>1. Plain(Modern) /\ Plain(SigV3) /\ Plain(GetAccesskey) /\ Plain(AuthLogin) /\ Plain(Upgrade)
    BY DEF Modern, SigV3, GetAccesskey, AuthLogin, Upgrade, Exchange, Plain
<1>2. p = Exchange("ABILITY_INFO", NoNeed, "xml", "CameraServiceUnavailable")
    BY DEF populate_abilities, get_abilityinfo, Get
<1>3. f = [p EXCEPT !.advisory = TRUE]
    BY DEF finish_cloud_login, Advisory
<1>4. Plain(p) /\ Plain(f)
    BY <1>2, <1>3 DEF Exchange, Plain
<1>5. ASSUME NEW cfg, Login(cfg) # <<>> PROVE Login(cfg) \in {<<SigV3>> \o <<f>>, <<Upgrade>>}
    BY <1>5, LoginExchanges DEF Login
<1>6. ASSUME NEW cfg, NEW offer, AfterOffer(cfg, offer) # <<>>
      PROVE  AfterOffer(cfg, offer) \in {<<Modern>> \o <<p>>, <<SigV3>> \o <<f>>,
                                         <<GetAccesskey, AuthLogin>> \o <<f>>}
    BY <1>6, LoginExchanges DEF AfterOffer, run_authlogin
<1> HIDE DEF p, f
<1>7. Direct(<<SigV3>> \o <<f>>) /\ Direct(<<Upgrade>>)
    BY <1>1, <1>4, PlainDirect
<1>8. /\ Direct(<<Modern>> \o <<p>>) /\ (<<Modern>> \o <<p>>)[1] = Modern
      /\ Direct(<<SigV3>> \o <<f>>) /\ (<<SigV3>> \o <<f>>)[1] = SigV3
      /\ Direct(<<GetAccesskey, AuthLogin>> \o <<f>>)
      /\ (<<GetAccesskey, AuthLogin>> \o <<f>>)[1] = GetAccesskey
    BY <1>1, <1>4, PlainDirect
<1>9. \A x \in {Modern, SigV3, GetAccesskey} : x.sub # "number"
    BY <1>1 DEF Plain
<1>10. \A cfg : Login(cfg) # <<>> => Direct(Login(cfg))
    BY <1>5, <1>7
<1>11. ASSUME NEW cfg, NEW offer, AfterOffer(cfg, offer) # <<>>
       PROVE  Direct(AfterOffer(cfg, offer)) /\ AfterOffer(cfg, offer)[1].sub # "number"
  <2>1. PICK w : w = AfterOffer(cfg, offer)
      OBVIOUS
  <2>2. w \in {<<Modern>> \o <<p>>, <<SigV3>> \o <<f>>, <<GetAccesskey, AuthLogin>> \o <<f>>}
      BY <1>6, <1>11, <2>1
  <2>3. Direct(w) /\ w[1] \in {Modern, SigV3, GetAccesskey}
      BY <1>8, <2>2
  <2> QED
      BY <1>9, <2>1, <2>3
<1> QED
    BY <1>10, <1>11

\* Messages and requests at the end and at the head of a queue.
LEMMA CarriesAppend ==
    ASSUME NEW S, NEW w \in Seq(S), NEW r \in S, NEW id, NEW num, Carries(Append(w, r), id, num)
    PROVE  Carries(w, id, num) \/ (r.id = id /\ r.num = num)
<1>1. PICK v : v = Append(w, r)
    OBVIOUS
<1>2. /\ Len(w) \in Nat /\ Len(v) = Len(w) + 1 /\ v[Len(w) + 1] = r
      /\ \A i \in 1..Len(w) : v[i] = w[i]
    BY <1>1
<1>3. PICK i \in 1..Len(v) : v[i].id = id /\ v[i].num = num
    BY <1>1 DEF Carries
<1>4. i \in 1..Len(w) \/ i = Len(w) + 1
    BY <1>2
<1> QED
    BY <1>2, <1>3, <1>4 DEF Carries
\* What is carried behind the head, and the head itself, are carried.
LEMMA CarriesTail ==
    ASSUME NEW S, NEW w \in Seq(S), w # <<>>, NEW id, NEW num
    PROVE  /\ Carries(Tail(w), id, num) => Carries(w, id, num)
           /\ Head(w).id = id /\ Head(w).num = num => Carries(w, id, num)
<1>1. PICK v : v = Tail(w)
    OBVIOUS
<1>2. /\ Len(w) \in Nat /\ Len(v) = Len(w) - 1 /\ 1 \in 1..Len(w) /\ Head(w) = w[1]
      /\ \A i \in 1..Len(v) : v[i] = w[i + 1] /\ i + 1 \in 1..Len(w)
    BY <1>1
<1> QED
    BY <1>1, <1>2 DEF Carries

-----------------------------------------------------------------------------------
\* What a step may do to the traffic and to the table: nothing appears but what a client
\* that listens asked for, and the keepalive; and no row that was not asked for.
Speaks(k, id, num) == Listening(k) /\ k.num = num /\ k.plan[1].id = id
NoNews ==
    \A id, num : id # "KEEP_ALIVE" /\ num \in Nums /\ Abroad(id, num)' =>
        Abroad(id, num) \/ \E c \in Clients : Speaks(client[c], id, num)
OldRows(num) ==
    /\ \A s \in subs' : s.ch[1] = num =>
         \/ \E t \in subs : t.ch = s.ch /\ t.id = s.id
         \/ \E i \in Nat : Asks(i) /\ queue[i].ch = s.ch /\ queue[i].id = s.id
    /\ \A i \in Nat : Asks(i)' /\ queue'[i].ch[1] = num => \E j \in Nat : Asks(j) /\ queue'[i] = queue[j]

\* What comes under a client's number is its own.
LEMMA NewsOwn ==
    ASSUME IndInv, NoNews, NEW c \in Clients, NEW k, k = client[c], k.num \in Nums,
           NEW id, id # "KEEP_ALIVE", Abroad(id, k.num)'
    PROVE  Abroad(id, k.num) \/ (Listening(k) /\ id = k.plan[1].id)
<1>1. ASSUME NEW d \in Clients, Speaks(client[d], id, k.num)
      PROVE  Listening(k) /\ id = k.plan[1].id
  <2>1. d = c
      BY <1>1 DEF Speaks, IndInv, ClientsInv
  <2> QED
      BY <1>1, <2>1 DEF Speaks
<1> QED
    BY <1>1 DEF NoNews

\* A client that is left alone.
LEMMA ReachStays ==
    ASSUME IndInv, NoNews, NEW c \in Clients, NEW k, k = client[c], OldRows(k.num), Reach(k),
           k # Idle /\ Listening(k) /\ poller' = "run" => Entered(k)'
    PROVE  Reach(k)'
<1>1. CASE k = Idle
    BY <1>1 DEF Reach, Idle
<1>2. CASE k # Idle
  <2>1. Direct(k.plan) /\ (k.num \in Nums => Own(k))
      BY <1>2 DEF Reach
  <2>2. ASSUME k.num \in Nums PROVE Own(k)'
    <3>1. Own(k)
        BY <2>1, <2>2
    <3>2. ASSUME NEW id, id # "KEEP_ALIVE", Abroad(id, k.num)', Listening(k), k.plan[1].sub # "number"
          PROVE  id = k.plan[1].id
        BY <2>2, <3>1, <3>2, NewsOwn DEF Own
    <3>3. ASSUME k.plan[1].sub = "number", k.phase = "gate", Abroad(k.plan[1].id, k.num)' PROVE FALSE
      <4>1. ~Listening(k)
          BY <3>3 DEF Listening
      <4>2. k.plan[1].id # "KEEP_ALIVE"
        <5>1. k.plan \in Seq(Exchanges) /\ k.plan # <<>>
            BY <1>2 DEF IndInv, ClientsInv, ClientInv, Busy, Planned
        <5>2. 1 \in 1..Len(k.plan)
            BY <5>1
        <5> QED
            BY <2>1, <5>2 DEF Direct
      <4>3. PICK id : id = k.plan[1].id
          OBVIOUS
      <4>4. Abroad(id, k.num)
          BY <2>2, <3>3, <4>1, <4>2, <4>3, NewsOwn
      <4> QED
          BY <3>1, <3>3, <4>3, <4>4 DEF Own
    <3>4. ASSUME k.plan[1].sub = "number", NEW s \in subs', s.ch = Channel(k.num, "new")
          PROVE  s.id # k.plan[1].id
        BY <3>1, <3>4 DEF OldRows, Own, Channel
    <3>5. ASSUME k.plan[1].sub = "number", NEW i \in Nat, Asks(i)', queue'[i].ch = Channel(k.num, "new")
          PROVE  queue'[i].id # k.plan[1].id
        BY <3>1, <3>5 DEF OldRows, Own, Channel
    <3> QED
        BY <3>2, <3>3, <3>4, <3>5 DEF Own, Listening, Channel
  <2>3. Listening(k)' /\ poller' = "run" => Entered(k)'
      BY <1>2 DEF Listening
  <2> QED
      BY <2>1, <2>2, <2>3 DEF Reach, Direct, Nums
<1> QED
    BY <1>1, <1>2

\* Where a client that listens may go: on with its exchange, or to the next one, which
\* continues it or, a stop, has an id of its own.
Goes(k, n) ==
    \/ n = Idle
    \/ /\ n # Idle /\ n.num = k.num /\ n.ch = k.ch /\ Direct(n.plan)
       /\ 1 \in 1..Len(n.plan)
       /\ \/ n.phase \in {"wait", "stream"} /\ n.plan = k.plan
          \/ /\ n.phase = "gate" /\ k.plan[1].sub # "number"
             /\ n.plan[1].sub = "same" => n.plan[1].id = k.plan[1].id
             /\ n.plan[1].sub = "number" => n.plan[1].id # k.plan[1].id

\* A client that moves on.
LEMMA ReachMoves ==
    ASSUME IndInv, NoNews, NEW c \in Clients, NEW k, k = client[c], OldRows(k.num), Reach(k), k # Idle,
           Listening(k), NEW n, Goes(k, n), n # Idle,
           poller' = "run" => Entered(k)'
    PROVE  Reach(n)'
<1>1. Listens(k) /\ Busy(k) /\ k.num \in Nums /\ n.num = k.num /\ n.ch = k.ch /\ Direct(n.plan)
    BY DEF IndInv, ClientsInv, ClientInv, Goes, Listens
<1>2. Direct(k.plan) /\ Own(k)
    BY <1>1 DEF Reach
<1>3. ASSUME n.phase \in {"wait", "stream"}, n.plan = k.plan PROVE Reach(n)'
  <2>1. Reach(k)'
      BY ReachStays
  <2>2. Own(k)' /\ (poller' = "run" => Entered(k)')
      BY <1>1, <2>1 DEF Reach, Nums
  <2>3. Own(n)'
    <3>1. Listening(n) /\ n.phase # "gate"
        BY <1>3 DEF Listening
    <3>2. k.phase = "gate" => k.plan[1].sub = "same"
        BY DEF Listening
    <3> QED
        BY <1>1, <1>3, <2>2, <3>1, <3>2 DEF Own, Listening, Channel
  <2>4. poller' = "run" => Entered(n)'
      BY <1>1, <1>3, <2>2 DEF Entered
  <2> QED
      BY <1>1, <2>3, <2>4 DEF Reach, Direct
<1>4. ASSUME n.phase = "gate", k.plan[1].sub # "number",
             n.plan[1].sub = "same" => n.plan[1].id = k.plan[1].id,
             n.plan[1].sub = "number" => n.plan[1].id # k.plan[1].id
      PROVE  Reach(n)'
  <2>1. ASSUME NEW id, id # "KEEP_ALIVE", Abroad(id, k.num)' PROVE id = k.plan[1].id
      BY <1>1, <1>2, <1>4, <2>1, NewsOwn DEF Own
  <2>2. CASE n.plan[1].sub = "number"
    <3>1. ~Listening(n)
        BY <1>4, <2>2 DEF Listening
    <3>2. n.plan[1].id # "KEEP_ALIVE"
        BY <1>1 DEF Goes, Direct
    <3>3. PICK id : id = n.plan[1].id
        OBVIOUS
    <3>4. ~Abroad(id, k.num)'
        BY <1>4, <2>1, <2>2, <3>2, <3>3
    <3>5. k.ch = Channel(k.num, "new")
      <4>1. k.plan[1] \in Exchanges /\ 1 \in 1..Len(k.plan)
          BY <1>1, ListensOn DEF Busy, Planned
      <4>2. k.plan[1].sub \in {"new", "same"}
          BY <1>2, <1>4, <4>1 DEF Exchanges, Direct
      <4> QED
          BY <1>1, <4>2 DEF Listens, Kind
    <3>6. ASSUME NEW s \in subs', s.ch = Channel(n.num, "new") PROVE s.id # id
        BY <1>1, <1>4, <2>2, <3>3, <3>5, <3>6 DEF OldRows, Listens, Fits, Channel
    <3>7. ASSUME NEW i \in Nat, Asks(i)', queue'[i].ch = Channel(n.num, "new")
          PROVE  queue'[i].id # id
        BY <1>1, <1>4, <2>2, <3>3, <3>5, <3>7 DEF OldRows, Listens, Fits, Channel
    <3>8. Own(n)'
        BY <1>1, <2>2, <3>1, <3>3, <3>4, <3>6, <3>7 DEF Own, Listening, Channel
    <3> QED
        BY <1>1, <3>1, <3>8 DEF Reach, Direct, Listening
  <2>3. CASE n.plan[1].sub = "same"
    <3>1. Own(n)'
        BY <1>1, <1>4, <2>1, <2>3 DEF Own, Listening
    <3>2. poller' = "run" => Entered(n)'
        BY <1>1, <1>4, <2>3 DEF Entered
    <3> QED
        BY <1>1, <3>1, <3>2 DEF Reach, Direct
  <2>4. CASE n.plan[1].sub \notin {"number", "same"}
    <3>1. ~Listening(n)
        BY <1>4, <2>4 DEF Listening
    <3> QED
        BY <1>1, <2>4, <3>1 DEF Reach, Direct, Own, Listening
  <2> QED
      BY <2>2, <2>3, <2>4
<1> QED
    BY <1>3, <1>4 DEF Goes

\* A step of one client that leaves the poller and the channels of the others alone.
LEMMA ClientReach ==
    ASSUME IndInv, ReachInv, NEW c \in Clients, NEW n, Becomes(c, n),
           UNCHANGED <<queue, subs, poller>>, NoNews,
           \A ch \in open : ch[1] # client[c].num => ch \in open',
           Reach(n)'
    PROVE  ReachInv'
<1>1. \A i \in Nat : Asks(i)' <=> Asks(i)
    BY DEF Asks
<1>2. \A num : OldRows(num)
    BY <1>1 DEF OldRows
<1>3. RowsInv'
    BY <1>1 DEF ReachInv, RowsInv
<1>4. \A d \in Clients : client'[d] = IF d = c THEN n ELSE client[d]
    BY DEF Becomes, IndInv, ClientsInv
<1>5. ASSUME NEW d \in Clients, d # c, NEW k, k = client[d] PROVE Reach(k)'
  <2>1. Reach(k)
      BY <1>5 DEF ReachInv
  <2>2. ASSUME k # Idle, Listening(k), poller' = "run" PROVE Entered(k)'
    <3>1. Listens(k) /\ Entered(k)
        BY <1>5, <2>1, <2>2 DEF IndInv, ClientsInv, ClientInv, Reach
    <3>2. k.ch[1] = k.num /\ k.num # client[c].num
        BY <1>5, <3>1 DEF Listens, Channel, IndInv, ClientsInv
    <3>3. k.ch \in open'
        BY <3>1, <3>2 DEF Entered
    <3>4. \A i \in Nat : Queued(i, k.plan[1].id, k.num)' <=> Queued(i, k.plan[1].id, k.num)
        BY DEF Queued
    <3> QED
        BY <1>1, <3>1, <3>3, <3>4 DEF Entered
  <2> QED
      BY <1>2, <1>5, <2>1, <2>2, ReachStays
<1>6. \A d \in Clients : \A k \in {client'[d]} : Reach(k)'
    BY <1>4, <1>5
<1> QED
    BY <1>3, <1>6 DEF ReachInv

\* The same for a client that listens and goes on or ends.
LEMMA ListenerReach ==
    ASSUME IndInv, ReachInv, NEW c \in Clients, NEW k, k = client[c], k # Idle, Listening(k),
           NEW n, Becomes(c, n), Goes(k, n), UNCHANGED <<queue, subs, poller>>, NoNews,
           \A ch \in open : ch[1] # k.num \/ n # Idle => ch \in open'
    PROVE  ReachInv'
<1>1. \A i \in Nat : Asks(i)' <=> Asks(i)
    BY DEF Asks
<1>2. \A num : OldRows(num)
    BY <1>1 DEF OldRows
<1>3. Reach(k)
    BY DEF ReachInv
<1>4. CASE n = Idle
  <2>1. Reach(n)'
      BY <1>4 DEF Reach, Idle
  <2> QED
      BY <2>1, ClientReach
<1>5. CASE n # Idle
  <2>1. ASSUME poller' = "run" PROVE Entered(k)'
    <3>1. Entered(k)
        BY <1>3, <2>1 DEF Reach
    <3>2. \A i \in Nat : Queued(i, k.plan[1].id, k.num)' <=> Queued(i, k.plan[1].id, k.num)
        BY DEF Queued
    <3> QED
        BY <1>1, <1>5, <3>1, <3>2 DEF Entered
  <2>2. Reach(n)'
      BY <1>2, <1>3, <1>5, <2>1, ReachMoves
  <2> QED
      BY <1>5, <2>2, ClientReach
<1> QED
    BY <1>4, <1>5

\* Steps without new traffic.
LEMMA QuietNews ==
    ASSUME UNCHANGED <<queue, toApp, toCamera>>
    PROVE  NoNews
BY DEF NoNews, Abroad, Carries, Queued

\* A command that ends drops its own channels only.
LEMMA EndGoes ==
    ASSUME NEW c, NEW k, k = client[c], End(c)
    PROVE  \E n : /\ Becomes(c, n) /\ Goes(k, n)
                  /\ \A ch \in open : ch[1] # k.num \/ n # Idle => ch \in open'
<1>1. \A n : n = Idle => Becomes(c, n) /\ Goes(k, n)
    BY DEF End, Goes
<1>2. \A ch \in open : ch[1] # k.num => ch \in open'
    BY DEF End, Drop
<1> QED
    BY <1>1, <1>2

\* A stream's client goes on to the stop.
LEMMA StopGoes ==
    ASSUME NEW k \in Client, Busy(k), Reach(k), k # Idle, k.plan[1].reply = "stream"
    PROVE  \A n : n = [k EXCEPT !.plan = Tail(k.plan), !.phase = "gate"] => Goes(k, n) /\ n # Idle
<1>1. Tail(k.plan) # <<>>
    BY StreamTail DEF Busy
<1>2. Continues(k.plan[1], Tail(k.plan)) /\ k.plan[1].sub \in {"new", "same"}
    BY <1>1, TailPlanned DEF Busy
<1>3. Direct(Tail(k.plan)) /\ (Tail(k.plan)[1].sub = "number" => Tail(k.plan)[1].id # k.plan[1].id)
    BY <1>1, DirectTail DEF Busy, Reach
<1>4. 1 \in 1..Len(Tail(k.plan))
    BY <1>2 DEF Continues, Planned
<1>5. SUFFICES ASSUME NEW n, n = [k EXCEPT !.plan = Tail(k.plan), !.phase = "gate"]
               PROVE  Goes(k, n) /\ n # Idle
    OBVIOUS
<1>6. n.plan = Tail(k.plan) /\ n.phase = "gate" /\ n.num = k.num /\ n.ch = k.ch
    BY <1>5 DEF Client
<1>7. n # Idle
    BY <1>6 DEF Idle
<1> QED
    BY <1>2, <1>3, <1>4, <1>6, <1>7 DEF Goes, Continues, Follows

\* A command that ends, or goes on to stop its stream.
LEMMA EndOrStopGoes ==
    ASSUME ClientsInv, NEW c \in Clients, NEW k, k = client[c], k.phase \in {"wait", "stream"},
           Reach(k), EndOrStop(c)
    PROVE  \E n : /\ Becomes(c, n) /\ Goes(k, n)
                  /\ \A ch \in open : ch[1] # k.num \/ n # Idle => ch \in open'
<1>1. k \in Client /\ Busy(k) /\ k # Idle
    BY Waiting
<1>2. CASE k.plan[1].reply = "stream"
  <2>1. PICK n : n = [k EXCEPT !.plan = Tail(k.plan), !.phase = "gate"]
      OBVIOUS
  <2>2. Becomes(c, n) /\ open' = open
      BY <1>2, <2>1 DEF EndOrStop
  <2> QED
      BY <1>1, <1>2, <2>1, <2>2, StopGoes
<1>3. CASE k.plan[1].reply # "stream"
    BY <1>3, EndGoes DEF EndOrStop
<1> QED
    BY <1>2, <1>3

\* Whatever a reply is judged to be, the client goes on or ends.
LEMMA SettleGoes ==
    ASSUME ClientsInv, NEW c \in Clients, NEW k, k = client[c], k.phase = "wait", Reach(k),
           NEW r, Settle(c, r)
    PROVE  \E n : /\ Becomes(c, n) /\ Goes(k, n)
                  /\ \A ch \in open : ch[1] # k.num \/ n # Idle => ch \in open'
<1>1. /\ k \in Client /\ Busy(k) /\ k # Idle /\ k.plan[1] \in Exchanges /\ Sound(k.plan[1])
    BY Waiting
<1>2. Direct(k.plan) /\ 1 \in 1..Len(k.plan)
    BY <1>1 DEF Reach, Busy, Planned
<1> DEFINE x == k.plan[1]
           v == Judge(x, r, k.tried)
           rest == Rest(k.plan, r, config)
<1>3. ASSUME NEW plan, NEW tried, open' = open, x.sub # "number", Direct(plan), 1 \in 1..Len(plan),
             plan[1].sub = "same" => plan[1].id = x.id, plan[1].sub = "number" => plan[1].id # x.id,
             Becomes(c, [k EXCEPT !.phase = "gate", !.plan = plan, !.tried = tried])
      PROVE  \E n : /\ Becomes(c, n) /\ Goes(k, n)
                    /\ \A ch \in open : ch[1] # k.num \/ n # Idle => ch \in open'
  <2>1. PICK n : n = [k EXCEPT !.phase = "gate", !.plan = plan, !.tried = tried]
      OBVIOUS
  <2>2. n.plan = plan /\ n.phase = "gate" /\ n.num = k.num /\ n.ch = k.ch
      BY <1>1, <2>1 DEF Client
  <2>3. n # Idle
      BY <2>2 DEF Idle
  <2>4. Becomes(c, n)
      BY <1>3, <2>1
  <2>5. Goes(k, n)
      BY <1>3, <2>2, <2>3 DEF Goes
  <2> QED
      BY <1>3, <2>4, <2>5
<1>4. CASE v = "retry"
  <2>1. x.sub \in {"new", "same"}
    <3>1. x.reply = "xml"
        BY <1>1, <1>4, RetryIsXml
    <3> QED
        BY <1>1, <3>1 DEF Sound, Exchanges
  <2>2. open' = open /\ Becomes(c, [k EXCEPT !.phase = "gate", !.tried = k.tried + 1])
      BY <1>4 DEF Settle
  <2>3. [k EXCEPT !.phase = "gate", !.tried = k.tried + 1]
        = [k EXCEPT !.phase = "gate", !.plan = k.plan, !.tried = k.tried + 1]
      BY <1>1 DEF Client
  <2>4. Becomes(c, [k EXCEPT !.phase = "gate", !.plan = k.plan, !.tried = k.tried + 1])
      BY <2>2, <2>3 DEF Becomes
  <2> QED
      BY <1>2, <1>3, <2>1, <2>2, <2>4
<1>5. CASE v = "more" \/ (v = "ok" /\ x.reply = "stream")
  <2>1. PICK n : n = [k EXCEPT !.phase = IF v = "more" THEN "wait" ELSE "stream"]
      OBVIOUS
  <2>2. Becomes(c, n) /\ open' = open
      BY <1>5, <2>1 DEF Settle
  <2>3. n.plan = k.plan /\ n.phase \in {"wait", "stream"} /\ n.num = k.num /\ n.ch = k.ch
      BY <1>1, <2>1 DEF Client
  <2>4. n # Idle
      BY <2>3 DEF Idle
  <2> QED
      BY <1>2, <2>2, <2>3, <2>4 DEF Goes
<1>6. CASE v = "ok" /\ x.reply # "stream" /\ rest # <<>>
  <2>1. open' = open /\ Becomes(c, [k EXCEPT !.phase = "gate", !.plan = rest, !.tried = 0])
      BY <1>6 DEF Settle
  <2>2. /\ x.sub # "number" /\ Direct(rest) /\ 1 \in 1..Len(rest)
        /\ rest[1].sub = "same" => rest[1].id = x.id
        /\ rest[1].sub = "number" => rest[1].id # x.id
    <3>1. CASE x.reply = "offer"
      <4>1. rest = AfterOffer(config, r.body) /\ x.id = "LOGIN" /\ x.sub = "new"
          BY <1>1, <3>1 DEF Rest, Sound
      <4>2. Continues(x, rest)
          BY <1>6, <4>1, OfferPlanned
      <4>3. Direct(rest) /\ rest[1].sub # "number"
          BY <1>6, <4>1, LoginDirect
      <4> QED
          BY <4>1, <4>2, <4>3 DEF Continues, Planned, Follows
    <3>2. CASE x.reply # "offer"
      <4>1. rest = Tail(k.plan)
          BY <1>6, <3>2 DEF Rest
      <4>2. Continues(x, rest) /\ x.sub \in {"new", "same"}
          BY <1>1, <1>6, <4>1, TailPlanned DEF Busy
      <4>3. Direct(rest) /\ (rest[1].sub = "number" => rest[1].id # x.id)
          BY <1>1, <1>2, <1>6, <4>1, DirectTail DEF Busy
      <4> QED
          BY <4>2, <4>3 DEF Continues, Planned, Follows
    <3> QED
        BY <3>1, <3>2
  <2> HIDE DEF x, rest
  <2> QED
      BY <1>3, <2>1, <2>2
<1>7. CASE v = "ok" /\ x.reply # "stream" /\ rest = <<>>
    BY <1>7, EndGoes DEF Settle
<1>8. CASE v \notin {"ok", "retry", "more"} /\ x.advisory
  <2>1. CASE Tail(k.plan) = <<>>
      BY <1>8, <2>1, EndGoes DEF Settle
  <2>2. CASE Tail(k.plan) # <<>>
    <3>1. open' = open /\ Becomes(c, [k EXCEPT !.phase = "gate", !.plan = Tail(k.plan)])
        BY <1>8, <2>2 DEF Settle
    <3>2. [k EXCEPT !.phase = "gate", !.plan = Tail(k.plan)]
          = [k EXCEPT !.phase = "gate", !.plan = Tail(k.plan), !.tried = k.tried]
        BY <1>1 DEF Client
    <3>3. Becomes(c, [k EXCEPT !.phase = "gate", !.plan = Tail(k.plan), !.tried = k.tried])
        BY <3>1, <3>2 DEF Becomes
    <3>4. Continues(x, Tail(k.plan)) /\ x.sub \in {"new", "same"}
        BY <1>1, <2>2, TailPlanned DEF Busy
    <3>5. Direct(Tail(k.plan)) /\ (Tail(k.plan)[1].sub = "number" => Tail(k.plan)[1].id # x.id)
        BY <1>1, <1>2, <2>2, DirectTail DEF Busy
    <3>6. 1 \in 1..Len(Tail(k.plan)) /\ (Tail(k.plan)[1].sub = "same" => Tail(k.plan)[1].id = x.id)
        BY <3>4 DEF Continues, Planned, Follows
    <3> HIDE DEF x
    <3> QED
        BY <1>3, <3>1, <3>3, <3>4, <3>5, <3>6
  <2> QED
      BY <2>1, <2>2
<1>9. CASE v \notin {"ok", "retry", "more"} /\ ~x.advisory
  <2>1. EndOrStop(c)
      BY <1>9 DEF Settle
  <2> QED
      BY <2>1, EndOrStopGoes
<1> QED
    BY <1>4, <1>5, <1>6, <1>7, <1>8, <1>9

\* The steps of a client that neither subscribe nor send.
LEMMA ReadsReach ==
    ASSUME IndInv, ReachInv, NEW c \in Clients,
           \/ GateFails(c) \/ Recv(c) \/ RecvNone(c) \/ QuirkTimeout(c) \/ StreamFrame(c)
           \/ StreamAbort(c) \/ GiveUp(c)
    PROVE  ReachInv'
<1>1. UNCHANGED <<queue, subs, poller, toApp, toCamera>>
    BY DEF GateFails, Recv, RecvNone, QuirkTimeout, StreamFrame, StreamAbort, GiveUp, connVars, netVars
<1>2. NoNews
    BY <1>1, QuietNews
<1>3. PICK k : k = client[c]
    OBVIOUS
<1>4. Reach(k)
    BY <1>3 DEF ReachInv
<1>5. ASSUME End(c) PROVE ReachInv'
  <2>1. \A ch \in open : ch[1] # client[c].num => ch \in open'
      BY <1>5 DEF End, Drop
  <2>2. \A n : n = Idle => Becomes(c, n) /\ Reach(n)'
      BY <1>5 DEF End, Reach, Idle
  <2> QED
      BY <1>1, <1>2, <2>1, <2>2, ClientReach
<1>6. ASSUME k.phase \in {"wait", "stream"},
             \E n : /\ Becomes(c, n) /\ Goes(k, n)
                    /\ \A ch \in open : ch[1] # k.num \/ n # Idle => ch \in open'
      PROVE  ReachInv'
  <2>1. k # Idle /\ Listening(k)
      BY <1>6 DEF Idle, Listening
  <2> QED
      BY <1>1, <1>2, <1>3, <1>6, <2>1, ListenerReach
<1>7. CASE GateFails(c) \/ QuirkTimeout(c) \/ GiveUp(c)
    BY <1>5, <1>7 DEF GateFails, QuirkTimeout, GiveUp
<1>8. ASSUME k.phase \in {"wait", "stream"}, EndOrStop(c) PROVE ReachInv'
    BY <1>3, <1>4, <1>6, <1>8, EndOrStopGoes DEF IndInv
<1>9. CASE RecvNone(c)
    BY <1>3, <1>8, <1>9 DEF RecvNone
<1>10. CASE Recv(c)
  <2>1. PICK r : r = Head(chan[client[c].ch])
      OBVIOUS
  <2>2. k.phase = "wait" /\ (EndOrStop(c) \/ Settle(c, r))
      BY <1>3, <1>10, <2>1 DEF Recv
  <2> QED
      BY <1>3, <1>4, <1>6, <1>8, <2>2, SettleGoes DEF IndInv
<1>11. CASE StreamFrame(c)
  <2>1. k.phase = "stream"
      BY <1>3, <1>11 DEF StreamFrame
  <2>2. CASE EndOrStop(c)
      BY <1>8, <2>1, <2>2
  <2>3. CASE ~EndOrStop(c)
    <3>1. client' = client /\ open' = open
        BY <1>11, <2>3 DEF StreamFrame
    <3>2. k # Idle /\ Direct(k.plan) /\ 1 \in 1..Len(k.plan)
        BY <1>3, <1>4, <2>1 DEF Idle, Reach, IndInv, ClientsInv, ClientInv, Busy, Planned
    <3>3. Becomes(c, k)
        BY <1>3, <3>1 DEF Becomes, IndInv, ClientsInv
    <3>4. Goes(k, k)
        BY <2>1, <3>2 DEF Goes
    <3> QED
        BY <1>6, <2>1, <3>1, <3>3, <3>4
  <2> QED
      BY <2>2, <2>3
<1>12. CASE StreamAbort(c)
  <2>1. /\ k \in Client /\ k # Idle /\ Listening(k) /\ Busy(k) /\ k.phase = "stream"
      BY <1>3, <1>12, Waiting DEF StreamAbort, IndInv
  <2>2. k.plan[1].reply = "stream"
      BY <2>1 DEF Busy
  <2>3. PICK n : n = [k EXCEPT !.plan = Tail(k.plan), !.phase = "gate"]
      OBVIOUS
  <2>4. Becomes(c, n) /\ open' = open
      BY <1>3, <1>12, <2>3 DEF StreamAbort, chanVars
  <2>5. Goes(k, n)
      BY <1>4, <2>1, <2>2, <2>3, StopGoes
  <2> QED
      BY <1>6, <2>1, <2>4, <2>5
<1> QED
    BY <1>7, <1>9, <1>10, <1>11, <1>12

\* A command that starts has nothing abroad.
LEMMA StartReach ==
    ASSUME DirectCommands, IndInv, ReachInv, NEW c \in Clients, Start(c)
    PROVE  ReachInv'
<1>1. UNCHANGED <<queue, subs, poller, toApp, toCamera, open>>
    BY DEF Start, connVars, chanVars, netVars
<1>2. NoNews
    BY <1>1, QuietNews
<1>3. PICK plan \in (IF logged_in THEN CommandsOf(c) ELSE {Login(config)}) :
           Becomes(c, IF plan = <<>> THEN Idle ELSE [Idle EXCEPT !.phase = "gate", !.plan = plan])
    BY DEF Start
<1>4. PICK n : n = IF plan = <<>> THEN Idle ELSE [Idle EXCEPT !.phase = "gate", !.plan = plan]
    OBVIOUS
<1>5. Becomes(c, n)
    BY <1>3, <1>4
<1>6. Reach(n)'
  <2>1. CASE plan = <<>>
      BY <1>4, <2>1 DEF Reach, Idle
  <2>2. CASE plan # <<>>
    <3>1. Direct(plan) /\ plan[1].sub = "new"
        BY <1>3, <2>2, LoginDirect, LoginPlanned, ConnectionAssumption DEF DirectCommands
    <3>2. n.num = AnyNum /\ n.plan = plan /\ n.phase = "gate"
        BY <1>4, <2>2 DEF Idle
    <3>3. n.num \notin Nums
        BY <3>2, ConnectionAssumption DEF AnyNum, Nums
    <3>4. ~Listening(n)
        BY <3>1, <3>2 DEF Listening
    <3> QED
        BY <3>1, <3>2, <3>3, <3>4 DEF Reach, Direct, Nums, Listening
  <2> QED
      BY <2>1, <2>2
<1> QED
    BY <1>1, <1>2, <1>5, <1>6, ClientReach

\* A request that is sent is the client's own (BcSubscription::send).
LEMMA SendReach ==
    ASSUME IndInv, ReachInv, NEW c \in Clients, Send(c)
    PROVE  ReachInv'
<1>1. UNCHANGED <<queue, subs, poller, toApp>>
    BY DEF Send, connVars
<1>2. PICK k : k = client[c]
    OBVIOUS
<1>3. ClientInv(k) /\ k # Idle /\ Listening(k) /\ Reach(k)
    BY <1>2 DEF Send, IndInv, ClientsInv, Listening, Idle, ReachInv
<1>4. Busy(k) /\ Listens(k)
    BY <1>3 DEF ClientInv
<1>5. k \in Client /\ k.num \in Nums /\ k.plan[1] \in Exchanges /\ 1 \in 1..Len(k.plan)
    BY <1>4, ListensOn DEF Busy, Planned
<1>6. NoNews
  <2>1. PICK q : q = [id |-> k.plan[1].id, num |-> k.num, reply |-> k.plan[1].reply]
      OBVIOUS
  <2>2. q \in Request /\ q.id = k.plan[1].id /\ q.num = k.num
      BY <1>5, <2>1 DEF Request, Exchanges, Kinds
  <2>3. toCamera' = toCamera \/ toCamera' = Append(toCamera, q)
      BY <1>2, <2>1 DEF Send
  <2>4. toCamera \in Seq(Request)
      BY DEF IndInv, TableInv
  <2>5. ASSUME NEW id, NEW num, Carries(toCamera', id, num)
        PROVE  Carries(toCamera, id, num) \/ Speaks(client[c], id, num)
    <3>1. CASE toCamera' = toCamera
        BY <2>5, <3>1
    <3>2. CASE toCamera' = Append(toCamera, q)
      <4>1. Carries(toCamera, id, num) \/ (q.id = id /\ q.num = num)
          BY <2>2, <2>4, <2>5, <3>2, CarriesAppend
      <4> QED
          BY <1>2, <1>3, <2>2, <4>1 DEF Speaks
    <3> QED
        BY <2>3, <3>1, <3>2
  <2>6. \A i, id, num : Queued(i, id, num)' <=> Queued(i, id, num)
      BY <1>1 DEF Queued
  <2>7. \A id, num : Carries(toApp, id, num)' <=> Carries(toApp, id, num)
      BY <1>1 DEF Carries
  <2>8. \A id, num : Carries(toCamera, id, num)' <=> Carries(toCamera', id, num)
      BY DEF Carries
  <2> QED
      BY <2>5, <2>6, <2>7, <2>8 DEF NoNews, Abroad
<1>7. CASE k.plan[1].reply = "none"
  <2>1. End(c)
      BY <1>2, <1>7 DEF Send
  <2> QED
      BY <1>1, <1>2, <1>3, <1>6, <2>1, EndGoes, ListenerReach
<1>8. CASE k.plan[1].reply # "none"
  <2>1. PICK n : n = [k EXCEPT !.phase = "wait"]
      OBVIOUS
  <2>2. Becomes(c, n) /\ open' = open
      BY <1>2, <1>8, <2>1 DEF Send, chanVars
  <2>3. n.phase = "wait" /\ n.plan = k.plan /\ n.num = k.num /\ n.ch = k.ch
      BY <1>5, <2>1 DEF Client
  <2>4. Goes(k, n)
      BY <1>3, <1>5, <2>3 DEF Goes, Idle, Reach
  <2> QED
      BY <1>1, <1>2, <1>3, <1>6, <2>2, <2>4, ListenerReach
<1> QED
    BY <1>7, <1>8

\* What the queue holds after an item was put into it.
LEMMA QueueGrows ==
    ASSUME TableInv, NEW a \in Item, queue' = Append(queue, a)
    PROVE  /\ \A i \in Nat : Asks(i) => Asks(i)' /\ queue'[i] = queue[i] /\ i < Len(queue) + 1
           /\ \A i \in Nat : \A id, num : Queued(i, id, num)' =>
                \/ Queued(i, id, num)
                \/ i = Len(queue) + 1 /\ a.type = "Bc" /\ a.msg.id = id /\ a.msg.num = num
<1>1. /\ Len(queue) \in Nat /\ Len(queue') = Len(queue) + 1
      /\ \A i \in 1..Len(queue) : queue'[i] = queue[i]
      /\ queue'[Len(queue) + 1] = a
    BY DEF TableInv
<1>2. \A i \in Nat : /\ i \in 1..Len(queue') => i \in 1..Len(queue) \/ i = Len(queue) + 1
                     /\ i \in 1..Len(queue) => i \in 1..Len(queue') /\ i < Len(queue) + 1
    BY <1>1
<1> QED
    BY <1>1, <1>2 DEF Asks, Queued

\* A subscription stays ahead of what is queued behind it.
LEMMA EnteredBehind ==
    ASSUME TableInv, NEW a \in Item, queue' = Append(queue, a), subs' = subs,
           NEW k, Entered(k), k.ch \in open'
    PROVE  Entered(k)'
<1>1. /\ \A i \in Nat : Asks(i) => Asks(i)' /\ queue'[i] = queue[i] /\ i < Len(queue) + 1
      /\ \A i \in Nat : \A id, num : Queued(i, id, num)' =>
           \/ Queued(i, id, num)
           \/ i = Len(queue) + 1
    BY QueueGrows
<1>2. Len(queue) \in Nat
    BY DEF TableInv
<1>3. CASE \E s \in subs : s.ch = k.ch
    BY <1>3 DEF Entered
<1>4. ASSUME NEW i \in Nat, Asks(i), queue[i].ch = k.ch,
             \A j \in Nat : j < i => ~Queued(j, k.plan[1].id, k.num)
      PROVE  Entered(k)'
  <2>1. Asks(i)' /\ queue'[i].ch = k.ch /\ i < Len(queue) + 1
      BY <1>1, <1>4
  <2>2. ASSUME NEW j \in Nat, j < i PROVE ~Queued(j, k.plan[1].id, k.num)'
    <3>1. j # Len(queue) + 1
        BY <1>2, <2>1, <2>2
    <3>2. PICK id : id = k.plan[1].id
        OBVIOUS
    <3>3. ~Queued(j, id, k.num)'
        BY <1>1, <1>4, <2>2, <3>1, <3>2
    <3> QED
        BY <3>2, <3>3 DEF Queued
  <2> QED
      BY <2>1, <2>2 DEF Entered
<1> QED
    BY <1>3, <1>4 DEF Entered

\* A subscription is queued before its request is sent, behind no reply to it.
LEMMA SubscribeReach ==
    ASSUME IndInv, ReachInv, NEW c \in Clients, Subscribe(c)
    PROVE  ReachInv'
<1>1. PICK k : k = client[c]
    OBVIOUS
<1>2. ClientInv(k) /\ k # Idle /\ k.phase = "gate" /\ Reach(k)
    BY <1>1 DEF Subscribe, IndInv, ClientsInv, Idle, ReachInv
<1>3. Busy(k) /\ k \in Client /\ Direct(k.plan) /\ 1 \in 1..Len(k.plan)
    BY <1>2 DEF ClientInv, Busy, Reach, Planned
<1> DEFINE x == k.plan[1]
<1>4. x \in Exchanges /\ x.id # "KEEP_ALIVE" /\ x.sub # "any"
    BY <1>3 DEF Busy, Planned, Direct
<1>5. PICK num : num = IF x.sub = "new" THEN message_num ELSE k.num
    OBVIOUS
<1>6. PICK ch : ch = Channel(num, x.sub)
    OBVIOUS
<1>7. PICK a : a = [type |-> "AddSubscriber", id |-> x.id, ch |-> ch,
                    num |-> IF x.sub = "any" THEN AnyNum ELSE num]
    OBVIOUS
<1>8. PICK old : old = IF x.sub = "number" THEN {} ELSE {o \in open : o[1] = k.num}
    OBVIOUS
<1>9. PICK n : n = [k EXCEPT !.phase = IF x.reply = "chunks" THEN "wait" ELSE "send",
                             !.num = num, !.ch = ch]
    OBVIOUS
<1>10. /\ x.sub # "same" /\ Len(queue) < QueueCap /\ (x.sub = "new" => NumberFree(num))
       /\ queue' = Append(queue, a) /\ Becomes(c, n)
       /\ open' = (open \ old) \cup {ch}
    BY <1>1, <1>5, <1>6, <1>7, <1>8, <1>9 DEF Subscribe
<1>11. UNCHANGED <<subs, poller, toCamera, toApp>>
    BY DEF Subscribe, netVars
<1>12. x.sub \in {"new", "number"}
    BY <1>4, <1>10 DEF Exchanges
<1>13. num \in Nums
    BY <1>3, <1>5, <1>12 DEF Busy, IndInv, Typed
<1>14. ch \in Channels /\ ch[1] = num /\ ch[2] # "any"
    BY <1>6, <1>12, <1>13 DEF Channel, Channels
<1>15. a \in Item /\ a.type = "AddSubscriber" /\ a.ch = ch /\ a.id = x.id /\ a.num = num
  <2>1. a \in [type : {"AddSubscriber"}, id : MsgIds, ch : Channels, num : Nums \cup {AnyNum}]
      BY <1>4, <1>7, <1>13, <1>14 DEF Exchanges
  <2> QED
      BY <1>4, <1>7, <2>1 DEF Item
<1>16. /\ \A i \in Nat : Asks(i)' => \/ Asks(i) /\ queue'[i] = queue[i]
                                     \/ i = Len(queue) + 1 /\ queue'[i] = a
    BY <1>10, <1>15, QueueAppends DEF IndInv
<1>17. \A i \in Nat : \A id, m : Queued(i, id, m)' => Queued(i, id, m)
    BY <1>10, <1>15, QueueGrows DEF IndInv
<1>18. \A id, m : Abroad(id, m)' => Abroad(id, m)
  <2>1. \A id, m : Carries(toApp, id, m)' <=> Carries(toApp, id, m)
      BY <1>11 DEF Carries
  <2>2. \A id, m : Carries(toCamera, id, m)' <=> Carries(toCamera, id, m)
      BY <1>11 DEF Carries
  <2> QED
      BY <1>17, <2>1, <2>2 DEF Abroad
<1>19. NoNews
    BY <1>18 DEF NoNews
<1>20. \A m : m # num => OldRows(m)
    BY <1>11, <1>14, <1>15, <1>16 DEF OldRows
<1>21. RowsInv'
    BY <1>11, <1>14, <1>15, <1>16 DEF ReachInv, RowsInv
<1>22. \A d \in Clients : d # c => client[d].num # num
  <2>1. CASE x.sub = "new"
      BY <1>10, <2>1 DEF NumberFree
  <2>2. CASE x.sub # "new"
      BY <1>1, <1>5, <1>13, <2>2 DEF IndInv, ClientsInv
  <2> QED
      BY <2>1, <2>2
<1>23. ASSUME NEW d \in Clients, d # c, NEW l, l = client[d] PROVE Reach(l)'
  <2>1. Reach(l) /\ OldRows(l.num)
      BY <1>20, <1>22, <1>23 DEF ReachInv
  <2>2. ASSUME l # Idle, Listening(l), poller' = "run" PROVE Entered(l)'
    <3>1. Listens(l) /\ Entered(l)
        BY <1>11, <1>23, <2>1, <2>2 DEF IndInv, ClientsInv, ClientInv, Reach
    <3>2. l.ch[1] = l.num /\ l.num # k.num
        BY <1>1, <1>23, <3>1 DEF Listens, Channel, IndInv, ClientsInv
    <3>3. l.ch \in open'
        BY <1>8, <1>10, <3>1, <3>2 DEF Entered
    <3> QED
        BY <1>10, <1>11, <1>15, <3>1, <3>3, EnteredBehind DEF IndInv
  <2> QED
      BY <1>19, <1>23, <2>1, <2>2, ReachStays
<1>24. /\ n.plan = k.plan /\ n.num = num /\ n.ch = ch /\ n.phase \in {"wait", "send"}
    BY <1>3, <1>9, <1>13, <1>14 DEF Client, Channels
<1>25. \A id : id # "KEEP_ALIVE" /\ (x.sub = "new" \/ id = x.id) => ~Abroad(id, num)
  <2>1. CASE x.sub = "new"
    <3>1. NumberFree(num)
        BY <1>10, <2>1
    <3> QED
        BY <3>1 DEF Abroad, Carries, Queued, NumberFree
  <2>2. CASE x.sub = "number"
      BY <1>2, <1>3, <1>5, <1>13, <2>2 DEF Reach, Own
  <2> QED
      BY <1>12, <2>1, <2>2
<1>26. Own(n)'
  <2>1. CASE x.sub = "new"
      BY <1>18, <1>24, <1>25, <2>1 DEF Own
  <2>2. CASE x.sub = "number"
    <3>1. Own(k) /\ num = k.num /\ a.ch # Channel(num, "new")
        BY <1>2, <1>3, <1>5, <1>6, <1>13, <1>15, <2>2 DEF Reach, Channel
    <3>2. ASSUME NEW s \in subs', s.ch = Channel(num, "new") PROVE s.id # x.id
        BY <1>11, <2>2, <3>1, <3>2 DEF Own
    <3>3. ASSUME NEW i \in Nat, Asks(i)', queue'[i].ch = Channel(num, "new") PROVE queue'[i].id # x.id
        BY <1>16, <2>2, <3>1, <3>3 DEF Own
    <3> QED
        BY <1>24, <2>2, <3>2, <3>3 DEF Own, Channel
  <2> QED
      BY <1>12, <2>1, <2>2
<1>27. Entered(n)'
  <2>1. /\ Len(queue) \in Nat /\ Len(queue') = Len(queue) + 1
        /\ queue'[Len(queue) + 1] = a
      BY <1>10 DEF IndInv, TableInv
  <2>2. PICK i \in Nat : i = Len(queue) + 1
      BY <2>1
  <2>3. Asks(i)' /\ queue'[i].ch = ch
      BY <1>15, <2>1, <2>2 DEF Asks
  <2>4. PICK id : id = x.id
      OBVIOUS
  <2>5. \A j \in Nat : ~Queued(j, id, num)'
      BY <1>4, <1>17, <1>25, <2>4 DEF Abroad
  <2>6. \A j \in Nat : ~Queued(j, n.plan[1].id, n.num)'
      BY <1>24, <2>4, <2>5 DEF Queued
  <2> QED
      BY <1>10, <1>24, <2>3, <2>6 DEF Entered
<1>28. Reach(n)'
    BY <1>3, <1>24, <1>26, <1>27 DEF Reach, Direct
<1>29. \A d \in Clients : client'[d] = IF d = c THEN n ELSE client[d]
    BY <1>10 DEF Becomes, IndInv, ClientsInv
<1>30. \A d \in Clients : \A l \in {client'[d]} : Reach(l)'
    BY <1>23, <1>28, <1>29
<1> QED
    BY <1>21, <1>30 DEF ReachInv
-----------------------------------------------------------------------------------
\* A step that leaves the clients alone.
LEMMA TaskReach ==
    ASSUME IndInv, ReachInv, client' = client, NoNews, \A num : OldRows(num), RowsInv',
           \A c \in Clients : \A k \in {client[c]} :
              k # Idle /\ Listening(k) /\ poller' = "run" => Entered(k)'
    PROVE  ReachInv'
<1>1. ASSUME NEW c \in Clients, NEW k, k = client[c] PROVE Reach(k)'
  <2>1. Reach(k)
      BY <1>1 DEF ReachInv
  <2> QED
      BY <1>1, <2>1, ReachStays
<1> QED
    BY <1>1 DEF ReachInv

\* The traffic after a step of the reader or of the camera.
LEMMA NewsFrom ==
    ASSUME \A id, num : id # "KEEP_ALIVE" /\ num \in Nums =>
             /\ Carries(toApp', id, num) \/ Carries(toCamera', id, num) =>
                  Abroad(id, num) \/ \E c \in Clients : Speaks(client[c], id, num)
             /\ \A i \in Nat : Queued(i, id, num)' => Abroad(id, num)
    PROVE  NoNews
<1>1. \A id, num : Carries(toCamera, id, num)' <=> Carries(toCamera', id, num)
    BY DEF Carries
<1>2. \A id, num : Carries(toApp, id, num)' <=> Carries(toApp', id, num)
    BY DEF Carries
<1>3. \A id, num : Abroad(id, num)' => \/ Carries(toCamera', id, num) \/ Carries(toApp', id, num)
                                       \/ \E i \in Nat : Queued(i, id, num)'
    BY <1>1, <1>2 DEF Abroad
<1> QED
    BY <1>3 DEF NoNews

\* The reader queues what arrives behind the subscriptions.
LEMMA ReaderReach ==
    ASSUME IndInv, ReachInv, Reader \/ ReaderFails
    PROVE  ReachInv'
<1>1. UNCHANGED <<subs, poller, client, open, toCamera>>
    BY DEF Reader, ReaderFails, appVars, chanVars, netVars
<1>2. PICK m : m = IF Reader THEN Head(toApp) ELSE ErrMessage
    OBVIOUS
<1>3. PICK a : a = [type |-> "Bc", msg |-> m]
    OBVIOUS
<1>4. /\ queue' = Append(queue, a) /\ Len(queue) < QueueCap
      /\ \/ toApp # <<>> /\ toApp' = Tail(toApp) /\ m = Head(toApp)
         \/ toApp' = toApp /\ m = ErrMessage
    BY <1>2, <1>3 DEF Reader, ReaderFails, netVars
<1>5. toApp \in Seq(BcMsg) /\ TableInv
    BY DEF IndInv, TableInv
<1>6. a \in Item /\ a.type = "Bc" /\ a.msg = m
  <2>1. m \in BcMsg \cup {ErrMessage}
      BY <1>4, <1>5
  <2>2. a \in [type : {"Bc"}, msg : BcMsg \cup {ErrMessage}]
      BY <1>3, <2>1
  <2> QED
      BY <1>3, <2>2 DEF Item
<1>7. /\ \A i \in Nat : Asks(i)' => Asks(i) /\ queue'[i] = queue[i]
    BY <1>4, <1>5, <1>6, QueueAppends
<1>8. /\ \A i \in Nat : \A id, num : Queued(i, id, num)' =>
           Queued(i, id, num) \/ (m.id = id /\ m.num = num)
    BY <1>4, <1>5, <1>6, QueueGrows
<1>9. NoNews
  <2>1. ErrMessage.num \notin Nums
      BY ConnectionAssumption DEF ErrMessage, Message, AnyNum, Nums
  <2>2. ASSUME NEW id, NEW num \in Nums, m.id = id, m.num = num PROVE Abroad(id, num)
    <3>1. toApp # <<>> /\ m = Head(toApp)
        BY <1>4, <2>1, <2>2
    <3>2. Carries(toApp, id, num)
        BY <1>5, <2>2, <3>1, CarriesTail
    <3> QED
        BY <3>2 DEF Abroad
  <2>3. ASSUME NEW id, NEW num, Carries(toApp', id, num) PROVE Carries(toApp, id, num)
    <3>1. CASE toApp' = toApp
        BY <2>3, <3>1
    <3>2. CASE toApp # <<>> /\ toApp' = Tail(toApp)
        BY <1>5, <2>3, <3>2, CarriesTail
    <3> QED
        BY <1>4, <3>1, <3>2
  <2>4. \A id, num : Carries(toCamera', id, num) => Abroad(id, num)
      BY <1>1 DEF Abroad
  <2>5. \A id, num : Carries(toApp', id, num) => Abroad(id, num)
      BY <2>3 DEF Abroad
  <2>6. \A id, num : num \in Nums => \A i \in Nat : Queued(i, id, num)' => Abroad(id, num)
      BY <1>8, <2>2 DEF Abroad
  <2> QED
      BY <2>4, <2>5, <2>6, NewsFrom
<1>10. \A num : OldRows(num)
    BY <1>1, <1>7 DEF OldRows
<1>11. RowsInv'
    BY <1>1, <1>7 DEF ReachInv, RowsInv
<1>12. ASSUME NEW c \in Clients, NEW k, k = client[c], k # Idle, Listening(k), poller' = "run"
       PROVE  Entered(k)'
  <2>1. Entered(k)
      BY <1>1, <1>12 DEF ReachInv, Reach
  <2>2. k.ch \in open'
      BY <1>1, <2>1 DEF Entered
  <2> QED
      BY <1>1, <1>4, <1>5, <1>6, <2>1, <2>2, EnteredBehind
<1> QED
    BY <1>1, <1>9, <1>10, <1>11, <1>12, TaskReach

\* What the queue holds after its first item was taken.
LEMMA QueueShrinks ==
    ASSUME TableInv, queue # <<>>, queue' = Tail(queue)
    PROVE  /\ Head(queue) = queue[1] /\ Head(queue) \in Item /\ 1 \in 1..Len(queue)
           /\ \A i \in Nat : Asks(i)' => i + 1 \in Nat /\ Asks(i + 1) /\ queue'[i] = queue[i + 1]
           /\ \A i \in Nat : Asks(i) /\ i # 1 => i - 1 \in Nat /\ Asks(i - 1)' /\ queue'[i - 1] = queue[i]
           /\ \A i \in Nat : \A id, num : Queued(i, id, num)' => i + 1 \in Nat /\ Queued(i + 1, id, num)
<1>1. /\ Len(queue) \in Nat /\ Len(queue) > 0 /\ Len(queue') = Len(queue) - 1
      /\ \A i \in 1..Len(queue') : queue'[i] = queue[i + 1]
      /\ Head(queue) = queue[1] /\ Head(queue) \in Item
    BY DEF TableInv
<1>2. /\ \A i \in Nat : i \in 1..Len(queue') => i + 1 \in 1..Len(queue) /\ i + 1 \in Nat
      /\ 1 \in 1..Len(queue)
    BY <1>1
<1>3. ASSUME NEW i \in Nat, Asks(i), i # 1
      PROVE  i - 1 \in Nat /\ Asks(i - 1)' /\ queue'[i - 1] = queue[i]
  <2>1. i - 1 \in 1..Len(queue') /\ i - 1 \in Nat /\ (i - 1) + 1 = i
      BY <1>1, <1>3 DEF Asks
  <2>2. queue'[i - 1] = queue[i]
      BY <1>1, <2>1
  <2> QED
      BY <1>3, <2>1, <2>2 DEF Asks
<1> QED
    BY <1>1, <1>2, <1>3 DEF Asks, Queued

\* A client stays entered when the poller takes an item, if its own is entered.
LEMMA EnteredAhead ==
    ASSUME TableInv, queue # <<>>, queue' = Tail(queue), open' = open, Pruned \subseteq subs',
           NEW k, Entered(k),
           Head(queue).type = "AddSubscriber" /\ Head(queue).ch = k.ch => \E s \in subs' : s.ch = k.ch
    PROVE  Entered(k)'
<1>1. /\ Head(queue) = queue[1]
      /\ \A i \in Nat : Asks(i) /\ i # 1 => i - 1 \in Nat /\ Asks(i - 1)' /\ queue'[i - 1] = queue[i]
      /\ \A i \in Nat : \A id, num : Queued(i, id, num)' => i + 1 \in Nat /\ Queued(i + 1, id, num)
    BY QueueShrinks
<1>2. CASE \E s \in subs : s.ch = k.ch
    BY <1>2 DEF Entered, Pruned
<1>3. ASSUME NEW i \in Nat, Asks(i), queue[i].ch = k.ch,
             \A j \in Nat : j < i => ~Queued(j, k.plan[1].id, k.num)
      PROVE  Entered(k)'
  <2>1. CASE i = 1
      BY <1>1, <1>3, <2>1 DEF Asks, Entered
  <2>2. CASE i # 1
    <3>1. PICK h \in Nat : h = i - 1 /\ Asks(h)' /\ queue'[h] = queue[i]
        BY <1>1, <1>3, <2>2
    <3>2. PICK id : id = k.plan[1].id
        OBVIOUS
    <3>3. ASSUME NEW j \in Nat, j < h PROVE ~Queued(j, id, k.num)'
      <4>1. j + 1 \in Nat /\ j + 1 < i
          BY <3>1, <3>3
      <4>2. ~Queued(j + 1, id, k.num)
          BY <1>3, <3>2, <4>1
      <4> QED
          BY <1>1, <4>2
    <3>4. \A j \in Nat : j < h => ~Queued(j, k.plan[1].id, k.num)'
        BY <3>2, <3>3 DEF Queued
    <3> QED
        BY <1>3, <3>1, <3>4 DEF Entered
  <2> QED
      BY <2>1, <2>2
<1> QED
    BY <1>2, <1>3 DEF Entered

\* The poller takes an item: the traffic that is left was there before, and rows and
\* subscriptions are the old ones, and what the item entered.
LEMMA PollReach ==
    ASSUME IndInv, ReachInv, queue # <<>>, queue' = Tail(queue), client' = client, open' = open,
           toApp' = toApp, Pruned \subseteq subs',
           \A s \in subs' : \/ s \in subs
                            \/ /\ Head(queue).type = "AddSubscriber" /\ s.ch = Head(queue).ch
                               /\ s.id = Head(queue).id /\ s.num = Head(queue).num,
           \A id, num : id # "KEEP_ALIVE" /\ Carries(toCamera', id, num) => Carries(toCamera, id, num),
           \A c \in Clients : \A k \in {client[c]} :
              k # Idle /\ Listening(k) /\ poller' = "run" =>
                /\ poller = "run"
                /\ Head(queue).type = "AddSubscriber" /\ Head(queue).ch = k.ch =>
                     \E s \in subs' : s.ch = k.ch
    PROVE  ReachInv'
<1>1. TableInv
    BY DEF IndInv
<1>2. /\ Head(queue) = queue[1] /\ 1 \in 1..Len(queue)
      /\ \A i \in Nat : Asks(i)' => i + 1 \in Nat /\ Asks(i + 1) /\ queue'[i] = queue[i + 1]
      /\ \A i \in Nat : \A id, num : Queued(i, id, num)' => i + 1 \in Nat /\ Queued(i + 1, id, num)
    BY <1>1, QueueShrinks
<1>3. Head(queue).type = "AddSubscriber" => Asks(1) /\ queue[1] = Head(queue)
    BY <1>2 DEF Asks
<1>4. NoNews
  <2>1. \A id, num : id # "KEEP_ALIVE" /\ Carries(toCamera', id, num) => Abroad(id, num)
      BY DEF Abroad
  <2>2. \A id, num : Carries(toApp', id, num) => Abroad(id, num)
      BY DEF Abroad
  <2>3. \A i \in Nat : \A id, num : Queued(i, id, num)' => Abroad(id, num)
      BY <1>2 DEF Abroad
  <2> QED
      BY <2>1, <2>2, <2>3, NewsFrom
<1>5. \A num : OldRows(num)
  <2>1. \A s \in subs' : \/ \E t \in subs : t.ch = s.ch /\ t.id = s.id
                         \/ \E i \in Nat : Asks(i) /\ queue[i].ch = s.ch /\ queue[i].id = s.id
      BY <1>3
  <2>2. ASSUME NEW i \in Nat, Asks(i)' PROVE \E j \in Nat : Asks(j) /\ queue'[i] = queue[j]
    <3>1. i + 1 \in Nat /\ Asks(i + 1) /\ queue'[i] = queue[i + 1]
        BY <1>2, <2>2
    <3> QED
        BY <3>1
  <2> QED
      BY <2>1, <2>2 DEF OldRows
<1>6. RowsInv'
  <2>1. \A s \in subs' : s.num = s.ch[1] /\ s.ch[2] # "any"
      BY <1>3 DEF ReachInv, RowsInv
  <2>2. ASSUME NEW i \in Nat, Asks(i)' PROVE queue'[i].num = queue'[i].ch[1] /\ queue'[i].ch[2] # "any"
    <3>1. i + 1 \in Nat /\ Asks(i + 1) /\ queue'[i] = queue[i + 1]
        BY <1>2, <2>2
    <3> QED
        BY <3>1 DEF ReachInv, RowsInv
  <2> QED
      BY <2>1, <2>2 DEF RowsInv
<1>7. ASSUME NEW c \in Clients, NEW k, k = client[c], k # Idle, Listening(k), poller' = "run"
      PROVE  Entered(k)'
  <2>1. Entered(k)
      BY <1>7 DEF ReachInv, Reach
  <2>2. Head(queue).type = "AddSubscriber" /\ Head(queue).ch = k.ch => \E s \in subs' : s.ch = k.ch
      BY <1>7
  <2> QED
      BY <1>1, <2>1, <2>2, EnteredAhead
<1> QED
    BY <1>4, <1>5, <1>6, <1>7, TaskReach

\* The poller's message goes to a row that bears its number already.
LEMMA TargetExact ==
    ASSUME IndInv, ReachInv, NEW m \in BcMsg, NEW s \in Target(m)
    PROVE  s \in Pruned /\ s.id = m.id /\ s.num = m.num /\ [s EXCEPT !.num = m.num] = s
<1>1. s \in subs /\ s \in Pruned /\ s.id = m.id /\ (s.num = m.num \/ s.num = AnyNum)
    BY DEF Target, Pruned
<1>2. s \in Subscriber /\ s.num = s.ch[1]
    BY <1>1 DEF IndInv, TableInv, ReachInv, RowsInv
<1>3. s.ch[1] \in Nums
    BY <1>2 DEF Subscriber, Channels
<1>4. s.num # AnyNum
    BY <1>2, <1>3, ConnectionAssumption DEF AnyNum, Nums
<1> QED
    BY <1>1, <1>2, <1>4 DEF Subscriber

\* A message that the poller hands on leaves the table as it is.
LEMMA PollBcReach ==
    ASSUME IndInv, ReachInv, PollBc
    PROVE  ReachInv'
<1>1. /\ queue # <<>> /\ queue' = Tail(queue) /\ Head(queue).type = "Bc" /\ poller = "run"
      /\ UNCHANGED <<poller, client, open, toApp>>
    BY DEF PollBc, appVars
<1>2. PICK m : m = Head(queue).msg
    OBVIOUS
<1>3. m \in BcMsg
  <2>1. Head(queue) \in Item
      BY <1>1, QueueShrinks DEF IndInv
  <2> QED
      BY <1>1, <1>2, <2>1 DEF Item, PollBc
<1>4. subs' = Pruned
  <2>1. CASE subs' = Pruned
      BY <2>1
  <2>2. CASE \E s \in Target(m) : subs' = (Pruned \ {s}) \cup {[s EXCEPT !.num = m.num]}
    <3>1. PICK s \in Target(m) : subs' = (Pruned \ {s}) \cup {[s EXCEPT !.num = m.num]}
        BY <2>2
    <3> QED
        BY <1>3, <3>1, TargetExact
  <2> QED
      BY <1>2, <2>1, <2>2 DEF PollBc
<1>5. ASSUME NEW id, NEW num, id # "KEEP_ALIVE", Carries(toCamera', id, num)
      PROVE  Carries(toCamera, id, num)
  <2>1. CASE toCamera' = toCamera
      BY <1>5, <2>1
  <2>2. CASE toCamera' # toCamera
    <3>1. PICK q : q = [id |-> m.id, num |-> m.num, reply |-> "none"]
        OBVIOUS
    <3>2. m.id \in handlers /\ toCamera' = Append(toCamera, q)
        BY <1>2, <2>2, <3>1 DEF PollBc
    <3>3. m.id = "KEEP_ALIVE" /\ q.id = m.id
        BY <3>1, <3>2 DEF IndInv, Typed
    <3>4. q \in Request
        BY <1>3, <3>1 DEF BcMsg, Request, Kinds
    <3>5. toCamera \in Seq(Request)
        BY DEF IndInv, TableInv
    <3> QED
        BY <1>5, <3>2, <3>3, <3>4, <3>5, CarriesAppend
  <2> QED
      BY <2>1, <2>2
<1>6. Pruned \subseteq subs' /\ \A s \in subs' : s \in subs
    BY <1>4 DEF Pruned
<1> QED
    BY <1>1, <1>5, <1>6, PollReach

\* A handler that is entered leaves the subscriptions alone.
LEMMA PollHandlerReach ==
    ASSUME IndInv, ReachInv, PollAddHandler
    PROVE  ReachInv'
<1>1. /\ queue # <<>> /\ queue' = Tail(queue) /\ Head(queue).type = "AddHandler" /\ poller = "run"
      /\ UNCHANGED <<poller, client, open, toApp, toCamera>> /\ subs' = Pruned
    BY DEF PollAddHandler, appVars, chanVars, netVars
<1>2. Pruned \subseteq subs' /\ \A s \in subs' : s \in subs
    BY <1>1 DEF Pruned
<1> QED
    BY <1>1, <1>2, PollReach

\* A client's subscription is entered when its turn comes: no other holds its id and number.
LEMMA PollSubscriberReach ==
    ASSUME IndInv, ReachInv, PollAddSubscriber
    PROVE  ReachInv'
<1>1. /\ queue # <<>> /\ queue' = Tail(queue) /\ Head(queue).type = "AddSubscriber" /\ poller = "run"
      /\ UNCHANGED <<poller, client, open, toApp, toCamera>>
    BY DEF PollAddSubscriber, appVars, netVars
<1>2. PICK a : a = Head(queue)
    OBVIOUS
<1>3. Asks(1) /\ queue[1] = a /\ a \in Item
    BY <1>1, <1>2, QueueShrinks DEF Asks, IndInv
<1>4. a.num = a.ch[1] /\ a.ch[2] # "any"
    BY <1>3 DEF ReachInv, RowsInv
<1>5. PICK row : row = [id |-> a.id, num |-> a.num, ch |-> a.ch]
    OBVIOUS
<1>6. row.id = a.id /\ row.num = a.num /\ row.ch = a.ch
    BY <1>5
<1>7. \/ \E s \in Pruned : s.id = a.id /\ s.num = a.num /\ subs' = Pruned
      \/ subs' = Pruned \cup {row}
    BY <1>2, <1>5 DEF PollAddSubscriber
<1>8. Pruned \subseteq subs'
    BY <1>7
<1>9. \A s \in subs' : \/ s \in subs
                       \/ s.ch = a.ch /\ s.id = a.id /\ s.num = a.num
    BY <1>6, <1>7 DEF Pruned
<1>10. ASSUME NEW c \in Clients, NEW k, k = client[c], k # Idle, Listening(k), a.ch = k.ch
       PROVE  \E s \in subs' : s.ch = k.ch
  <2>1. Busy(k) /\ Listens(k) /\ Ahead(k) /\ Reach(k)
      BY <1>10 DEF IndInv, ClientsInv, ClientInv, ReachInv
  <2>2. /\ k.num \in Nums /\ k.plan[1] \in Exchanges /\ 1 \in 1..Len(k.plan)
      BY <2>1, ListensOn DEF Busy, Planned
  <2>3. k.plan[1].sub \in {"new", "same", "number"} /\ Own(k)
      BY <2>1, <2>2, <1>10 DEF Exchanges, Reach, Direct
  <2>4. a.id = k.plan[1].id /\ a.num = k.num /\ k.ch = Channel(k.num, Kind(k))
      BY <1>3, <1>4, <1>10, <2>1, <2>3 DEF Listens, Fits, Channel
  <2>5. ASSUME NEW s \in Pruned, s.id = a.id, s.num = a.num PROVE FALSE
    <3>1. s \in subs /\ s \in Subscriber /\ s.num = s.ch[1] /\ s.ch[2] # "any"
        BY <2>5 DEF Pruned, IndInv, TableInv, ReachInv, RowsInv
    <3>2. s.ch = Channel(k.num, "new") \/ s.ch = Channel(k.num, "number")
        BY <2>4, <2>5, <3>1 DEF Subscriber, Channels, Channel
    <3>3. s.ch # k.ch
        BY <1>3, <1>10, <3>1 DEF IndInv, TableInv
    <3>4. CASE k.plan[1].sub \in {"new", "same"}
      <4>1. k.ch = Channel(k.num, "new")
          BY <2>4, <3>4 DEF Kind
      <4>2. Unused(Channel(k.num, "number"))
          BY <2>1, <3>4 DEF Ahead
      <4> QED
          BY <3>1, <3>2, <3>3, <4>1, <4>2 DEF Unused
    <3>5. CASE k.plan[1].sub = "number"
      <4>1. k.ch = Channel(k.num, "number")
          BY <2>4, <3>5 DEF Kind
      <4>2. s.ch = Channel(k.num, "new")
          BY <3>2, <3>3, <4>1
      <4> QED
          BY <2>3, <2>4, <2>5, <3>1, <3>5, <4>2 DEF Own
    <3> QED
        BY <2>3, <3>4, <3>5
  <2>6. row \in subs'
      BY <1>7, <2>5
  <2> QED
      BY <1>6, <1>10, <2>6
<1> QED
    BY <1>1, <1>2, <1>8, <1>9, <1>10, PollReach

\* The poller ends: nobody relies on its tables any more.
LEMMA PollerEnds ==
    ASSUME IndInv, ReachInv, PollErr \/ ShutdownCancel
    PROVE  ReachInv'
<1>1. /\ client' = client /\ subs' = {} /\ queue' = <<>> /\ poller' = "dead" /\ toCamera' = toCamera
      /\ toApp' = toApp \/ toApp' = <<>>
    BY DEF PollErr, ShutdownCancel, appVars, netVars
<1>2. \A i \in Nat : ~Asks(i)' /\ \A id, num : ~Queued(i, id, num)'
    BY <1>1 DEF Asks, Queued
<1>3. NoNews
  <2>1. \A id, num : Carries(toApp', id, num) => Carries(toApp, id, num)
      BY <1>1 DEF Carries
  <2>2. \A id, num : Carries(toApp', id, num) \/ Carries(toCamera', id, num) => Abroad(id, num)
      BY <1>1, <2>1 DEF Abroad
  <2> QED
      BY <1>2, <2>2, NewsFrom
<1>4. (\A num : OldRows(num)) /\ RowsInv'
    BY <1>1, <1>2 DEF OldRows, RowsInv
<1> QED
    BY <1>1, <1>3, <1>4, TaskReach

\* The steps of the camera, and those that touch neither traffic nor tables.
LEMMA QuietReach ==
    ASSUME IndInv, ReachInv, UNCHANGED <<queue, subs, poller, client, open>>, NoNews
    PROVE  ReachInv'
<1>1. \A i \in Nat : Asks(i)' <=> Asks(i)
    BY DEF Asks
<1>2. (\A num : OldRows(num)) /\ RowsInv'
    BY <1>1 DEF OldRows, RowsInv, ReachInv
<1>3. ASSUME NEW c \in Clients, NEW k, k = client[c], k # Idle, Listening(k), poller' = "run"
      PROVE  Entered(k)'
  <2>1. Entered(k)
      BY <1>3 DEF ReachInv, Reach
  <2>2. \A i \in Nat : Queued(i, k.plan[1].id, k.num)' <=> Queued(i, k.plan[1].id, k.num)
      BY DEF Queued
  <2> QED
      BY <1>1, <2>1, <2>2 DEF Entered
<1> QED
    BY <1>2, <1>3, TaskReach

\* An answer bears the id and the number of its request.
LEMMA RepliesOwn ==
    ASSUME NEW q \in Request, NEW m \in Replies(q)
    PROVE  m.id = q.id /\ m.num = q.num
BY DEF Replies, Message

\* The camera answers under the number it was asked, and sends frames under a stream's.
LEMMA CameraReach ==
    ASSUME IndInv, ReachInv, CamAnswer \/ CamSends \/ CamHangsUp
    PROVE  ReachInv'
<1>1. UNCHANGED <<queue, subs, poller, client, open>>
    BY DEF CamAnswer, CamSends, CamHangsUp, connVars, appVars, chanVars
<1>2. toApp \in Seq(BcMsg) /\ toCamera \in Seq(Request)
    BY DEF IndInv, TableInv
<1>3. \A i \in Nat : \A id, num : Queued(i, id, num)' => Abroad(id, num)
    BY <1>1 DEF Queued, Abroad
<1>4. SUFFICES ASSUME NEW id, NEW num, id # "KEEP_ALIVE", num \in Nums
               PROVE  Carries(toApp', id, num) \/ Carries(toCamera', id, num) =>
                         \/ Carries(toApp, id, num) \/ Carries(toCamera, id, num)
                         \/ \E c \in Clients : Speaks(client[c], id, num)
  <2>1. ASSUME \A id, num : id # "KEEP_ALIVE" /\ num \in Nums =>
                 (Carries(toApp', id, num) \/ Carries(toCamera', id, num) =>
                         \/ Carries(toApp, id, num) \/ Carries(toCamera, id, num)
                         \/ \E c \in Clients : Speaks(client[c], id, num))
        PROVE  ReachInv'
    <3>1. NoNews
      <4>1. \A id, num : id # "KEEP_ALIVE" /\ num \in Nums =>
                 (Carries(toApp', id, num) \/ Carries(toCamera', id, num) =>
                         Abroad(id, num) \/ \E c \in Clients : Speaks(client[c], id, num))
          BY <2>1 DEF Abroad
      <4> QED
          BY <1>3, <4>1, NewsFrom
    <3> QED
        BY <1>1, <3>1, QuietReach
  <2> QED
      BY <2>1
<1>5. CASE CamAnswer
  <2>1. PICK q : q = Head(toCamera)
      OBVIOUS
  <2>2. /\ toCamera # <<>> /\ toCamera' = Tail(toCamera)
        /\ toApp' = toApp \/ \E m \in Replies(q) : toApp' = Append(toApp, m)
      BY <1>5, <2>1 DEF CamAnswer
  <2>3. q \in Request
      BY <1>2, <2>1, <2>2
  <2>4. Carries(toCamera', id, num) => Carries(toCamera, id, num)
      BY <1>2, <2>2, CarriesTail
  <2>5. ASSUME NEW m \in Replies(q), toApp' = Append(toApp, m), Carries(toApp', id, num)
        PROVE  Carries(toApp, id, num) \/ Carries(toCamera, id, num)
    <3>1. m \in BcMsg
        BY <2>3, RepliesTyped
    <3>2. Carries(toApp, id, num) \/ (m.id = id /\ m.num = num)
        BY <1>2, <2>5, <3>1, CarriesAppend
    <3>3. m.id = q.id /\ m.num = q.num
        BY <2>3, RepliesOwn
    <3> QED
        BY <1>2, <2>1, <2>2, <3>2, <3>3, CarriesTail
  <2> QED
      BY <2>2, <2>4, <2>5
<1>6. CASE CamSends
  <2>1. toCamera' = toCamera
      BY <1>6 DEF CamSends
  <2>2. ASSUME NEW m \in BcMsg, toApp' = Append(toApp, m), Carries(toApp', id, num),
               m.id # "KEEP_ALIVE" => \E c \in Clients : Speaks(client[c], m.id, m.num)
        PROVE  Carries(toApp, id, num) \/ \E c \in Clients : Speaks(client[c], id, num)
    <3>1. Carries(toApp, id, num) \/ (m.id = id /\ m.num = num)
        BY <1>2, <2>2, CarriesAppend
    <3> QED
        BY <1>4, <2>2, <3>1
  <2>3. CASE toApp' = Append(toApp, Message("KEEP_ALIVE", 0, 0, "empty"))
    <3>1. PICK m : m = Message("KEEP_ALIVE", 0, 0, "empty")
        OBVIOUS
    <3>2. m \in BcMsg /\ m.id = "KEEP_ALIVE"
        BY <3>1, ConnectionAssumption DEF Message, BcMsg, MsgIds, Nums, Bodies
    <3> QED
        BY <2>1, <2>2, <2>3, <3>1, <3>2
  <2>4. ASSUME NEW c \in Clients, client[c].phase = "stream",
               toApp' = Append(toApp, Message("VIDEO", client[c].num, 200, "part"))
        PROVE  Carries(toApp', id, num) => Carries(toApp, id, num)
                                           \/ \E d \in Clients : Speaks(client[d], id, num)
    <3>1. PICK k \in Client :
              /\ k = client[c] /\ k # Idle /\ Listening(k) /\ Busy(k) /\ k.num \in Nums
        BY <2>4, Waiting DEF IndInv
    <3>2. PICK m : m = Message("VIDEO", k.num, 200, "part")
        OBVIOUS
    <3>3. m \in BcMsg /\ m.id = "VIDEO" /\ m.num = k.num
        BY <3>1, <3>2 DEF Message, BcMsg, MsgIds, Bodies
    <3>4. k.plan[1].reply = "stream" /\ 1 \in 1..Len(k.plan) /\ Direct(k.plan)
        BY <2>4, <3>1 DEF Busy, Planned, ReachInv, Reach
    <3>5. Speaks(client[c], m.id, m.num)
        BY <3>1, <3>3, <3>4 DEF Speaks, Direct
    <3> QED
        BY <2>2, <2>4, <3>1, <3>2, <3>3, <3>5
  <2>5. ASSUME NEW c \in Clients, client[c].phase = "wait", client[c].plan[1].reply = "chunks"
        PROVE  FALSE
    <3>1. PICK k \in Client : k = client[c] /\ k # Idle /\ Busy(k)
        BY <2>5, Waiting DEF IndInv
    <3>2. 1 \in 1..Len(k.plan) /\ Direct(k.plan)
        BY <3>1 DEF Busy, Planned, ReachInv, Reach
    <3> QED
        BY <2>5, <3>1, <3>2 DEF Direct
  <2> QED
      BY <1>6, <2>1, <2>3, <2>4, <2>5, <2>2 DEF CamSends
<1>7. CASE CamHangsUp
  <2>1. toApp' = toApp /\ toCamera' = <<>>
      BY <1>7 DEF CamHangsUp
  <2> QED
      BY <2>1 DEF Carries
<1> QED
    BY <1>5, <1>6, <1>7

\* At first nobody listens.
LEMMA ReachInit == ASSUME Init PROVE ReachInv
<1>1. \A i \in Nat : ~Asks(i)
  <2>1. PICK a : a = [type |-> "AddHandler", id |-> "KEEP_ALIVE"]
      OBVIOUS
  <2>2. queue = <<a>> /\ a.type # "AddSubscriber"
      BY <2>1 DEF Init
  <2>3. \A i \in 1..Len(queue) : queue[i] = a
      BY <2>2
  <2> QED
      BY <2>2, <2>3 DEF Asks
<1>2. subs = {} /\ \A c \in Clients : client[c] = Idle
    BY DEF Init
<1> QED
    BY <1>1, <1>2 DEF ReachInv, RowsInv, Reach

\* Every step keeps the reach of the clients' subscriptions.
LEMMA ReachNext == DirectCommands /\ IndInv /\ ReachInv /\ [Next]_vars => ReachInv'
<1> SUFFICES ASSUME DirectCommands, IndInv, ReachInv, [Next]_vars PROVE ReachInv'
    OBVIOUS
<1>1. ASSUME NEW c \in Clients,
             \/ Start(c) \/ Subscribe(c) \/ GateFails(c) \/ Send(c) \/ Recv(c) \/ RecvNone(c)
             \/ QuirkTimeout(c) \/ StreamFrame(c) \/ StreamAbort(c) \/ GiveUp(c)
      PROVE  ReachInv'
    BY <1>1, StartReach, SubscribeReach, SendReach, ReadsReach
<1>2. CASE Reader \/ ReaderFails
    BY <1>2, ReaderReach
<1>3. CASE PollBc \/ PollAddSubscriber \/ PollAddHandler
    BY <1>3, PollBcReach, PollSubscriberReach, PollHandlerReach
<1>4. CASE PollErr \/ ShutdownCancel
    BY <1>4, PollerEnds
<1>5. CASE Shutdown \/ UNCHANGED vars
  <2>1. UNCHANGED <<queue, subs, poller, client, open, toApp, toCamera>>
      BY <1>5 DEF Shutdown, vars, connVars, appVars, chanVars, netVars
  <2> QED
      BY <2>1, QuietNews, QuietReach
<1>6. CASE CamAnswer \/ CamSends \/ CamHangsUp
    BY <1>6, CameraReach
<1> QED
    BY <1>1, <1>2, <1>3, <1>4, <1>5, <1>6 DEF Next

\* A message at the head of the queue that a client waits for is put into its channel.
LEMMA HeadDelivered ==
    ASSUME IndInv, ReachInv, PollBc, NEW c \in Clients, NEW k, k = client[c], k.phase = "wait",
           NEW m, m = Head(queue).msg, m.id = k.plan[1].id, m.num = k.num
    PROVE  \E i \in 1..Len(chan'[k.ch]) : chan'[k.ch][i] = m
<1>1. /\ k # Idle /\ Listening(k) /\ Busy(k) /\ k.ch \in Channels /\ k.num \in Nums
      /\ k.plan[1] \in Exchanges
    BY Waiting DEF IndInv
<1>2. Listens(k) /\ Ahead(k) /\ Reach(k) /\ Entered(k)
    BY <1>1 DEF IndInv, ClientsInv, ClientInv, ReachInv, Reach, PollBc
<1>3. Direct(k.plan) /\ Own(k) /\ 1 \in 1..Len(k.plan)
    BY <1>1, <1>2 DEF Reach, Busy, Planned
<1>4. k.plan[1].sub \in {"new", "same", "number"} /\ m.id # "KEEP_ALIVE"
    BY <1>1, <1>3 DEF Exchanges, Direct
<1>5. Head(queue) \in Item /\ Head(queue) = queue[1] /\ 1 \in 1..Len(queue)
    BY QueueShrinks DEF IndInv, PollBc
<1>6. m \in BcMsg /\ Queued(1, k.plan[1].id, k.num)
    BY <1>5 DEF PollBc, Item, Queued
<1>7. PICK s \in subs : s.ch = k.ch
  <2>1. ASSUME NEW i \in Nat, Asks(i), \A j \in Nat : j < i => ~Queued(j, k.plan[1].id, k.num)
        PROVE  FALSE
    <3>1. i \in 1..Len(queue) /\ i # 1
        BY <1>5, <2>1 DEF Asks, PollBc
    <3>2. 1 < i
        BY <3>1
    <3> QED
        BY <1>6, <2>1, <3>2
  <2> QED
      BY <1>2, <2>1 DEF Entered
<1>8. s \in Pruned /\ s.id = m.id /\ s.num = m.num
    BY <1>2, <1>4, <1>7 DEF Entered, Pruned, Listens, Fits
<1>9. Target(m) # {}
    BY <1>8 DEF Target
<1>10. \A t \in Target(m) : t.ch = k.ch
  <2> SUFFICES ASSUME NEW t \in Target(m) PROVE t.ch = k.ch
      OBVIOUS
  <2>1. t \in Pruned /\ t.id = m.id /\ t.num = m.num
      BY <1>6, TargetExact
  <2>2. t \in subs /\ t \in Subscriber /\ t.num = t.ch[1] /\ t.ch[2] # "any"
      BY <2>1 DEF Pruned, IndInv, TableInv, ReachInv, RowsInv
  <2>3. t.ch = Channel(k.num, "new") \/ t.ch = Channel(k.num, "number")
      BY <2>1, <2>2 DEF Subscriber, Channels, Channel
  <2>4. CASE k.plan[1].sub \in {"new", "same"}
    <3>1. k.ch = Channel(k.num, "new")
        BY <1>2, <2>4 DEF Listens, Kind
    <3>2. Unused(Channel(k.num, "number"))
        BY <1>2, <2>4 DEF Ahead
    <3> QED
        BY <2>2, <2>3, <3>1, <3>2 DEF Unused
  <2>5. CASE k.plan[1].sub = "number"
    <3>1. k.ch = Channel(k.num, "number")
        BY <1>2, <2>5 DEF Listens, Kind
    <3>2. t.ch # Channel(k.num, "new")
        BY <1>3, <2>1, <2>2, <2>5 DEF Own
    <3> QED
        BY <2>3, <3>1, <3>2
  <2> QED
      BY <1>4, <2>4, <2>5
<1>11. m.id \notin handlers
    BY <1>4 DEF IndInv, Typed
<1>12. PICK t \in Target(m) : chan' = Deliver(t.ch, m)
    BY <1>9, <1>11 DEF PollBc
<1>13. k.ch \in open /\ chan \in [Channels -> Seq(BcMsg \cup {ErrMessage})]
    BY <1>2 DEF Entered, IndInv, ChanInv
<1>14. chan'[k.ch] = Append(chan[k.ch], m)
    BY <1>1, <1>10, <1>12, <1>13 DEF Deliver
<1>15. chan[k.ch] \in Seq(BcMsg \cup {ErrMessage})
    BY <1>1, <1>13
<1>16. Len(chan[k.ch]) + 1 \in 1..Len(chan'[k.ch]) /\ chan'[k.ch][Len(chan[k.ch]) + 1] = m
    BY <1>14, <1>15
<1> QED
    BY <1>16

\* What is under way stays so, unless the poller takes it or ends.
LEMMA UnderWayStays ==
    ASSUME IndInv, [Next]_vars, NEW m \in UnderWay, poller' # "dead"
    PROVE  m \in UnderWay' \/ (PollBc /\ m = Head(queue).msg)
<1>1. /\ toApp \in Seq(BcMsg) /\ queue \in Seq(Item) /\ Len(queue) \in Nat /\ Len(toApp) \in Nat
    BY DEF IndInv, TableInv
<1>2. \/ \E i \in 1..Len(toApp) : m = toApp[i]
      \/ \E i \in 1..Len(queue) : queue[i].type = "Bc" /\ m = queue[i].msg
    BY DEF UnderWay
<1>3. ASSUME \/ \E i \in 1..Len(toApp') : m = toApp'[i]
             \/ \E i \in 1..Len(queue') : queue'[i].type = "Bc" /\ m = queue'[i].msg
      PROVE  m \in UnderWay'
    BY <1>3 DEF UnderWay
<1>4. ASSUME NEW S, NEW w \in Seq(S), NEW a \in S, NEW v, v = Append(w, a)
      PROVE  /\ \A i \in 1..Len(w) : i \in 1..Len(v) /\ v[i] = w[i]
             /\ Len(v) \in 1..Len(v) /\ v[Len(v)] = a
    BY <1>4
<1>5. ASSUME NEW S, NEW w \in Seq(S), w # <<>>, NEW v, v = Tail(w)
      PROVE  \A i \in 1..Len(w) : i = 1 \/ (i - 1 \in 1..Len(v) /\ v[i - 1] = w[i])
    BY <1>5
<1>6. ASSUME UNCHANGED <<toApp, queue>> PROVE m \in UnderWay'
    BY <1>2, <1>3, <1>6
<1>7. CASE toApp' = toApp /\ \E a \in Item : queue' = Append(queue, a)
    BY <1>1, <1>2, <1>3, <1>4, <1>7
<1>8. CASE queue' = queue /\ \E a \in BcMsg : toApp' = Append(toApp, a)
    BY <1>1, <1>2, <1>3, <1>4, <1>8
<1>9. CASE Reader
  <2>1. PICK a : a = [type |-> "Bc", msg |-> Head(toApp)]
      OBVIOUS
  <2>2. /\ toApp # <<>> /\ toApp' = Tail(toApp) /\ queue' = Append(queue, a)
        /\ a.type = "Bc" /\ a.msg = toApp[1]
      BY <1>1, <1>9, <2>1 DEF Reader
  <2>3. a \in Item
    <3>1. Head(toApp) \in BcMsg
        BY <1>1, <2>2
    <3> QED
        BY <2>1, <3>1 DEF Item
  <2>4. /\ \A i \in 1..Len(queue) : i \in 1..Len(queue') /\ queue'[i] = queue[i]
        /\ Len(queue') \in 1..Len(queue') /\ queue'[Len(queue')] = a
      BY <1>1, <1>4, <2>2, <2>3
  <2>5. \A i \in 1..Len(toApp) : i = 1 \/ (i - 1 \in 1..Len(toApp') /\ toApp'[i - 1] = toApp[i])
      BY <1>1, <1>5, <2>2
  <2> QED
      BY <1>2, <1>3, <2>2, <2>4, <2>5
<1>10. ASSUME queue # <<>>, queue' = Tail(queue), toApp' = toApp
       PROVE  m \in UnderWay' \/ (Head(queue).type = "Bc" /\ m = Head(queue).msg)
  <2>1. \A i \in 1..Len(queue) : i = 1 \/ (i - 1 \in 1..Len(queue') /\ queue'[i - 1] = queue[i])
      BY <1>1, <1>5, <1>10
  <2>2. Head(queue) = queue[1]
      BY <1>1, <1>10
  <2> QED
      BY <1>2, <1>3, <1>10, <2>1, <2>2
<1>11. CASE PollBc \/ PollAddSubscriber \/ PollAddHandler
  <2>1. queue # <<>> /\ queue' = Tail(queue) /\ toApp' = toApp
      BY <1>11 DEF PollBc, PollAddSubscriber, PollAddHandler, netVars
  <2>2. Head(queue).type = "Bc" => PollBc
      BY <1>11 DEF PollAddSubscriber, PollAddHandler
  <2> QED
      BY <1>10, <2>1, <2>2
<1>12. CASE ReaderFails
  <2>1. PICK a : a = [type |-> "Bc", msg |-> ErrMessage]
      OBVIOUS
  <2>2. a \in Item /\ queue' = Append(queue, a) /\ toApp' = toApp
      BY <1>12, <2>1 DEF ReaderFails, netVars, Item
  <2> QED
      BY <1>7, <2>2
<1>13. ASSUME NEW c \in Clients, Subscribe(c) PROVE m \in UnderWay'
  <2>1. queue' \in Seq(Item) /\ toApp' = toApp
      BY <1>13, SubscribeKeeps DEF Subscribe, netVars, IndInv, TableInv
  <2>2. PICK a : queue' = Append(queue, a)
      BY <1>13 DEF Subscribe
  <2>3. \A i \in 1..Len(queue) : i \in 1..Len(queue') /\ queue'[i] = queue[i]
      BY <1>1, <2>2
  <2> QED
      BY <1>2, <1>3, <2>1, <2>3
<1>14. ASSUME NEW c \in Clients,
             \/ Start(c) \/ GateFails(c) \/ Send(c) \/ Recv(c) \/ RecvNone(c)
             \/ QuirkTimeout(c) \/ StreamFrame(c) \/ StreamAbort(c) \/ GiveUp(c)
      PROVE  m \in UnderWay'
  <2>1. UNCHANGED <<toApp, queue>>
      BY <1>14 DEF Start, GateFails, Send, Recv, RecvNone, QuirkTimeout, StreamFrame, StreamAbort,
                   GiveUp, connVars, netVars
  <2> QED
      BY <1>6, <2>1
<1>15. CASE Shutdown \/ CamHangsUp \/ UNCHANGED vars
  <2>1. UNCHANGED <<toApp, queue>>
      BY <1>15 DEF Shutdown, CamHangsUp, connVars, netVars, vars
  <2> QED
      BY <1>6, <2>1
<1>16. CASE CamAnswer \/ CamSends
  <2>1. queue' = queue /\ (toApp' = toApp \/ \E a : toApp' = Append(toApp, a))
      BY <1>16 DEF CamAnswer, CamSends, connVars
  <2>2. ASSUME NEW a, toApp' = Append(toApp, a)
        PROVE  \A i \in 1..Len(toApp) : i \in 1..Len(toApp') /\ toApp'[i] = toApp[i]
      BY <1>1, <2>2
  <2> QED
      BY <1>2, <1>3, <1>6, <2>1, <2>2
<1>17. CASE PollErr \/ ShutdownCancel
    BY <1>17 DEF PollErr, ShutdownCancel
<1> QED
    BY <1>9, <1>11, <1>12, <1>13, <1>14, <1>15, <1>16, <1>17 DEF Next

\* A reply under way to a client that waits for it is not lost: the client subscribed before
\* it asked, so that the poller has the subscription before the reply, and no other has the
\* reply's id and number.  For any commands but snapshots.
THEOREM NoReplyLostHolds == DirectCommands => (Spec => NoReplyLost)
<1> SUFFICES ASSUME DirectCommands PROVE Spec => NoReplyLost
    OBVIOUS
<1> DEFINE Kept == \A c \in Clients : \A m \in UnderWay :
                 (/\ client[c].phase = "wait" /\ client[c].plan[1].sub # "any"
                  /\ m.id = client[c].plan[1].id /\ m.num = client[c].num)
                 => \/ m \in UnderWay'
                    \/ \E i \in 1..Len(chan'[client[c].ch]) : chan'[client[c].ch][i] = m
                    \/ client'[c] # client[c]
                    \/ poller' = "dead"
<1>1. IndInv /\ ReachInv /\ [Next]_vars => [Kept]_vars
    BY UnderWayStays, HeadDelivered
<1>2. Init => ReachInv
    BY ReachInit
<1>3. IndInv /\ ReachInv /\ [Next]_vars => ReachInv'
    BY ReachNext
<1>4. NoReplyLost <=> [][Kept]_vars
    BY DEF NoReplyLost
<1> HIDE DEF Kept
<1> QED
    BY <1>1, <1>2, <1>3, <1>4, IndInvHolds, PTL DEF Spec

-----------------------------------------------------------------------------------
(***************************************************************************)
(* The bundles a cloud camera's sigV3 login takes: Cloud, for any number   *)
(* of cameras on the account and any lifetimes.                            *)
(***************************************************************************)
Asking == {"password", "session", "authorise", "pow", "insert", "failed", "mfa"}
BundleOf(u) == [uid : {u}, exp : SUBSET Int]
MintOf(u) == [at : Asking \cup {"idle", "cached", "done"}, bundle : SUBSET BundleOf(u), since : Int,
              tries : {0, 1}]

\* What a login took from the cache: the last bundle kept, with more than the margin left
\* when it was taken.
Fresh(m, last) ==
    \E b \in m.bundle : b.exp = last /\ \E e \in b.exp : e - 1 > m.since

\* One camera's loop: its cache holds the last bundle that named an expiry, what it is
\* about to insert is one bundle of its own, and it began to ask when that one was due.
LoopOf(u) ==
    /\ mint[u] \in MintOf(u) /\ minted[u] \in SUBSET Int /\ mint[u].since <= clock
    /\ cache[u] \subseteq BundleOf(u)
    /\ \A b \in cache[u] : b.exp = minted[u]
    /\ cache[u] = {} => minted[u] = {}
    /\ mint[u].at \in Asking => \A e \in minted[u] : e - 1 <= mint[u].since
    /\ mint[u].at = "cached" => Fresh(mint[u], minted[u])
    /\ mint[u].at = "insert" => \E b \in BundleOf(u) : mint[u].bundle = {b}
    /\ mint[u].at \in {"password", "mfa"} => ~HasRefresh
    /\ mint[u].at = "mfa" => \A a \in stored : ~\E e \in a.trust : e > mint[u].since

AccountInv ==
    /\ clock \in Nat
    /\ mint = [u \in Uids |-> mint[u]] /\ minted = [u \in Uids |-> minted[u]]
    /\ cache = [u \in Uids |-> cache[u]]
    /\ \A u \in Uids : LoopOf(u)

\* The first state, and every start of the process, with idle loops and empty caches.
LEMMA AccountFresh ==
    ASSUME clock \in Nat,
           cache = [u \in Uids |-> {}], mint = [u \in Uids |-> NoMint],
           minted = [u \in Uids |-> {}]
    PROVE  AccountInv
BY DEF AccountInv, LoopOf, MintOf, BundleOf, Asking, NoMint

\* What a loop goes through is its own: the others keep what is said of them.
LEMMA OwnLoop ==
    ASSUME AccountInv, NEW u \in Uids,
           clock' = clock, stored' = stored,
           NEW m, mint' = [mint EXCEPT ![u] = m],
           NEW n, minted' = [minted EXCEPT ![u] = n],
           NEW k, cache' = [cache EXCEPT ![u] = k],
           LoopOf(u)'
    PROVE  AccountInv'
<1>1. ASSUME NEW v \in Uids, v # u PROVE LoopOf(v)'
  <2>1. mint'[v] = mint[v] /\ minted'[v] = minted[v] /\ cache'[v] = cache[v]
      BY <1>1 DEF AccountInv
  <2>2. LoopOf(v)
      BY DEF AccountInv
  <2>3. HasRefresh' = HasRefresh
      BY DEF HasRefresh
  <2> QED
      BY <2>1, <2>2, <2>3 DEF LoopOf
<1>2. /\ mint' = [v \in Uids |-> mint'[v]] /\ minted' = [v \in Uids |-> minted'[v]]
      /\ cache' = [v \in Uids |-> cache'[v]]
    BY DEF AccountInv
<1> QED
    BY <1>1, <1>2 DEF AccountInv

\* A step that moves the mint on and touches nothing else.
LEMMA MintOnly ==
    ASSUME AccountInv, NEW u \in Uids, UNCHANGED <<cache, stored, clock, minted>>,
           NEW m \in MintOf(u), mint' = [mint EXCEPT ![u] = m],
           m.since <= clock,
           m.at \in Asking => \A e \in minted[u] : e - 1 <= m.since,
           m.at = "cached" => Fresh(m, minted[u]),
           m.at = "insert" => \E b \in BundleOf(u) : m.bundle = {b},
           m.at \in {"password", "mfa"} => ~HasRefresh,
           m.at = "mfa" => \A a \in stored : ~\E e \in a.trust : e > m.since
    PROVE  AccountInv'
<1>1. mint'[u] = m
    BY DEF AccountInv
<1>2. HasRefresh' = HasRefresh
    BY DEF HasRefresh
<1>3. LoopOf(u)'
    BY <1>1, <1>2 DEF AccountInv, LoopOf
<1>4. minted' = [minted EXCEPT ![u] = minted[u]] /\ cache' = [cache EXCEPT ![u] = cache[u]]
    BY DEF AccountInv
<1> QED
    BY <1>3, <1>4, OwnLoop

\* A request that fails: what was true of the time the loop began to ask is true of now.
LEMMA FailKept ==
    ASSUME AccountInv, NEW u \in Uids, UNCHANGED <<cache, stored, clock, minted>>,
           mint[u].at \in Asking, NEW why \in {"failed", "mfa"}, Fails(u, why),
           why = "mfa" => ~HasRefresh /\ ~Trusted
    PROVE  AccountInv'
<1> DEFINE m == [NoMint EXCEPT !.at = why, !.since = clock]
<1>1. mint' = [mint EXCEPT ![u] = m]
    BY DEF Fails
<1>2. m.at = why /\ m.since = clock /\ m \in MintOf(u)
  <2>1. clock \in Int
      BY DEF AccountInv
  <2>2. NoMint \in MintOf(u)
      BY DEF NoMint, MintOf
  <2> QED
      BY <2>1, <2>2 DEF MintOf, Asking
<1>3. \A e \in minted[u] : e - 1 <= clock
  <2>1. /\ clock \in Int /\ minted[u] \subseteq Int /\ mint[u].since \in Int
        /\ \A e \in minted[u] : e - 1 <= mint[u].since
        /\ mint[u].since <= clock
      BY DEF AccountInv, LoopOf, MintOf
  <2> QED
      BY <2>1
<1>4. why = "mfa" => \A a \in stored : ~\E e \in a.trust : e > clock
    BY DEF Trusted, InDate
<1>5. clock <= clock
    BY DEF AccountInv
<1> HIDE DEF m
<1> QED
    BY <1>1, <1>2, <1>3, <1>4, <1>5, MintOnly

\* A mint that goes on to its next request.
LEMMA GoKept ==
    ASSUME AccountInv, NEW u \in Uids, UNCHANGED <<cache, stored, clock, minted>>,
           mint[u].at \in Asking, NEW at \in {"session", "authorise", "pow"}, Go(u, at)
    PROVE  AccountInv'
<1> DEFINE m == [mint[u] EXCEPT !.at = at]
<1>1. mint' = [mint EXCEPT ![u] = m]
    BY DEF Go, AccountInv
<1>2. m.at = at /\ m.since = mint[u].since /\ m \in MintOf(u)
    BY DEF AccountInv, LoopOf, MintOf, Asking
<1>3. (\A e \in minted[u] : e - 1 <= m.since) /\ m.since <= clock
    BY <1>2 DEF AccountInv, LoopOf
<1> HIDE DEF m
<1> QED
    BY <1>1, <1>2, <1>3, MintOnly

\* mint_bundle: a loop goes to the network only when the cached bundle is due.
LEMMA MintBundleKept ==
    ASSUME AccountInv, NEW u \in Uids, MintBundle(u)
    PROVE  AccountInv'
<1>0. /\ UNCHANGED <<cache, stored, clock, minted>> /\ clock \in Nat /\ LoopOf(u)
      /\ clock <= clock
    BY DEF MintBundle, AccountInv
<1>1. CASE \E b \in cache[u] : Good(b)
  <2> DEFINE m == [at |-> "cached", bundle |-> cache[u], since |-> clock, tries |-> 0]
  <2>1. mint' = [mint EXCEPT ![u] = m]
      BY <1>1 DEF MintBundle
  <2>2. m.at = "cached" /\ m.since = clock /\ m \in MintOf(u) /\ m.bundle = cache[u]
      BY <1>0 DEF LoopOf, MintOf, Asking
  <2> HIDE DEF m
  <2>3. Fresh(m, minted[u])
      BY <1>0, <1>1, <2>2 DEF Fresh, Good, CACHE_MARGIN_SECS, LoopOf
  <2> QED
      BY <1>0, <2>1, <2>2, <2>3, MintOnly DEF Asking
<1>2. CASE ~\E b \in cache[u] : Good(b)
  <2> DEFINE m == [NoMint EXCEPT !.at = IF HasRefresh THEN "session" ELSE "password",
                                       !.since = clock]
  <2>1. mint' = [mint EXCEPT ![u] = m]
      BY <1>2 DEF MintBundle
  <2>2. /\ m.at = IF HasRefresh THEN "session" ELSE "password"
        /\ m.since = clock /\ m \in MintOf(u)
    <3>1. clock \in Int
        BY <1>0
    <3>2. NoMint \in MintOf(u)
        BY DEF NoMint, MintOf
    <3> QED
        BY <3>1, <3>2 DEF MintOf, Asking
  <2>3. \A e \in minted[u] : e - 1 <= clock
    <3>1. CASE cache[u] = {}
        BY <1>0, <3>1 DEF LoopOf
    <3>2. CASE cache[u] # {}
      <4>1. PICK b \in cache[u] : TRUE
          BY <3>2
      <4>2. b.exp = minted[u] /\ minted[u] \subseteq Int
          BY <1>0 DEF LoopOf
      <4>3. \A e \in b.exp : ~(e - 1 > clock)
          BY <1>2 DEF Good, CACHE_MARGIN_SECS
      <4> QED
          BY <1>0, <4>2, <4>3
    <3> QED
        BY <3>1, <3>2
  <2> HIDE DEF m
  <2> QED
      BY <1>0, <2>1, <2>2, <2>3, MintOnly
<1> QED
    BY <1>1, <1>2

\* access-authorization: a bundle of this camera, or more work, or an error.
LEMMA AuthorizationKept ==
    ASSUME AccountInv, NEW u \in Uids, AccessAuthorization(u)
    PROVE  AccountInv'
<1>0. /\ UNCHANGED <<cache, stored, clock, minted>> /\ clock \in Nat /\ LoopOf(u)
      /\ mint[u].at \in Asking
    BY DEF AccessAuthorization, AccountInv, Asking
<1>1. ASSUME NEW exp \in {{}} \cup {{clock + life} : life \in Lives},
             mint' = [mint EXCEPT ![u].at = "insert", ![u].bundle = {[uid |-> u, exp |-> exp]}]
      PROVE  AccountInv'
  <2> DEFINE b == [uid |-> u, exp |-> exp]
             m == [mint[u] EXCEPT !.at = "insert", !.bundle = {b}]
  <2>1. mint' = [mint EXCEPT ![u] = m]
      BY <1>1 DEF AccountInv
  <2>2. b \in BundleOf(u)
      BY <1>0, CloudAssumption DEF BundleOf
  <2> HIDE DEF b
  <2>3. /\ m.at = "insert" /\ m.since = mint[u].since /\ m.bundle = {b} /\ m \in MintOf(u)
      BY <1>0, <2>2 DEF LoopOf, MintOf, Asking
  <2>4. (\A e \in minted[u] : e - 1 <= m.since) /\ m.since <= clock
      BY <1>0, <2>3 DEF LoopOf
  <2> HIDE DEF m
  <2> QED
      BY <1>0, <2>1, <2>2, <2>3, <2>4, MintOnly
<1>2. CASE Go(u, "pow") \/ Fails(u, "failed")
    BY <1>0, <1>2, GoKept, FailKept
<1> QED
    BY <1>1, <1>2, Zenon DEF AccessAuthorization

\* solve_pow: an answer to send, or the end of the attempts.
LEMMA PowKept ==
    ASSUME AccountInv, NEW u \in Uids, SolvePow(u)
    PROVE  AccountInv'
<1>0. /\ UNCHANGED <<cache, stored, clock, minted>> /\ LoopOf(u) /\ mint[u].at \in Asking
    BY DEF SolvePow, AccountInv, Asking
<1>1. CASE mint' = [mint EXCEPT ![u].at = "authorise", ![u].tries = 1]
  <2> DEFINE m == [mint[u] EXCEPT !.at = "authorise", !.tries = 1]
  <2>1. mint' = [mint EXCEPT ![u] = m]
      BY <1>1 DEF AccountInv
  <2>2. /\ m.at = "authorise" /\ m.since = mint[u].since /\ m \in MintOf(u)
      BY <1>0 DEF LoopOf, MintOf, Asking
  <2>3. (\A e \in minted[u] : e - 1 <= m.since) /\ m.since <= clock
      BY <1>0, <2>2 DEF LoopOf
  <2> HIDE DEF m
  <2> QED
      BY <1>0, <2>1, <2>2, <2>3, MintOnly
<1>2. CASE Fails(u, "failed")
    BY <1>0, <1>2, FailKept
<1> QED
    BY <1>1, <1>2 DEF SolvePow

\* The end of mint_bundle: the cache holds the last bundle that named an expiry.
LEMMA MintedKept ==
    ASSUME AccountInv, NEW u \in Uids, Minted(u)
    PROVE  AccountInv'
<1>0. LoopOf(u) /\ mint[u].at = "insert"
    BY DEF Minted, AccountInv
<1>1. PICK b \in BundleOf(u) : mint[u].bundle = {b}
    BY <1>0 DEF LoopOf
<1>2. Exp(u) = b.exp /\ b.exp \subseteq Int
    BY <1>1 DEF Exp, BundleOf
<1> DEFINE m == [mint[u] EXCEPT !.at = "done"]
           k == IF b.exp # {} THEN {b} ELSE cache[u]
           n == IF b.exp # {} THEN b.exp ELSE minted[u]
<1>3. /\ mint' = [mint EXCEPT ![u] = m]
      /\ cache' = [cache EXCEPT ![u] = k]
      /\ minted' = [minted EXCEPT ![u] = n]
      /\ clock' = clock /\ stored' = stored
    BY <1>1, <1>2 DEF Minted, Insert, Go, AccountInv
<1>4. m \in MintOf(u) /\ m.at = "done" /\ m.since = mint[u].since
    BY <1>0 DEF LoopOf, MintOf
<1>5. /\ n \in SUBSET Int /\ k \subseteq BundleOf(u)
      /\ \A x \in k : x.exp = n
      /\ k = {} => n = {}
    BY <1>0, <1>2 DEF LoopOf
<1> HIDE DEF m, k, n
<1>6. mint'[u] = m /\ cache'[u] = k /\ minted'[u] = n
    BY <1>3 DEF AccountInv
<1>7. LoopOf(u)'
    BY <1>0, <1>3, <1>4, <1>5, <1>6 DEF LoopOf, Asking
<1> QED
    BY <1>3, <1>7, OwnLoop

\* Every step keeps the invariant.
LEMMA AccountNext ==
    ASSUME AccountInv, [CloudNext]_cloudVars
    PROVE  AccountInv'
<1>1. ASSUME NEW u \in Uids, PasswordGrant(u) PROVE AccountInv'
  <2>0. /\ UNCHANGED <<cache, stored, clock, minted>> /\ mint[u].at \in Asking
        /\ ~HasRefresh
      BY <1>1 DEF PasswordGrant, AccountInv, LoopOf, Asking
  <2> QED
      BY <1>1, <2>0, GoKept, FailKept DEF PasswordGrant
<1>2. ASSUME NEW u \in Uids, SessionGrant(u) PROVE AccountInv'
  <2>0. UNCHANGED <<cache, stored, clock, minted>> /\ mint[u].at \in Asking
      BY <1>2 DEF SessionGrant, Asking
  <2> QED
      BY <1>2, <2>0, GoKept, FailKept DEF SessionGrant
<1>3. CASE \/ \E trust, refresh \in BOOLEAN : CloudAuthorise(trust, refresh)
           \/ UNCHANGED cloudVars
  <2>1. UNCHANGED <<cache, mint, stored, clock, minted>>
      BY <1>3 DEF CloudAuthorise, cloudVars
  <2> QED
      BY <2>1 DEF AccountInv, LoopOf, HasRefresh
<1>4. CASE Restart
  <2>1. /\ clock' \in Nat /\ cache' = [u \in Uids |-> {}]
        /\ mint' = [u \in Uids |-> NoMint] /\ minted' = [u \in Uids |-> {}]
      BY <1>4 DEF Restart, AccountInv
  <2> QED
      BY <2>1 DEF AccountInv, LoopOf, MintOf, BundleOf, Asking, NoMint
<1>5. CASE Tick
  <2>1. /\ UNCHANGED <<cache, mint, stored, minted>> /\ clock \in Nat /\ clock' = clock + 1
      BY <1>5 DEF Tick, AccountInv
  <2>2. ASSUME NEW u \in Uids PROVE LoopOf(u)'
    <3>1. LoopOf(u) /\ mint[u].since \in Int
        BY DEF AccountInv, LoopOf, MintOf
    <3>2. mint[u].since <= clock'
        BY <2>1, <3>1 DEF LoopOf
    <3> QED
        BY <2>1, <3>1, <3>2 DEF LoopOf, HasRefresh
  <2>3. clock' \in Nat
      BY <2>1
  <2> QED
      BY <2>1, <2>2, <2>3 DEF AccountInv
<1> QED
    BY <1>1, <1>2, <1>3, <1>4, <1>5, MintBundleKept, AuthorizationKept, PowKept, MintedKept
       DEF CloudNext

\* However many cameras share the account and however their mints interleave: a loop goes
\* to the network only when the last bundle minted for it that named an expiry is due, a
\* login that takes a cached bundle gets its own camera's latest with more than the margin
\* left, and verification is asked for only of a process that started with neither a refresh token nor a trust token in date
\* (cloud.rs, mint_bundle; config.rs, apply_cloud_auth).
THEOREM AccountStaysSpared == CloudSpec => []AccountSpared
<1>1. CloudInit => AccountInv
    BY AccountFresh DEF CloudInit
<1>2. AccountInv /\ [CloudNext]_cloudVars => AccountInv'
    BY AccountNext
<1>3. AccountInv => AccountSpared
  <2> SUFFICES ASSUME AccountInv, NEW u \in Uids
               PROVE  /\ mint[u].at \in Asking =>
                           \A e \in minted[u] : e - 1 <= mint[u].since
                      /\ mint[u].at \in {"cached", "done"} =>
                           \A b \in mint[u].bundle : b.uid = u
                      /\ mint[u].at = "cached" =>
                           \E b \in mint[u].bundle :
                             /\ b.exp = minted[u]
                             /\ \E e \in b.exp : e - 1 > mint[u].since
                      /\ mint[u].at = "mfa" =>
                           /\ ~HasRefresh
                           /\ \A a \in stored : ~\E e \in a.trust : e > mint[u].since
      BY Zenon DEF AccountSpared, CACHE_MARGIN_SECS, Asking
  <2>1. LoopOf(u)
      BY DEF AccountInv
  <2> QED
      BY <2>1 DEF LoopOf, MintOf, BundleOf, Fresh
<1> QED
    BY <1>1, <1>2, <1>3, PTL DEF CloudSpec

-----------------------------------------------------------------------------
(* BcCodec, for any logins, any encryption levels a camera may offer and   *)
(* any number of commands.  The codec's context and the camera's are the   *)
(* same protocol except around a login, so the invariant says, step by     *)
(* step of the login, which one message is under way and under which       *)
(* protocol: the offer is made before either end has switched, and a       *)
(* signed login is pinned to BCEncrypt while the camera is on its session  *)
(* key already.  In the session every message reads back under the         *)
(* camera's protocol, whatever numbers are taken for binaries.             *)

InWire(w) == {w[i] : i \in 1..Len(w)}

\* A login request on its way, and a reply to one.
LoginRequest(kind, class, p) == serialize(1, nextNum - 1, class, kind, p)
Reply(code, class, binary, payload, cut) ==
    [Msg(1, nextNum - 1, code, class,
               IF binary # "none" THEN Part("ext", camCtx) ELSE NoPart,
               binary, "none", payload)
     EXCEPT !.cut = cut]
Device(p) == Part("DeviceInfo", p)

Quiet == toCam = <<>> /\ toClient = <<>>
LoginAsked(kind, class, p) == toCam = <<LoginRequest(kind, class, p)>> /\ toClient = <<>>
Replied(code, class, binary, payload) ==
    toCam = <<>> /\ \E cut \in BOOLEAN : toClient = <<Reply(code, class, binary, payload, cut)>>

\* The login up to the offer of an encryption: nothing is encrypted yet.
OfferInv ==
    /\ ctx = Unencrypted /\ pending = 0 /\ binMode = {}
    /\ \/ LoginAsked("none", "6514", Unencrypted) /\ camCtx = Unencrypted
       \/ Replied("200", "6514", "none", NoPart)
       \/ \E l \in Levels :
            /\ camCtx = CamProtocol(l)
            /\ Replied(l, "6614", "none",
                       Part("Encryption", IF l = "dd00" THEN Unencrypted
                                                ELSE BCEncrypt))

\* The challenge of authLogin: both ends use the protocol agreed on.
ChallengeInv ==
    /\ ctx = camCtx /\ pending = 0 /\ binMode = {}
    /\ \/ LoginAsked("getAccesskey", "6414", EncodeAs(1, ctx))
       \/ Replied("200", "6414", "1", Part("challenge", Unencrypted))

\* The login proper: a signed one has pinned BCEncrypt while the camera moves on.
DeviceInv ==
    \/ /\ ctx = camCtx /\ pending = 0
       /\ \/ LoginAsked("LoginUser", "6414", EncodeAs(1, ctx))
          \/ \E b \in {"none", "0"} :
               Replied("200", "6414", b, Device(EncodeAs(1, ctx)))
          \/ Replied("406", "6414", "none", NoPart)
    \/ /\ ctx = BCEncrypt /\ pending = nextNum - 1 /\ binMode = {} /\ flow # "authLogin"
       /\ \/ LoginAsked("SignedLoginUser", "0000", BCEncrypt)
          \/ /\ camCtx = full_aes(SessionKey)
             /\ Replied("200", "6414", "none", Device(BCEncrypt))
          \/ Replied("406", "6414", "none", NoPart)

\* A message of the session reads as what it is, unless its number was used for binaries
\* or it is media of which the decoder keeps the head.
IsMessage(m) ==
    m = [id |-> m.id, num |-> m.num, code |-> m.code, class |-> m.class, ext |-> m.ext,
         binary |-> m.binary, encLen |-> m.encLen, payload |-> m.payload, cut |-> m.cut,
         frame |-> m.frame]
ReadsBack(m) ==
    /\ IsMessage(m) /\ m.id # 1
    /\ \A bins :
         \/ m.num \in bins \/ deserialize(m, camCtx, bins) = m.payload.kind
         \/ m.payload.kind = "media" /\ deserialize(m, camCtx, bins) = "head"

\* What the client asked after the login the camera can read, whatever became of the client.
RequestsInv ==
    \A m \in InWire(toCam) :
        m.id \in {80, 3} /\ m.payload = Part("xml", camCtx)

StepInv ==
    /\ step \in {"upgrade", "sign"} =>
         /\ Quiet /\ ctx = Unencrypted /\ camCtx = Unencrypted
         /\ pending = 0 /\ binMode = {}
    /\ step = "sign" => flow = "direct"
    /\ step = "offer" => OfferInv
    /\ step = "modern" => Quiet /\ ctx = camCtx /\ pending = 0 /\ binMode = {}
    /\ step = "challenge" => ChallengeInv
    /\ step = "answer" => Quiet /\ ctx = camCtx /\ pending = 0
    /\ step = "device" => DeviceInv
    /\ step = "in" => ctx = camCtx /\ \A m \in InWire(toClient) : ReadsBack(m)
    /\ step \in {"in", "broken", "failed"} => RequestsInv

CodecInv ==
    /\ step \in {"upgrade", "sign", "offer", "modern", "challenge", "answer", "device", "in",
                 "broken", "failed"}
    /\ nextNum \in Nat \ {0} /\ (step \notin {"upgrade", "sign"} => nextNum # 1)
    /\ toCam \in Seq(InWire(toCam)) /\ toClient \in Seq(InWire(toClient))
    /\ StepInv
    /\ CodecAgrees

\* Sequences of no or one message, and what adding and taking one does.
LEMMA ElementsOf ==
    /\ InWire(<<>>) = {} /\ <<>> \in Seq(InWire(<<>>))
    /\ \A x : /\ InWire(<<x>>) = {x} /\ <<x>> \in Seq(InWire(<<x>>))
              /\ Append(<<>>, x) = <<x>> /\ Head(<<x>>) = x /\ Tail(<<x>>) = <<>> /\ <<x>> # <<>>
<1>1. InWire(<<>>) = {} /\ <<>> \in Seq(InWire(<<>>))
    BY DEF InWire
<1>2. ASSUME NEW x PROVE InWire(<<x>>) = {x}
    BY DEF InWire
<1>3. ASSUME NEW x PROVE <<x>> \in Seq(InWire(<<x>>))
    BY <1>2
<1>4. ASSUME NEW x
      PROVE  Append(<<>>, x) = <<x>> /\ Head(<<x>>) = x /\ Tail(<<x>>) = <<>> /\ <<x>> # <<>>
    OBVIOUS
<1> QED
    BY <1>1, <1>2, <1>3, <1>4

\* A message sent is on the wire behind the others.
LEMMA ElementsAppend ==
    ASSUME NEW w, w \in Seq(InWire(w)), NEW x
    PROVE  /\ Append(w, x) \in Seq(InWire(Append(w, x)))
           /\ InWire(Append(w, x)) = InWire(w) \cup {x}
<1> DEFINE v == Append(w, x)
           S == InWire(w) \cup {x}
<1>1. w \in Seq(S) /\ x \in S
    OBVIOUS
<1> HIDE DEF S
<1>2. /\ v \in Seq(S) /\ Len(v) = Len(w) + 1 /\ v[Len(w) + 1] = x
      /\ \A i \in 1..Len(w) : v[i] = w[i]
    BY <1>1
<1>3. Len(w) \in Nat
    BY <1>1
<1> HIDE DEF v
<1>4. InWire(v) = InWire(w) \cup {x}
  <2>1. ASSUME NEW i \in 1..Len(v) PROVE v[i] \in InWire(w) \cup {x}
      BY <1>2, <1>3 DEF InWire
  <2>2. ASSUME NEW i \in 1..Len(w) PROVE w[i] \in InWire(v)
    <3>1. i \in 1..Len(v) /\ v[i] = w[i]
        BY <1>2, <1>3
    <3> QED
        BY <3>1 DEF InWire
  <2>3. x \in InWire(v)
    <3>1. Len(w) + 1 \in 1..Len(v)
        BY <1>2, <1>3
    <3> QED
        BY <1>2, <3>1 DEF InWire
  <2> QED
      BY <2>1, <2>2, <2>3 DEF InWire
<1> QED
    BY <1>2, <1>4 DEF v, S

\* A message received is off the wire.
LEMMA ElementsTail ==
    ASSUME NEW w, w \in Seq(InWire(w)), w # <<>>
    PROVE  /\ Tail(w) \in Seq(InWire(Tail(w))) /\ Head(w) \in InWire(w)
           /\ InWire(Tail(w)) \subseteq InWire(w)
<1>1. Len(w) \in Nat \ {0} /\ Head(w) = w[1] /\ Len(Tail(w)) = Len(w) - 1
    OBVIOUS
<1>2. \A i \in 1..Len(Tail(w)) : Tail(w)[i] = w[i + 1] /\ i + 1 \in 1..Len(w)
    BY <1>1
<1>3. InWire(Tail(w)) \subseteq InWire(w)
    BY <1>2 DEF InWire
<1>4. Head(w) \in InWire(w)
    BY <1>1 DEF InWire
<1>5. \A i \in 1..Len(Tail(w)) : Tail(w)[i] \in InWire(Tail(w))
    BY DEF InWire
<1>6. Tail(w) \in Seq(InWire(Tail(w)))
  <2> DEFINE v == Tail(w)
  <2>1. v \in Seq(InWire(w))
      OBVIOUS
  <2>2. \A i \in 1..Len(v) : v[i] \in InWire(v)
      BY <1>5
  <2> HIDE DEF v
  <2>3. v \in Seq(InWire(v))
      BY <2>1, <2>2
  <2> QED
      BY <2>3 DEF v
<1> QED
    BY <1>3, <1>4, <1>6

\* The first state.
LEMMA CodecStarts == ASSUME CodecInit PROVE CodecInv
<1>1. toCam \in Seq(InWire(toCam)) /\ toClient \in Seq(InWire(toClient))
    BY ElementsOf DEF CodecInit
<1>2. step \in {"upgrade", "sign"} /\ (step = "sign" => flow = "direct") /\ nextNum = 1
    BY DEF CodecInit
<1>3. CodecAgrees
    BY DEF CodecInit, CodecAgrees, NoRead
<1>4. StepInv
    BY <1>2 DEF CodecInit, StepInv, Quiet
<1> QED
    BY <1>1, <1>2, <1>3, <1>4 DEF CodecInv

\* A login request goes out while nothing is under way.
LEMMA AskKept ==
    ASSUME CodecInv, SendUpgrade \/ SendModern \/ SendGetAccesskey \/ SendAuthLogin
                       \/ Sign
    PROVE  CodecInv'
<1>1. /\ Quiet /\ nextNum \in Nat /\ pending = 0 /\ ctx = camCtx
      /\ step \in {"upgrade", "sign", "modern", "answer"}
      /\ UNCHANGED <<toClient, camCtx, read, camRead, flow, binMode>>
    BY DEF CodecInv, StepInv, SendUpgrade, SendModern, SendGetAccesskey, SendAuthLogin,
           Sign, Ask, Encode
<1>2. CodecAgrees'
    BY <1>1 DEF CodecInv, CodecAgrees
<1>3. toClient' = <<>> /\ toClient' \in Seq(InWire(toClient)')
    BY <1>1, ElementsOf DEF Quiet, InWire
<1>4. ASSUME NEW x, toCam' = Append(toCam, x)
      PROVE  toCam' = <<x>> /\ toCam' \in Seq(InWire(toCam)')
    BY <1>1, <1>4, ElementsOf DEF Quiet, InWire
<1>5. CASE SendUpgrade
    BY <1>1, <1>2, <1>3, <1>4, <1>5
       DEF CodecInv, StepInv, OfferInv, LoginAsked, LoginRequest, SendUpgrade, Ask, Encode,
           LOGIN, EncodeAs, IsAes, Unencrypted
<1>6. CASE SendModern
    BY <1>1, <1>2, <1>3, <1>4, <1>6
       DEF CodecInv, StepInv, DeviceInv, LoginAsked, LoginRequest, SendModern, Ask, Encode,
           LOGIN
<1>7. CASE SendGetAccesskey
    BY <1>1, <1>2, <1>3, <1>4, <1>7
       DEF CodecInv, StepInv, ChallengeInv, LoginAsked, LoginRequest, SendGetAccesskey, Ask,
           Encode, LOGIN
<1>8. CASE SendAuthLogin
    BY <1>1, <1>2, <1>3, <1>4, <1>8
       DEF CodecInv, StepInv, DeviceInv, LoginAsked, LoginRequest, SendAuthLogin, Ask,
           Encode, LOGIN
<1>9. CASE Sign
  <2>1. binMode = {} /\ flow # "authLogin"
      BY <1>9 DEF CodecInv, StepInv, Sign
  <2>2. EncodeAs(1, BCEncrypt) = BCEncrypt
      BY DEF EncodeAs, IsAes, BCEncrypt
  <2>3. /\ ctx' = BCEncrypt /\ pending' = nextNum /\ nextNum' = nextNum + 1
        /\ step' = "device"
        /\ toCam' = Append(toCam, serialize(1, nextNum, "0000", "SignedLoginUser",
                                                  BCEncrypt))
      BY <1>9, <2>2 DEF Sign, Ask, Encode, LOGIN
  <2>4. pending' = nextNum' - 1 /\ nextNum = nextNum' - 1 /\ nextNum' \in Nat \ {0, 1}
    <3>1. nextNum \in Nat \ {0} /\ nextNum' = nextNum + 1 /\ pending' = nextNum
        BY <2>3 DEF CodecInv
    <3> QED
        BY ONLY <3>1
  <2>5. LoginAsked("SignedLoginUser", "0000", BCEncrypt)'
      BY <1>3, <1>4, <2>3, <2>4 DEF LoginAsked, LoginRequest, BCEncrypt, serialize, Msg,
                                    NoPart, Part, Unencrypted
  <2>6. DeviceInv'
      BY <1>1, <2>1, <2>3, <2>4, <2>5 DEF DeviceInv, BCEncrypt
  <2> QED
      BY <1>2, <1>3, <1>4, <2>3, <2>4, <2>6 DEF CodecInv, StepInv
<1> QED
    BY <1>5, <1>6, <1>7, <1>8, <1>9

\* A message that arrives in two parts is the message.
LEMMA Uncut ==
    ASSUME NEW m, IsMessage(m), NEW n, n = [m EXCEPT !.cut = FALSE]
    PROVE  /\ IsMessage(n) /\ n.id = m.id /\ n.num = m.num /\ n.payload = m.payload
           /\ \A c, bins : deserialize(n, c, bins) = deserialize(m, c, bins)
<1>1. /\ IsMessage(n) /\ n.id = m.id /\ n.num = m.num /\ n.payload = m.payload
      /\ n.code = m.code /\ n.class = m.class /\ n.ext = m.ext /\ n.binary = m.binary
      /\ n.encLen = m.encLen /\ n.frame = m.frame
  <2>1. n = [id |-> m.id, num |-> m.num, code |-> m.code, class |-> m.class, ext |-> m.ext,
             binary |-> m.binary, encLen |-> m.encLen, payload |-> m.payload, cut |-> FALSE,
             frame |-> m.frame]
      BY DEF IsMessage
  <2> QED
      BY <2>1 DEF IsMessage
<1>2. ASSUME NEW c, NEW bins
      PROVE  deserialize(n, c, bins) = deserialize(m, c, bins)
  <2>1. /\ PayloadProtocol(n, c) = PayloadProtocol(m, c)
        /\ Malformed(n) <=> Malformed(m)
      BY <1>1 DEF PayloadProtocol, Malformed
  <2>2. ReadPayload(n, c, bins) = ReadPayload(m, c, bins)
      BY <1>1, <2>1 DEF ReadPayload
  <2> QED
      BY <1>1, <2>1, <2>2 DEF deserialize
<1> QED
    BY <1>1, <1>2

\* A command of the session.
LEMMA CommandKept ==
    ASSUME CodecInv, NEW id \in {80, 3}, Command(id)
    PROVE  CodecInv'
<1> DEFINE x == serialize(id, nextNum, "6414", "xml", ctx)
<1>1. /\ step = "in" /\ nextNum' = nextNum + 1 /\ toCam' = Append(toCam, x) /\ ctx' = ctx
      /\ UNCHANGED <<flow, step, toClient, camCtx, read, camRead, binMode>>
    BY DEF Command, Encode, EncodeAs, LOGIN
<1>2. x.id = id /\ x.payload = Part("xml", ctx)
    BY DEF serialize, Msg
<1> HIDE DEF x
<1>3. toCam' \in Seq(InWire(toCam')) /\ InWire(toCam') = InWire(toCam) \cup {x}
    BY <1>1, ElementsAppend DEF CodecInv
<1>4. nextNum' \in Nat \ {0, 1}
  <2>1. nextNum \in Nat \ {0}
      BY DEF CodecInv
  <2> QED
      BY <1>1, <2>1
<1>5. ctx = camCtx /\ RequestsInv /\ \A m \in InWire(toClient) : ReadsBack(m)
    BY <1>1 DEF CodecInv, StepInv
<1>6. RequestsInv'
  <2>1. \A m \in InWire(toCam') : m.id \in {80, 3} /\ m.payload = Part("xml", camCtx)
      BY <1>2, <1>3, <1>5 DEF RequestsInv
  <2> QED
      BY <1>1, <2>1 DEF RequestsInv, InWire, Part
<1>7. \A m \in InWire(toClient') : ReadsBack(m)'
    BY <1>1, <1>5 DEF ReadsBack, IsMessage
<1>8. StepInv'
    BY <1>1, <1>5, <1>6, <1>7 DEF StepInv, InWire
<1>9. CodecAgrees'
    BY <1>1 DEF CodecInv, CodecAgrees
<1> QED
    BY <1>1, <1>3, <1>4, <1>8, <1>9 DEF CodecInv, InWire

\* The reply to a login that arrives in two parts is still that reply.
LEMMA RepliedPart ==
    ASSUME ReceivePart, NEW code, NEW class, NEW b, NEW part,
           Replied(code, class, b, part)
    PROVE  /\ Replied(code, class, b, part)'
           /\ toCam' = <<>> /\ toClient' \in Seq(InWire(toClient'))
<1>1. PICK cut \in BOOLEAN : toClient = <<Reply(code, class, b, part, cut)>>
    BY DEF Replied
<1>2. /\ toClient' = [toClient EXCEPT ![1] = [toClient[1] EXCEPT !.cut = FALSE]]
      /\ UNCHANGED <<nextNum, camCtx, toCam>>
    BY DEF ReceivePart
<1>3. toClient' = <<[Reply(code, class, b, part, cut) EXCEPT !.cut = FALSE]>>
  <2> DEFINE r == Reply(code, class, b, part, cut)
             n == [r EXCEPT !.cut = FALSE]
  <2>1. toClient[1] = r
      BY <1>1
  <2>2. toClient' = [<<r>> EXCEPT ![1] = n]
      BY <1>1, <1>2, <2>1
  <2> HIDE DEF r, n
  <2>3. [<<r>> EXCEPT ![1] = n] = <<n>>
      OBVIOUS
  <2> QED
      BY <2>2, <2>3 DEF r, n
<1>4. [Reply(code, class, b, part, cut) EXCEPT !.cut = FALSE] = Reply(code, class, b, part, FALSE)
    BY DEF Reply, Msg
<1>5. toClient' = <<Reply(code, class, b, part, FALSE)>>
    BY <1>3, <1>4
<1>6. Replied(code, class, b, part)'
  <2>1. toCam' = <<>> /\ FALSE \in BOOLEAN
      BY <1>2 DEF Replied
  <2>2. toClient' = <<Reply(code, class, b, part, FALSE)'>>
      BY <1>2, <1>5 DEF Reply, Msg, Part, NoPart, Unencrypted
  <2> QED
      BY <2>1, <2>2 DEF Replied
<1> QED
    BY <1>2, <1>5, <1>6, ElementsOf DEF Replied

\* The first part of a message that comes in two changes nothing yet.
LEMMA ReceivePartKept == ASSUME CodecInv, ReceivePart PROVE CodecInv'
<1>1. /\ toClient # <<>>
      /\ UNCHANGED <<ctx, pending, binMode, flow, step, nextNum, toCam, camCtx, read, camRead>>
    BY DEF ReceivePart
<1>2. CodecAgrees'
    BY <1>1 DEF CodecInv, CodecAgrees
<1>3. RequestsInv' <=> RequestsInv
    BY <1>1 DEF RequestsInv, InWire, Part
<1>4. step \notin {"upgrade", "sign", "modern", "answer"}
    BY <1>1 DEF CodecInv, StepInv, Quiet
<1>5. CASE step \in {"in", "broken", "failed"}
  <2> DEFINE n == [toClient[1] EXCEPT !.cut = FALSE]
             w == toClient'
  <2>1. w = [toClient EXCEPT ![1] = n]
      BY DEF ReceivePart
  <2>2. toClient \in Seq(InWire(toClient)) /\ Len(toClient) \in Nat \ {0}
      BY <1>1 DEF CodecInv
  <2> HIDE DEF n
  <2>3. /\ Len(w) = Len(toClient) /\ w[1] = n
        /\ \A i \in 1..Len(w) : i # 1 => w[i] = toClient[i]
      BY <2>1, <2>2
  <2>4. w \in Seq(InWire(toClient) \cup {n})
      BY <2>1, <2>2
  <2> HIDE DEF w
  <2>5. InWire(w) \subseteq InWire(toClient) \cup {n}
      BY <2>2, <2>3 DEF InWire
  <2>6. w \in Seq(InWire(w))
      BY <2>4 DEF InWire
  <2>7. toClient[1] \in InWire(toClient)
      BY <2>2 DEF InWire
  <2>8. step = "in" => \A m \in InWire(w) : ReadsBack(m)
    <3> SUFFICES ASSUME step = "in" PROVE ReadsBack(n)
        BY <2>5 DEF CodecInv, StepInv
    <3>1. ReadsBack(toClient[1])
        BY <2>7 DEF CodecInv, StepInv
    <3> QED
        BY <3>1, Uncut DEF ReadsBack, n
  <2>9. \A m : ReadsBack(m) => ReadsBack(m)'
      BY <1>1 DEF ReadsBack, IsMessage
  <2>10. StepInv'
      BY <1>1, <1>3, <1>5, <2>8, <2>9 DEF CodecInv, StepInv, w, InWire
  <2> QED
      BY <1>1, <1>2, <2>6, <2>10 DEF CodecInv, w, InWire
<1>6. CASE step \in {"offer", "challenge", "device"}
  <2>1. /\ \A k, c, p : ~LoginAsked(k, c, p)
        /\ \A c, k, b, p : Replied(c, k, b, p) => Replied(c, k, b, p)'
      BY <1>1, RepliedPart DEF LoginAsked
  <2>2. \E c, k, b, p : Replied(c, k, b, p)
      BY <1>6, <2>1 DEF CodecInv, StepInv, OfferInv, ChallengeInv, DeviceInv
  <2>3. toCam' \in Seq(InWire(toCam')) /\ toClient' \in Seq(InWire(toClient'))
      BY <2>2, RepliedPart, ElementsOf
  <2>4. step = "offer" => OfferInv'
      BY <1>1, <2>1 DEF CodecInv, StepInv, OfferInv, Unencrypted
  <2>5. step = "challenge" => ChallengeInv'
      BY <1>1, <2>1 DEF CodecInv, StepInv, ChallengeInv
  <2>6. step = "device" => DeviceInv'
      BY <1>1, <2>1 DEF CodecInv, StepInv, DeviceInv
  <2>7. StepInv'
      BY <1>1, <1>6, <2>4, <2>5, <2>6 DEF StepInv
  <2> QED
      BY <1>1, <1>2, <2>3, <2>7 DEF CodecInv, InWire
<1> QED
    BY <1>4, <1>5, <1>6 DEF CodecInv

\* The messages of a session read as what they are: XML under the session's protocol,
\* media with the head of it encrypted or none of it, and what is no message as an error.
LEMMA XmlReads ==
    ASSUME NEW m, IsMessage(m), m.id # 1, m.class = "0000", m.ext = NoPart,
           m.binary = "none", m.frame = "good", m.payload = Part("xml", camCtx)
    PROVE  ReadsBack(m)
<1> SUFFICES ASSUME NEW bins, m.num \notin bins
             PROVE  deserialize(m, camCtx, bins) = "xml" /\ m.payload.kind = "xml"
    BY DEF ReadsBack
<1>1. /\ m.payload.kind = "xml" /\ m.payload.under = camCtx /\ m.payload # NoPart
    BY DEF Part, NoPart
<1>2. decrypt(PayloadProtocol(m, camCtx), m.payload) = "xml"
    BY <1>1 DEF decrypt, PayloadProtocol, EncodeAs, LOGIN
<1>3. ReadPayload(m, camCtx, bins) = "xml"
    BY <1>2 DEF ReadPayload, BinaryKinds
<1> QED
    BY <1>1, <1>3 DEF deserialize, Malformed, is_modern

\* A media packet reads back, or the enciphered head of it does: its extension marks it
\* as binary.
LEMMA MediaReads ==
    ASSUME NEW m, IsMessage(m), m.id # 1, m.class = "0000",
           m.ext = Part("ext", camCtx), m.binary = "1", m.frame = "good",
           m.encLen \in IF camCtx.mode = "FullAes" THEN {"none", "whole", "part"} ELSE {"none"},
           m.payload = Part("media", IF m.encLen = "none" THEN Unencrypted ELSE camCtx)
    PROVE  ReadsBack(m)
<1> SUFFICES ASSUME NEW bins
             PROVE  deserialize(m, camCtx, bins) \in {"media", "head"} /\ m.payload.kind = "media"
    BY DEF ReadsBack
<1>1. /\ m.payload.kind = "media" /\ m.payload # NoPart
      /\ m.payload.under = IF m.encLen = "none" THEN Unencrypted ELSE camCtx
      /\ m.ext.kind = "ext" /\ m.ext.under = camCtx
    BY DEF Part, NoPart
<1>2. PayloadProtocol(m, camCtx) = camCtx
    BY DEF PayloadProtocol, EncodeAs, LOGIN
<1>3. ReadPayload(m, camCtx, bins) \in {"media", "head"}
    BY <1>1, <1>2 DEF ReadPayload, BinaryKinds, decrypt
<1>4. decrypt(camCtx, m.ext) = "ext"
    BY <1>1 DEF decrypt
<1> QED
    BY <1>1, <1>3, <1>4 DEF deserialize, Malformed, is_modern

\* A broken frame is found to be one under any protocol.
LEMMA NoiseReads ==
    ASSUME NEW m, IsMessage(m), m.id # 1, m.class = "0000",
           m.payload = Part("error", camCtx),
           m.frame \in {"badMagic", "bodyTooLong", "offsetPastBody"}
    PROVE  ReadsBack(m)
<1>1. m.payload.kind = "error"
    BY DEF Part
<1> QED
    BY <1>1 DEF ReadsBack, deserialize, Malformed, is_modern

\* The session's protocol stays and one more message that reads back is on its way.
LEMMA SessionKept ==
    ASSUME CodecInv, step = "in", UNCHANGED <<step, nextNum, camCtx, ctx, read>>, camRead',
           NEW m, ReadsBack(m), toClient' = Append(toClient, m),
           toCam' \in Seq(InWire(toCam')), InWire(toCam') \subseteq InWire(toCam)
    PROVE  CodecInv'
<1>1. toClient' \in Seq(InWire(toClient')) /\ InWire(toClient') = InWire(toClient) \cup {m}
    BY ElementsAppend DEF CodecInv
<1>2. ctx = camCtx /\ RequestsInv /\ \A n \in InWire(toClient) : ReadsBack(n)
    BY DEF CodecInv, StepInv
<1>3. \A n \in InWire(toClient') : ReadsBack(n)'
    BY <1>1, <1>2 DEF ReadsBack, IsMessage
<1>4. RequestsInv'
  <2>1. \A n \in InWire(toCam') : n.id \in {80, 3} /\ n.payload = Part("xml", camCtx)
      BY <1>2 DEF RequestsInv
  <2> QED
      BY <2>1 DEF RequestsInv, InWire, Part
<1>5. StepInv'
    BY <1>2, <1>3, <1>4 DEF StepInv, InWire
<1>6. CodecAgrees'
    BY DEF CodecInv, CodecAgrees
<1> QED
    BY <1>1, <1>5, <1>6 DEF CodecInv, InWire

\* The fields of a message the camera sends.
Sent(id, num, code, class, ext, binary, encLen, payload, m) ==
    /\ IsMessage(m) /\ m.id = id /\ m.num = num /\ m.code = code /\ m.class = class
    /\ m.ext = ext /\ m.binary = binary /\ m.encLen = encLen /\ m.payload = payload
Framed(id, num, code, class, ext, binary, encLen, payload, v) ==
    [Msg(id, num, code, class, ext, binary, encLen, payload) EXCEPT !.frame = v]
IsFramed(id, num, code, class, ext, binary, encLen, payload, v, m) ==
    Sent(id, num, code, class, ext, binary, encLen, payload, m) /\ m.frame = v

\* The fields of a message with frame v.
LEMMA FramedFields ==
    ASSUME NEW id, NEW num, NEW code, NEW class, NEW ext, NEW binary, NEW encLen, NEW payload,
           NEW v
    PROVE  IsFramed(id, num, code, class, ext, binary, encLen, payload, v,
             Framed(id, num, code, class, ext, binary, encLen, payload, v))
<1>1. PICK m : m = Framed(id, num, code, class, ext, binary, encLen, payload, v)
    OBVIOUS
<1>2. m = [id |-> id, num |-> num, code |-> code, class |-> class, ext |-> ext,
           binary |-> binary, encLen |-> encLen, payload |-> payload, cut |-> FALSE,
           frame |-> v]
    BY <1>1 DEF Framed, Msg
<1>3. IsFramed(id, num, code, class, ext, binary, encLen, payload, v, m)
    BY ONLY <1>2 DEF IsFramed, Sent, IsMessage
<1> QED
    BY <1>1, <1>3
Cut(id, num, code, class, ext, binary, encLen, payload, v) ==
    [Msg(id, num, code, class, ext, binary, encLen, payload) EXCEPT !.cut = v]
IsCut(id, num, code, class, ext, binary, encLen, payload, v, m) ==
    Sent(id, num, code, class, ext, binary, encLen, payload, m) /\ m.frame = "good" /\ m.cut = v

\* The fields of a message that comes in two parts, or does not.
LEMMA CutFields ==
    ASSUME NEW id, NEW num, NEW code, NEW class, NEW ext, NEW binary, NEW encLen, NEW payload,
           NEW v
    PROVE  IsCut(id, num, code, class, ext, binary, encLen, payload, v,
             Cut(id, num, code, class, ext, binary, encLen, payload, v))
<1>1. PICK m : m = Cut(id, num, code, class, ext, binary, encLen, payload, v)
    OBVIOUS
<1>2. m = [id |-> id, num |-> num, code |-> code, class |-> class, ext |-> ext,
           binary |-> binary, encLen |-> encLen, payload |-> payload, cut |-> v,
           frame |-> "good"]
    BY <1>1 DEF Cut, Msg
<1>3. IsCut(id, num, code, class, ext, binary, encLen, payload, v, m)
    BY ONLY <1>2 DEF IsCut, Sent, IsMessage
<1> QED
    BY <1>1, <1>3

\* The camera sends an event, or bytes that are no message.
LEMMA EventKept == ASSUME CodecInv, CameraEvent PROVE CodecInv'
<1> DEFINE p(f) == Part(IF f = "good" THEN "xml" ELSE "error", camCtx)
<1>1. PICK f \in {"good", "badMagic", "bodyTooLong", "offsetPastBody"} :
        toClient' = Append(toClient, Framed(33, 0, "200", "0000", NoPart, "none", "none",
                                            p(f), f))
    BY DEF CameraEvent, EVENT, Framed
<1> DEFINE m == Framed(33, 0, "200", "0000", NoPart, "none", "none", p(f), f)
<1> HIDE DEF p
<1>2. Sent(33, 0, "200", "0000", NoPart, "none", "none", p(f), m) /\ m.frame = f
  <2>1. IsFramed(33, 0, "200", "0000", NoPart, "none", "none", p(f), f, m)
      BY FramedFields
  <2> QED
      BY <2>1 DEF IsFramed
<1>3. toClient' = Append(toClient, m)
    BY <1>1
<1>6. /\ CodecInv /\ step = "in" /\ UNCHANGED <<step, nextNum, camCtx, ctx, read>> /\ camRead'
      /\ toCam' \in Seq(InWire(toCam')) /\ InWire(toCam') \subseteq InWire(toCam)
    BY DEF CodecInv, CodecAgrees, CameraEvent
<1> HIDE DEF m
<1>4. CASE f = "good"
  <2>1. p(f) = Part("xml", camCtx)
      BY <1>4 DEF p
  <2>2. ReadsBack(m)
      BY <1>2, <1>4, <2>1, XmlReads DEF Sent
  <2> QED
      BY <1>3, <1>6, <2>2, SessionKept
<1>5. CASE f # "good"
  <2>1. p(f) = Part("error", camCtx)
      BY <1>5 DEF p
  <2>2. /\ IsMessage(m) /\ m.id # 1 /\ m.class = "0000"
        /\ m.payload = Part("error", camCtx)
    <3>1. IsMessage(m) /\ m.class = "0000" /\ m.payload = p(f) /\ m.id = 33
        BY <1>2 DEF Sent
    <3>2. m.id # 1
        BY <3>1
    <3> QED
        BY <2>1, <3>1, <3>2
  <2>4. m.frame \in {"badMagic", "bodyTooLong", "offsetPastBody"}
      BY <1>1, <1>2, <1>5
  <2>3. ReadsBack(m)
      BY <2>2, <2>4, NoiseReads
  <2> QED
      BY <1>3, <1>6, <2>3, SessionKept
<1> QED
    BY <1>4, <1>5

\* The replies to a login read as what they are.
LEMMA OfferReads ==
    ASSUME NEW m, m.id = 1, m.code \in {"dd00", "dd01", "dd02", "dd12", "dd99"},
           m.class = "6614", m.ext = NoPart, m.binary = "none", m.frame = "good",
           m.payload = Part("Encryption", IF m.code = "dd00" THEN Unencrypted
                                                ELSE BCEncrypt),
           NEW c, NEW bins, m.num \notin bins
    PROVE  deserialize(m, c, bins) = "Encryption" /\ m.payload.kind = "Encryption"
<1>1. /\ m.payload.kind = "Encryption" /\ m.payload # NoPart
      /\ m.payload.under = IF m.code = "dd00" THEN Unencrypted ELSE BCEncrypt
    BY DEF Part, NoPart
<1>2. decrypt(PayloadProtocol(m, c), m.payload) = "Encryption"
    BY <1>1 DEF decrypt, PayloadProtocol, LOGIN
<1>3. ReadPayload(m, c, bins) = "Encryption"
    BY <1>2 DEF ReadPayload, BinaryKinds
<1> QED
    BY <1>1, <1>3 DEF deserialize, Malformed, is_modern

\* A legacy offer reads as one.
LEMMA LegacyReads ==
    ASSUME NEW m, m.class = "6514", m.frame = "good", NEW c, NEW bins
    PROVE  deserialize(m, c, bins) = "legacy"
BY DEF deserialize, Malformed, is_modern

\* A refusal without a body reads as nothing.
LEMMA RefusalReads ==
    ASSUME NEW m, m.class = "6414", m.frame = "good", m.ext = NoPart,
           m.payload = NoPart, NEW c, NEW bins
    PROVE  deserialize(m, c, bins) = "none" /\ m.payload.kind = "none"
<1>1. deserialize(m, c, bins) = "none"
    BY DEF deserialize, Malformed, is_modern
<1>2. m.payload.kind = "none"
    BY DEF NoPart, Part
<1> QED
    BY <1>1, <1>2

\* A challenge is in the clear behind an encrypted extension, and reads so.
LEMMA ChallengeReads ==
    ASSUME NEW m, m.class = "6414", m.frame = "good", m.binary = "1", m.encLen = "none",
           NEW c, NEW bins, m.ext = Part("ext", c),
           m.payload = Part("challenge", Unencrypted)
    PROVE  deserialize(m, c, bins) = "challenge" /\ m.payload.kind = "challenge"
<1>1. /\ m.payload.kind = "challenge" /\ m.payload # NoPart
      /\ m.payload.under = Unencrypted
      /\ m.ext.kind = "ext" /\ m.ext.under = c
    BY DEF Part, NoPart
<1>2. /\ decrypt(Unencrypted, m.payload) = "challenge"
      /\ decrypt(c, m.ext) = "ext"
    BY <1>1 DEF decrypt
<1>3. ReadPayload(m, c, bins) = "challenge"
    BY <1>2 DEF ReadPayload, BinaryKinds
<1> QED
    BY <1>1, <1>2, <1>3 DEF deserialize, Malformed, is_modern

\* The DeviceInfo of a login under a number used for binaries is bytes, and ends the login.
LEMMA DeviceReads ==
    ASSUME NEW m, m.id = 1, m.code = "200", m.class = "6414", m.frame = "good",
           m.binary \in {"none", "0"}, m.encLen = "none", NEW c, NEW bins,
           m.ext \in {NoPart, Part("ext", c)},
           m.payload = Part("DeviceInfo", EncodeAs(1, c))
    PROVE  /\ m.payload.kind = "DeviceInfo"
           /\ deserialize(m, c, bins) = IF m.num \in bins THEN "bytes" ELSE "DeviceInfo"
<1>1. /\ m.payload.kind = "DeviceInfo" /\ m.payload # NoPart
      /\ m.payload.under = EncodeAs(1, c)
      /\ m.ext = NoPart \/ (m.ext.kind = "ext" /\ m.ext.under = c)
    BY DEF Part, NoPart
<1>2. /\ decrypt(PayloadProtocol(m, c), m.payload) = "DeviceInfo"
      /\ decrypt(Unencrypted, m.payload) \in {"DeviceInfo", "garbage"}
      /\ m.ext = NoPart \/ decrypt(c, m.ext) = "ext"
    BY <1>1 DEF decrypt, PayloadProtocol, LOGIN
<1>3. ReadPayload(m, c, bins) = IF m.num \in bins THEN "bytes" ELSE "DeviceInfo"
    BY <1>2 DEF ReadPayload, BinaryKinds
<1> QED
    BY <1>1, <1>2, <1>3 DEF deserialize, Malformed, is_modern

\* The reply to a login is the one message on its way when it is read.
ExtOf(b) == IF b # "none" THEN Part("ext", camCtx) ELSE NoPart
IsReply(code, class, b, part, m) ==
    /\ m.id = 1 /\ m.num = nextNum - 1 /\ m.code = code /\ m.class = class /\ m.ext = ExtOf(b)
    /\ m.binary = b /\ m.encLen = "none" /\ m.payload = part /\ m.frame = "good"

\* Receive takes the one reply on the wire and moves the login on by it.
LEMMA ReplyTaken ==
    ASSUME Receive, NEW code, NEW class, NEW b, NEW part, Replied(code, class, b, part)
    PROVE  \E m : /\ IsReply(code, class, b, part, m)
                  /\ Decode(m) /\ step' = AfterLogin(m)
                  /\ toClient' = <<>> /\ toCam' = <<>>
<1>1. PICK cut \in BOOLEAN : toClient = <<Reply(code, class, b, part, cut)>>
    BY DEF Replied
<1>2. PICK m : m = Reply(code, class, b, part, cut)
    OBVIOUS
<1>3. toClient = <<m>>
    BY <1>1, <1>2
<1>4. Head(toClient) = m /\ Tail(toClient) = <<>>
    BY <1>3, ElementsOf
<1>5. /\ Decode(Head(toClient)) /\ step' = AfterLogin(Head(toClient))
      /\ toClient' = Tail(toClient) /\ toCam' = toCam
    BY DEF Receive
<1>6. toClient' = <<>> /\ toCam' = <<>>
    BY <1>4, <1>5 DEF Replied
<1>7. m = Cut(1, nextNum - 1, code, class, ExtOf(b), b, "none", part, cut)
    BY <1>2 DEF Reply, Cut, ExtOf
<1>8. IsCut(1, nextNum - 1, code, class, ExtOf(b), b, "none", part, cut, m)
    BY <1>7, CutFields
<1>9. IsReply(code, class, b, part, m)
    BY <1>8 DEF IsCut, Sent, IsReply
<1> QED
    BY <1>4, <1>5, <1>6, <1>9

\* A reply that no signed login waits for changes the protocol only when it offers one.
LEMMA ReplyDecoded ==
    ASSUME CodecInv, pending = 0, step \in {"offer", "challenge", "device"},
           NEW m, m.id = 1, m.num = nextNum - 1, Decode(m),
           NEW body, body = deserialize(m, ctx, binMode)
    PROVE  /\ pending' = 0
           /\ body # "Encryption" => ctx' = ctx /\ read'.as = body
           /\ read'.sent = m.payload.kind /\ read'.code = m.code
           /\ read'.reused = (m.num \in binMode)
<1>1. ~Armed(m)
  <2>1. nextNum \in Nat \ {0, 1}
      BY DEF CodecInv
  <2>2. nextNum - 1 # 0
      BY ONLY <2>1
  <2> QED
      BY <2>2 DEF Armed
<1>2. pending' = 0
    BY <1>1 DEF Decode
<1>3. body # "Encryption" => ctx' = ctx
    BY <1>1 DEF Decode, Negotiated
<1>4. /\ body # "Encryption" => read'.as = body
      /\ read'.sent = m.payload.kind /\ read'.code = m.code /\ read'.reused = (m.num \in binMode)
    BY DEF Decode
<1> QED
    BY <1>2, <1>3, <1>4

\* The login goes on, or ends, with nothing on its way.
LEMMA LoginMoved ==
    ASSUME CodecInv, step \in {"offer", "challenge", "device"}, Receive,
           toClient' = <<>>, toCam' = <<>>, CodecAgrees',
           \/ step' \in {"broken", "failed"}
           \/ step' = "modern" /\ ctx' = camCtx /\ pending' = 0 /\ binMode' = {}
           \/ step' = "answer" /\ ctx' = camCtx /\ pending' = 0
           \/ step' = "in" /\ ctx' = camCtx
    PROVE  CodecInv'
<1>1. UNCHANGED <<flow, nextNum, camCtx>>
    BY DEF Receive
<1>2. /\ toCam' \in Seq(InWire(toCam')) /\ toClient' \in Seq(InWire(toClient'))
      /\ InWire(toCam') = {} /\ InWire(toClient') = {}
    BY ElementsOf
<1>3. RequestsInv'
    BY <1>2 DEF RequestsInv, InWire
<1>4. StepInv'
    BY <1>1, <1>2, <1>3 DEF StepInv, Quiet, InWire
<1> QED
    BY <1>1, <1>2, <1>4 DEF CodecInv, InWire

\* The answer to an offer of encryption sets the protocol of both ends.
LEMMA OfferTaken == ASSUME CodecInv, Receive, step = "offer" PROVE CodecInv'
<1>1. /\ ctx = Unencrypted /\ pending = 0 /\ binMode = {} /\ OfferInv /\ camRead' = camRead
      /\ toClient # <<>> /\ camRead
    BY DEF CodecInv, StepInv, OfferInv, Receive, CodecAgrees
<1>2. CASE Replied("200", "6514", "none", NoPart)
  <2>1. PICK m : /\ IsReply("200", "6514", "none", NoPart, m)
                 /\ Decode(m) /\ step' = AfterLogin(m)
                 /\ toClient' = <<>> /\ toCam' = <<>>
      BY <1>2, ReplyTaken
  <2>2. deserialize(m, ctx, binMode) = "legacy"
      BY <2>1, LegacyReads DEF IsReply
  <2>3. read'.as = "legacy"
      BY <1>1, <2>1, <2>2, ReplyDecoded DEF IsReply
  <2>4. step' = "failed"
      BY <2>1, <2>3 DEF AfterLogin
  <2>5. CodecAgrees'
      BY <1>1, <2>3 DEF CodecAgrees
  <2> QED
      BY <2>1, <2>4, <2>5, LoginMoved
<1>3. ASSUME NEW l \in Levels, camCtx = CamProtocol(l),
             Replied(l, "6614", "none", Part("Encryption",
                       IF l = "dd00" THEN Unencrypted ELSE BCEncrypt))
      PROVE  CodecInv'
  <2>1. PICK m : /\ IsReply(l, "6614", "none", Part("Encryption",
                              IF l = "dd00" THEN Unencrypted ELSE BCEncrypt), m)
                 /\ Decode(m) /\ step' = AfterLogin(m)
                 /\ toClient' = <<>> /\ toCam' = <<>>
      BY <1>3, ReplyTaken
  <2>2. l \in {"dd00", "dd01", "dd02", "dd12", "dd99"} /\ m.code = l /\ m.id = 1
      BY <2>1, CodecAssumption DEF IsReply
  <2>3. deserialize(m, ctx, binMode) = "Encryption" /\ m.payload.kind = "Encryption"
    <3>1. /\ m.class = "6614" /\ m.ext = NoPart /\ m.binary = "none" /\ m.frame = "good"
          /\ m.num \notin binMode
        BY <1>1, <2>1 DEF IsReply, ExtOf
    <3>2. m.payload = Part("Encryption", IF m.code = "dd00" THEN Unencrypted
                                               ELSE BCEncrypt)
        BY <2>1, <2>2 DEF IsReply
    <3> QED
        BY <2>2, <3>1, <3>2, OfferReads
  <2>4. /\ pending' = 0 /\ read'.sent = "Encryption" /\ read'.code = l
      BY <1>1, <2>1, <2>3, ReplyDecoded DEF IsReply
  <2>5. /\ read'.as = IF l = "dd99" THEN "error" ELSE "Encryption"
        /\ binMode' = {}
    <3>1. m.binary = "none"
        BY <2>1 DEF IsReply
    <3> QED
        BY <1>1, <2>1, <2>2, <2>3, <3>1 DEF Decode, LOGIN
  <2>6. l # "dd99" => ctx' = camCtx
      BY <1>1, <1>3, <2>1, <2>2, <2>3
         DEF Decode, Negotiated, LOGIN, CamProtocol
  <2>7. step' = IF l = "dd99" THEN "broken" ELSE "modern"
      BY <2>1, <2>5 DEF AfterLogin
  <2>8. CodecAgrees'
      BY <1>1, <2>4, <2>5 DEF CodecAgrees
  <2> QED
      BY <2>1, <2>4, <2>5, <2>6, <2>7, <2>8, LoginMoved
<1> QED
    BY <1>1, <1>2, <1>3 DEF OfferInv, LoginAsked

\* A challenge leaves the protocol as it is.
LEMMA ChallengeTaken == ASSUME CodecInv, Receive, step = "challenge" PROVE CodecInv'
<1>1. /\ ctx = camCtx /\ pending = 0 /\ ChallengeInv /\ camRead' = camRead /\ toClient # <<>>
      /\ camRead
    BY DEF CodecInv, StepInv, ChallengeInv, Receive, CodecAgrees
<1>2. PICK m : /\ IsReply("200", "6414", "1", Part("challenge", Unencrypted), m)
               /\ Decode(m) /\ step' = AfterLogin(m)
               /\ toClient' = <<>> /\ toCam' = <<>>
    BY <1>1, ReplyTaken DEF ChallengeInv, LoginAsked
<1>3. deserialize(m, ctx, binMode) = "challenge" /\ m.payload.kind = "challenge"
    BY <1>1, <1>2, ChallengeReads DEF IsReply, ExtOf
<1>4. read'.as = "challenge" /\ read'.sent = "challenge" /\ pending' = 0 /\ ctx' = ctx
    BY <1>1, <1>2, <1>3, ReplyDecoded DEF IsReply
<1>5. step' = "answer"
    BY <1>2, <1>4 DEF AfterLogin
<1>6. CodecAgrees'
    BY <1>1, <1>4 DEF CodecAgrees
<1> QED
    BY <1>1, <1>2, <1>4, <1>5, <1>6, LoginMoved

\* A refused login, signed or not, ends with the refusal read.
LEMMA RefusalTaken ==
    ASSUME CodecInv, Receive, step = "device", Replied("406", "6414", "none", NoPart)
    PROVE  CodecInv'
<1>1. PICK m : /\ IsReply("406", "6414", "none", NoPart, m)
               /\ Decode(m) /\ step' = AfterLogin(m)
               /\ toClient' = <<>> /\ toCam' = <<>>
    BY ReplyTaken
<1>2. deserialize(m, ctx, binMode) = "none" /\ m.payload.kind = "none" /\ m.code = "406"
    BY <1>1, RefusalReads DEF IsReply, ExtOf
<1>3. read'.as = "none" /\ read'.sent = "none"
    BY <1>1, <1>2 DEF Decode
<1>4. step' = "failed"
    BY <1>1, <1>2, <1>3 DEF AfterLogin
<1>5. CodecAgrees'
    BY <1>3 DEF CodecAgrees, CodecInv, Receive
<1> QED
    BY <1>1, <1>4, <1>5, LoginMoved

\* The answer to the login arms or drops the key of the session.
LEMMA DeviceTaken == ASSUME CodecInv, Receive, step = "device" PROVE CodecInv'
<1>1. DeviceInv /\ camRead' = camRead /\ toClient # <<>> /\ camRead
    BY DEF CodecInv, StepInv, Receive, CodecAgrees
<1>2. ASSUME ctx = camCtx, pending = 0, NEW b \in {"none", "0"},
             Replied("200", "6414", b, Device(EncodeAs(1, ctx)))
      PROVE  CodecInv'
  <2>1. PICK m : /\ IsReply("200", "6414", b, Device(EncodeAs(1, ctx)), m)
                 /\ Decode(m) /\ step' = AfterLogin(m)
                 /\ toClient' = <<>> /\ toCam' = <<>>
      BY <1>2, ReplyTaken
  <2>2. /\ m.payload.kind = "DeviceInfo" /\ m.code = "200"
        /\ deserialize(m, ctx, binMode) = IF m.num \in binMode THEN "bytes"
                                                ELSE "DeviceInfo"
      BY <1>2, <2>1, DeviceReads DEF IsReply, ExtOf, Device
  <2>3. /\ read'.as = IF m.num \in binMode THEN "bytes" ELSE "DeviceInfo"
        /\ read'.sent = "DeviceInfo" /\ ctx' = ctx
        /\ read'.reused = (m.num \in binMode)
      BY <1>2, <2>1, <2>2, ReplyDecoded DEF IsReply
  <2>4. step' = IF m.num \in binMode THEN "failed" ELSE "in"
      BY <2>1, <2>2, <2>3 DEF AfterLogin
  <2>5. CodecAgrees'
      BY <1>1, <2>3 DEF CodecAgrees
  <2> QED
      BY <1>2, <2>1, <2>3, <2>4, <2>5, LoginMoved
<1>3. ASSUME ctx = BCEncrypt, pending = nextNum - 1, binMode = {},
             camCtx = full_aes(SessionKey),
             Replied("200", "6414", "none", Device(BCEncrypt))
      PROVE  CodecInv'
  <2>1. PICK m : /\ IsReply("200", "6414", "none", Device(BCEncrypt), m)
                 /\ Decode(m) /\ step' = AfterLogin(m)
                 /\ toClient' = <<>> /\ toCam' = <<>>
      BY <1>3, ReplyTaken
  <2>2. EncodeAs(1, ctx) = BCEncrypt
      BY <1>3 DEF EncodeAs, IsAes, BCEncrypt
  <2>3. /\ m.payload.kind = "DeviceInfo" /\ m.code = "200"
        /\ deserialize(m, ctx, binMode) = "DeviceInfo"
      BY <1>3, <2>1, <2>2, DeviceReads DEF IsReply, ExtOf, Device
  <2>4. read'.as = "DeviceInfo" /\ read'.sent = "DeviceInfo"
      BY <2>1, <2>3 DEF Decode
  <2>5. Armed(m)
      BY <1>3, <2>1 DEF Armed, IsReply, LOGIN
  <2>6. ctx' = camCtx
      BY <1>3, <2>1, <2>3, <2>5 DEF Decode, Negotiated
  <2>7. step' = "in"
      BY <2>1, <2>3, <2>4 DEF AfterLogin
  <2>8. CodecAgrees'
      BY <1>1, <2>4 DEF CodecAgrees
  <2> QED
      BY <2>1, <2>6, <2>7, <2>8, LoginMoved
<1> QED
    BY <1>1, <1>2, <1>3, RefusalTaken DEF DeviceInv, LoginAsked

\* A message of the session: the protocol stays, and one that cannot be read ends it.
LEMMA SessionTaken == ASSUME CodecInv, Receive, step = "in" PROVE CodecInv'
<1> DEFINE m == Head(toClient)
           body == deserialize(m, ctx, binMode)
<1>1. /\ ctx = camCtx /\ RequestsInv /\ camRead /\ toClient \in Seq(InWire(toClient))
      /\ \A n \in InWire(toClient) : ReadsBack(n)
    BY DEF CodecInv, StepInv, CodecAgrees
<1>2. /\ toClient # <<>> /\ Decode(m) /\ step' = AfterLogin(m)
      /\ toClient' = Tail(toClient)
      /\ UNCHANGED <<flow, nextNum, toCam, camCtx, camRead>>
    BY DEF Receive
<1>3. /\ toClient' \in Seq(InWire(toClient')) /\ m \in InWire(toClient)
      /\ InWire(toClient') \subseteq InWire(toClient)
    BY <1>1, <1>2, ElementsTail
<1>4. /\ m.id # 1
      /\ \/ m.num \in binMode \/ body = m.payload.kind
         \/ m.payload.kind = "media" /\ body = "head"
    BY <1>1, <1>3 DEF ReadsBack
<1> HIDE DEF m
<1>5. ctx' = ctx
    BY <1>2, <1>4 DEF Decode, Negotiated, Armed, LOGIN
<1>6. read'.sent = m.payload.kind /\ read'.as = body /\ read'.reused = (m.num \in binMode)
    BY <1>2, <1>4 DEF Decode, LOGIN
<1>7. step' \in {"in", "broken"}
    BY <1>2 DEF AfterLogin
<1>8. CodecAgrees'
    BY <1>1, <1>2, <1>4, <1>6 DEF CodecAgrees
<1>9. \A n \in InWire(toClient') : ReadsBack(n)'
    BY <1>1, <1>2, <1>3 DEF ReadsBack, IsMessage
<1>10. RequestsInv'
    BY <1>1, <1>2 DEF RequestsInv, InWire, Part
<1>11. StepInv'
    BY <1>1, <1>2, <1>5, <1>7, <1>9, <1>10 DEF StepInv, InWire
<1> QED
    BY <1>2, <1>3, <1>7, <1>8, <1>11 DEF CodecInv, InWire

\* A login in flight receives at three steps, a session at any time.
LEMMA ReceiveKept == ASSUME CodecInv, Receive PROVE CodecInv'
<1>1. step \notin {"upgrade", "sign", "modern", "answer", "broken", "failed"}
    BY DEF CodecInv, StepInv, Quiet, Receive
<1> QED
    BY <1>1, OfferTaken, ChallengeTaken, DeviceTaken, SessionTaken DEF CodecInv

\* What the camera makes of a request: it can read it or not, one reply goes out, and its
\* protocol changes with the reply.
PayloadOf(m, a, len) ==
    IF a.body = "none" THEN NoPart ELSE Part(a.body, PayloadUnder(m, a, len))
Answered(m, a, len, cut) ==
    /\ a \in Answers(m) /\ len \in EncryptLens(a)
    /\ camRead' = (m.payload.kind = "none" \/ m.payload.under = CamExpects(m))
    /\ toClient' = Append(toClient, Cut(m.id, m.num, a.code, a.class, ExtOf(a.binary), a.binary,
                                        len, PayloadOf(m, a, len), cut))
    /\ a.body = "Encryption" => camCtx' = CamProtocol(a.code)
    /\ a.body # "Encryption" =>
         camCtx' = IF m.payload.kind = "SignedLoginUser" /\ a.code = "200"
                   THEN full_aes(SessionKey) ELSE camCtx

\* The step of the camera answers the request at the head of the wire.
LEMMA CameraAnswers ==
    ASSUME Camera
    PROVE  \E a, len : \E cut \in BOOLEAN : Answered(Head(toCam), a, len, cut)
<1> DEFINE m == Head(toCam)
<1>1. PICK a \in Answers(m), cut \in BOOLEAN : \E len \in EncryptLens(a) :
         /\ camRead' = (m.payload.kind = "none" \/ m.payload.under = CamExpects(m))
         /\ toClient' = Append(toClient, Cut(m.id, m.num, a.code, a.class, ExtOf(a.binary),
                                             a.binary, len, PayloadOf(m, a, len), cut))
         /\ camCtx' = IF a.body = "Encryption" THEN CamProtocol(a.code)
                      ELSE IF m.payload.kind = "SignedLoginUser" /\ a.code = "200"
                      THEN full_aes(SessionKey) ELSE camCtx
    BY DEF Camera, Cut, ExtOf, PayloadOf
<1> HIDE DEF m
<1>2. \E len : Answered(m, a, len, cut)
    BY <1>1 DEF Answered
<1> QED
    BY <1>2 DEF m

\* A camera in the session answers under the session's protocol, whatever became of the client.
LEMMA SessionAnswered ==
    ASSUME CodecInv, Camera, step \in {"in", "broken", "failed"}
    PROVE  CodecInv'
<1> DEFINE q == Head(toCam)
<1>1. /\ toCam # <<>> /\ toCam' = Tail(toCam)
      /\ UNCHANGED <<ctx, pending, binMode, flow, step, nextNum, read>>
    BY DEF Camera
<1>2. PICK a, len : \E cut \in BOOLEAN : Answered(q, a, len, cut)
    BY CameraAnswers
<1>3. PICK cut \in BOOLEAN : Answered(q, a, len, cut)
    BY <1>2
<1>4. /\ toCam' \in Seq(InWire(toCam')) /\ q \in InWire(toCam)
      /\ InWire(toCam') \subseteq InWire(toCam)
    BY <1>1, ElementsTail DEF CodecInv
<1>5. q.id \in {80, 3} /\ q.payload = Part("xml", camCtx) /\ RequestsInv
    BY <1>4 DEF CodecInv, StepInv, RequestsInv
<1> HIDE DEF q
<1>6. q.payload.kind = "xml" /\ q.payload.under = camCtx
    BY <1>5 DEF Part
<1>7. camRead'
  <2>1. q.id # 1
      BY <1>5
  <2>2. CamExpects(q) = camCtx
      BY <2>1 DEF CamExpects, LOGIN
  <2>3. camRead' = (q.payload.kind = "none" \/ q.payload.under = CamExpects(q))
      BY <1>3 DEF Answered
  <2>4. q.payload.under = CamExpects(q)
      BY <1>6, <2>2
  <2> QED
      BY ONLY <2>3, <2>4
<1>8. \/ a = [code |-> "200", body |-> "media", class |-> "0000", binary |-> "1"]
      \/ a = [code |-> "200", body |-> "xml", class |-> "0000", binary |-> "none"]
  <2>1. a \in Answers(q)
      BY <1>3 DEF Answered
  <2>2. Answers(q) \in
          {{[code |-> "200", body |-> "media", class |-> "0000", binary |-> "1"]},
           {[code |-> "200", body |-> "xml", class |-> "0000", binary |-> "none"]}}
      BY <1>5, <1>6 DEF Answers, VIDEO
  <2> QED
      BY <2>1, <2>2
<1>9. /\ a.code = "200" /\ a.class = "0000"
      /\ (a.body = "media" /\ a.binary = "1") \/ (a.body = "xml" /\ a.binary = "none")
    BY <1>8
<1>10. camCtx' = camCtx
    BY <1>3, <1>6, <1>9 DEF Answered
<1>11. PICK m : m = Cut(q.id, q.num, a.code, a.class, ExtOf(a.binary), a.binary, len,
                        PayloadOf(q, a, len), cut)
    OBVIOUS
<1>12. toClient' = Append(toClient, m)
    BY <1>3, <1>11 DEF Answered
<1>13. /\ IsMessage(m) /\ m.id = q.id /\ m.class = "0000" /\ m.ext = ExtOf(a.binary)
       /\ m.binary = a.binary /\ m.encLen = len /\ m.payload = PayloadOf(q, a, len)
       /\ m.frame = "good"
  <2>1. IsCut(q.id, q.num, a.code, a.class, ExtOf(a.binary), a.binary, len,
              PayloadOf(q, a, len), cut, m)
      BY <1>11, CutFields
  <2> QED
      BY <1>9, <2>1 DEF IsCut, Sent
<1>14. ReadsBack(m)
  <2>1. m.id # 1
      BY <1>5, <1>13
  <2>2. CASE a.body = "media" /\ a.binary = "1"
    <3>1. PayloadOf(q, a, len) = Part("media", IF len = "none" THEN Unencrypted ELSE camCtx)
        BY <2>2 DEF PayloadOf, PayloadUnder
    <3>2. len \in IF camCtx.mode = "FullAes" THEN {"none", "whole", "part"} ELSE {"none"}
        BY <1>3, <2>2 DEF Answered, EncryptLens
    <3> QED
        BY <1>13, <2>1, <2>2, <3>1, <3>2, MediaReads DEF ExtOf
  <2>3. CASE a.body = "xml" /\ a.binary = "none"
    <3>1. PayloadOf(q, a, len) = Part("xml", camCtx)
        BY <1>5, <2>3 DEF PayloadOf, PayloadUnder, LOGIN
    <3> QED
        BY <1>13, <2>1, <2>3, <3>1, XmlReads DEF ExtOf
  <2> QED
      BY <1>9, <2>2, <2>3
<1>15. CASE step = "in"
    BY <1>1, <1>4, <1>7, <1>10, <1>12, <1>14, <1>15, SessionKept
<1>16. CASE step # "in"
  <2>1. toClient' \in Seq(InWire(toClient'))
      BY <1>12, ElementsAppend DEF CodecInv
  <2>2. \A n \in InWire(toCam') : n.id \in {80, 3} /\ n.payload = Part("xml", camCtx)
      BY <1>4, <1>5 DEF RequestsInv
  <2>3. RequestsInv'
      BY <1>10, <2>2 DEF RequestsInv, InWire, Part
  <2>4. StepInv'
      BY <1>1, <1>16, <2>3 DEF StepInv
  <2>5. CodecAgrees'
      BY <1>1, <1>7 DEF CodecInv, CodecAgrees
  <2> QED
      BY <1>1, <1>4, <2>1, <2>4, <2>5 DEF CodecInv, InWire
<1> QED
    BY <1>15, <1>16

\* The camera answers the one login request on its way.
LEMMA LoginAnswered ==
    ASSUME Camera, NEW kind, NEW class, NEW p, LoginAsked(kind, class, p)
    PROVE  \E q, a, len : \E cut \in BOOLEAN :
             /\ Answered(q, a, len, cut) /\ q.id = 1 /\ q.payload.kind = kind /\ q.payload.under = p
             /\ toCam' = <<>>
             /\ toClient' = <<Cut(1, nextNum - 1, a.code, a.class, ExtOf(a.binary), a.binary,
                                  len, PayloadOf(q, a, len), cut)>>
<1>1. PICK q : q = LoginRequest(kind, class, p)
    OBVIOUS
<1>2. toCam = <<q>> /\ toClient = <<>>
    BY <1>1 DEF LoginAsked
<1>3. Head(toCam) = q /\ toCam' = <<>>
    BY <1>2, ElementsOf DEF Camera
<1>4. q.id = 1 /\ q.num = nextNum - 1 /\ q.payload = Part(kind, p)
    BY <1>1 DEF LoginRequest, serialize, Msg
<1>5. q.payload.kind = kind /\ q.payload.under = p
    BY <1>4 DEF Part
<1>6. PICK a, len : \E cut \in BOOLEAN : Answered(q, a, len, cut)
    BY <1>3, CameraAnswers
<1>7. PICK cut \in BOOLEAN : Answered(q, a, len, cut)
    BY <1>6
<1>8. PICK m : m = Cut(1, nextNum - 1, a.code, a.class, ExtOf(a.binary), a.binary,
                       len, PayloadOf(q, a, len), cut)
    OBVIOUS
<1>9. toClient' = Append(toClient, m)
    BY <1>4, <1>7, <1>8 DEF Answered
<1>10. toClient' = <<m>>
    BY <1>2, <1>9, ElementsOf
<1> QED
    BY <1>3, <1>4, <1>5, <1>7, <1>8, <1>10

\* The answer is the only one on the wire, under the number of the request.
LEMMA RepliedNext ==
    ASSUME UNCHANGED nextNum, toCam' = <<>>, NEW cut \in BOOLEAN,
           NEW code, NEW class, NEW b, NEW part, b = "none" \/ camCtx' = camCtx,
           toClient' = <<Cut(1, nextNum - 1, code, class, ExtOf(b), b, "none", part, cut)>>
    PROVE  Replied(code, class, b, part)'
<1>1. PICK e : e = ExtOf(b)
    OBVIOUS
<1>2. e = ExtOf(b)'
    BY <1>1 DEF ExtOf, Part, NoPart, Unencrypted
<1>3. Reply(code, class, b, part, cut)' = Cut(1, nextNum - 1, code, class, e, b, "none", part, cut)
    BY <1>2 DEF Reply, Cut, ExtOf, Msg
<1>4. toClient' = <<Reply(code, class, b, part, cut)'>>
    BY <1>1, <1>3
<1> QED
    BY <1>4 DEF Replied

\* The login's answers keep the invariant of the step that waits for them.
LEMMA AnswerKept ==
    ASSUME CodecInv, Camera, step \in {"offer", "challenge", "device"}, camRead',
           toCam' = <<>>, NEW m, toClient' = <<m>>,
           step = "offer" => OfferInv', step = "challenge" => ChallengeInv',
           step = "device" => DeviceInv'
    PROVE  CodecInv'
<1>1. UNCHANGED <<ctx, pending, binMode, flow, step, nextNum, read>>
    BY DEF Camera
<1>2. toCam' \in Seq(InWire(toCam')) /\ toClient' \in Seq(InWire(toClient'))
    BY ElementsOf
<1>3. StepInv'
    BY <1>1 DEF StepInv
<1>4. CodecAgrees'
    BY <1>1 DEF CodecInv, CodecAgrees
<1> QED
    BY <1>1, <1>2, <1>3, <1>4 DEF CodecInv, InWire

\* The camera answers an offer in the clear.
LEMMA OfferAnswered == ASSUME CodecInv, Camera, step = "offer" PROVE CodecInv'
<1>1. /\ ctx = Unencrypted /\ pending = 0 /\ binMode = {} /\ toCam # <<>> /\ OfferInv
      /\ UNCHANGED <<ctx, pending, binMode, flow, step, nextNum, read>>
    BY DEF CodecInv, StepInv, OfferInv, Camera
<1>2. LoginAsked("none", "6514", Unencrypted)
    BY <1>1 DEF OfferInv, Replied
<1>3. PICK q, a, len : \E cut \in BOOLEAN :
             /\ Answered(q, a, len, cut) /\ q.id = 1 /\ q.payload.kind = "none"
             /\ toCam' = <<>>
             /\ toClient' = <<Cut(1, nextNum - 1, a.code, a.class, ExtOf(a.binary), a.binary,
                                  len, PayloadOf(q, a, len), cut)>>
    BY <1>2, LoginAnswered
<1>4. PICK cut \in BOOLEAN :
             /\ Answered(q, a, len, cut) /\ q.id = 1 /\ q.payload.kind = "none"
             /\ toCam' = <<>>
             /\ toClient' = <<Cut(1, nextNum - 1, a.code, a.class, ExtOf(a.binary), a.binary,
                                  len, PayloadOf(q, a, len), cut)>>
    BY <1>3
<1>5. camRead'
    BY <1>4 DEF Answered
<1>6. \/ \E l \in Levels :
           a = [code |-> l, body |-> "Encryption", class |-> "6614", binary |-> "none"]
      \/ a = [code |-> "200", body |-> "none", class |-> "6514", binary |-> "none"]
  <2>1. a \in Answers(q)
      BY <1>4 DEF Answered
  <2> QED
      BY <1>4, <2>1 DEF Answers, VIDEO
<1>7. CASE a = [code |-> "200", body |-> "none", class |-> "6514", binary |-> "none"]
  <2>1. a.code = "200" /\ a.body = "none" /\ a.class = "6514" /\ a.binary = "none"
      BY <1>7
  <2>2. PayloadOf(q, a, len) = NoPart /\ len = "none"
      BY <1>4, <2>1 DEF PayloadOf, EncryptLens, Answered
  <2>3. Replied("200", "6514", "none", NoPart)'
    <3>1. PICK part : part = NoPart
        OBVIOUS
    <3>2. Replied("200", "6514", "none", part)'
        BY <1>1, <1>4, <2>1, <2>2, <3>1, RepliedNext
    <3>3. part = NoPart'
        BY <3>1 DEF NoPart, Part, Unencrypted
    <3> QED
        BY <3>2, <3>3 DEF Replied, Reply
  <2>4. OfferInv'
      BY <1>1, <2>3 DEF OfferInv, Unencrypted
  <2> QED
      BY <1>1, <1>4, <1>5, <2>4, AnswerKept
<1>8. ASSUME NEW l \in Levels,
             a = [code |-> l, body |-> "Encryption", class |-> "6614", binary |-> "none"]
      PROVE  CodecInv'
  <2>1. a.code = l /\ a.body = "Encryption" /\ a.class = "6614" /\ a.binary = "none"
      BY <1>8
  <2> DEFINE part == Part("Encryption", IF l = "dd00" THEN Unencrypted
                                              ELSE BCEncrypt)
  <2>2. PayloadOf(q, a, len) = part /\ len = "none"
      BY <1>4, <2>1 DEF PayloadOf, EncryptLens, PayloadUnder, Answered
  <2>3. camCtx' = CamProtocol(l)
      BY <1>4, <2>1 DEF Answered
  <2>4. Replied(l, "6614", "none", part)'
    <3>1. PICK x : x = part
        OBVIOUS
    <3>2. Replied(l, "6614", "none", x)'
        BY <1>1, <1>4, <2>1, <2>2, <3>1, RepliedNext
    <3>3. x = part'
        BY <3>1 DEF Part, Unencrypted, BCEncrypt
    <3> HIDE DEF part
    <3> QED
        BY <3>2, <3>3 DEF Replied, Reply
  <2>5. (camCtx = CamProtocol(l))'
      BY <2>3 DEF CamProtocol, Unencrypted, BCEncrypt, aes,
                  full_aes, make_aeskey
  <2>6. OfferInv'
      BY <1>1, <2>4, <2>5 DEF OfferInv, Unencrypted
  <2> QED
      BY <1>1, <1>4, <1>5, <2>6, AnswerKept
<1> QED
    BY <1>6, <1>7, <1>8

\* The camera answers a request for an access key.
LEMMA ChallengeAnswered == ASSUME CodecInv, Camera, step = "challenge" PROVE CodecInv'
<1> DEFINE p == EncodeAs(1, ctx)
           part == Part("challenge", Unencrypted)
<1>1. /\ ctx = camCtx /\ pending = 0 /\ binMode = {} /\ toCam # <<>> /\ ChallengeInv
      /\ UNCHANGED <<ctx, pending, binMode, flow, step, nextNum, read>>
    BY DEF CodecInv, StepInv, ChallengeInv, Camera
<1>2. LoginAsked("getAccesskey", "6414", p)
    BY <1>1 DEF ChallengeInv, Replied
<1>3. PICK q, a, len : \E cut \in BOOLEAN :
             /\ Answered(q, a, len, cut) /\ q.id = 1 /\ q.payload.kind = "getAccesskey"
             /\ q.payload.under = p /\ toCam' = <<>>
             /\ toClient' = <<Cut(1, nextNum - 1, a.code, a.class, ExtOf(a.binary), a.binary,
                                  len, PayloadOf(q, a, len), cut)>>
    BY <1>2, LoginAnswered
<1>4. PICK cut \in BOOLEAN :
             /\ Answered(q, a, len, cut)
             /\ toClient' = <<Cut(1, nextNum - 1, a.code, a.class, ExtOf(a.binary), a.binary,
                                  len, PayloadOf(q, a, len), cut)>>
    BY <1>3
<1>5. camRead'
  <2>1. camRead' = (q.payload.kind = "none" \/ q.payload.under = CamExpects(q))
      BY <1>4 DEF Answered
  <2>2. q.payload.under = CamExpects(q)
      BY <1>1, <1>3 DEF CamExpects, EncodeAs, LOGIN
  <2> QED
      BY ONLY <2>1, <2>2
<1>6. a = [code |-> "200", body |-> "challenge", class |-> "6414", binary |-> "1"]
  <2>1. a \in Answers(q)
      BY <1>4 DEF Answered
  <2> QED
      BY <1>3, <2>1 DEF Answers, VIDEO
<1>7. a.code = "200" /\ a.body = "challenge" /\ a.class = "6414" /\ a.binary = "1"
    BY <1>6
<1>8. PayloadOf(q, a, len) = part /\ len = "none"
    BY <1>4, <1>7 DEF PayloadOf, EncryptLens, PayloadUnder, Answered
<1>9. camCtx' = camCtx
    BY <1>3, <1>4, <1>7 DEF Answered
<1>10. Replied("200", "6414", "1", part)'
  <2>1. PICK x : x = part
      OBVIOUS
  <2>2. Replied("200", "6414", "1", x)'
      BY <1>1, <1>3, <1>4, <1>7, <1>8, <1>9, <2>1, RepliedNext
  <2>3. x = part'
      BY <2>1 DEF Part, Unencrypted
  <2> HIDE DEF part
  <2> QED
      BY <2>2, <2>3 DEF Replied, Reply
<1>11. ChallengeInv'
    BY <1>1, <1>9, <1>10 DEF ChallengeInv
<1> QED
    BY <1>1, <1>3, <1>4, <1>5, <1>11, AnswerKept

\* The reply to a login: DeviceInfo, or the refusal.
LEMMA DeviceOrRefusal ==
    ASSUME NEW q, NEW a, a \in Answers(q), q.id = 1, NEW len \in EncryptLens(a),
           q.payload.kind \in {"LoginUser", "SignedLoginUser"}
    PROVE  \/ /\ a.code = "200" /\ a.body = "DeviceInfo" /\ a.class = "6414"
              /\ a.binary \in {"none", "0"} /\ (flow # "authLogin" => a.binary = "none")
              /\ PayloadOf(q, a, len) = Device(LoginReply(q)) /\ len = "none"
           \/ /\ a.code = "406" /\ a.body = "none" /\ a.class = "6414" /\ a.binary = "none"
              /\ PayloadOf(q, a, len) = NoPart /\ len = "none"
<1>1. \/ \E b \in {"none", "0"} :
           /\ flow # "authLogin" => b = "none"
           /\ a = [code |-> "200", body |-> "DeviceInfo", class |-> "6414", binary |-> b]
      \/ a = [code |-> "406", body |-> "none", class |-> "6414", binary |-> "none"]
    BY DEF Answers, VIDEO
<1>2. CASE a = [code |-> "406", body |-> "none", class |-> "6414", binary |-> "none"]
    BY <1>2 DEF PayloadOf, EncryptLens
<1>3. ASSUME NEW b \in {"none", "0"}, flow # "authLogin" => b = "none",
             a = [code |-> "200", body |-> "DeviceInfo", class |-> "6414", binary |-> b]
      PROVE  /\ a.code = "200" /\ a.body = "DeviceInfo" /\ a.class = "6414"
             /\ a.binary \in {"none", "0"} /\ (flow # "authLogin" => a.binary = "none")
             /\ PayloadOf(q, a, len) = Device(LoginReply(q)) /\ len = "none"
  <2>1. a.code = "200" /\ a.body = "DeviceInfo" /\ a.class = "6414" /\ a.binary = b
      BY <1>3
  <2>2. PayloadOf(q, a, len) = Device(LoginReply(q)) /\ len = "none"
      BY <2>1 DEF PayloadOf, EncryptLens, Device, PayloadUnder, LOGIN
  <2> QED
      BY <1>3, <2>1, <2>2
<1> QED
    BY <1>1, <1>2, <1>3

\* The camera answers the login, and switches its own protocol if it takes it.
LEMMA DeviceAnswered == ASSUME CodecInv, Camera, step = "device" PROVE CodecInv'
<1> DEFINE p == EncodeAs(1, ctx)
<1>1. /\ toCam # <<>> /\ DeviceInv
      /\ UNCHANGED <<ctx, pending, binMode, flow, step, nextNum, read>>
    BY DEF CodecInv, StepInv, Camera
<1>2. \/ ctx = camCtx /\ pending = 0 /\ LoginAsked("LoginUser", "6414", p)
      \/ /\ ctx = BCEncrypt /\ pending = nextNum - 1 /\ binMode = {}
         /\ flow # "authLogin" /\ LoginAsked("SignedLoginUser", "0000", BCEncrypt)
    BY <1>1 DEF DeviceInv, Replied
<1>3. PICK kind, u : \E class : LoginAsked(kind, class, u) /\
        \/ ctx = camCtx /\ pending = 0 /\ kind = "LoginUser" /\ u = p
        \/ /\ ctx = BCEncrypt /\ pending = nextNum - 1 /\ binMode = {}
           /\ flow # "authLogin" /\ kind = "SignedLoginUser" /\ u = BCEncrypt
    BY <1>2
<1>4. PICK q, a, len : \E cut \in BOOLEAN :
             /\ Answered(q, a, len, cut) /\ q.id = 1 /\ q.payload.kind = kind
             /\ q.payload.under = u /\ toCam' = <<>>
             /\ toClient' = <<Cut(1, nextNum - 1, a.code, a.class, ExtOf(a.binary), a.binary,
                                  len, PayloadOf(q, a, len), cut)>>
    BY <1>3, LoginAnswered
<1>5. PICK cut \in BOOLEAN :
             /\ Answered(q, a, len, cut)
             /\ toClient' = <<Cut(1, nextNum - 1, a.code, a.class, ExtOf(a.binary), a.binary,
                                  len, PayloadOf(q, a, len), cut)>>
    BY <1>4
<1>6. /\ u = CamExpects(q)
      /\ kind = "LoginUser" => LoginReply(q) = p
      /\ kind = "SignedLoginUser" => LoginReply(q) = BCEncrypt
    BY <1>3, <1>4 DEF CamExpects, LoginReply, EncodeAs, LOGIN
<1>7. camRead'
  <2>1. camRead' = (q.payload.kind = "none" \/ q.payload.under = CamExpects(q))
      BY <1>5 DEF Answered
  <2>2. q.payload.under = CamExpects(q)
      BY <1>4, <1>6
  <2> QED
      BY ONLY <2>1, <2>2
<1>8. \/ /\ a.code = "200" /\ a.body = "DeviceInfo" /\ a.class = "6414"
         /\ a.binary \in {"none", "0"} /\ (flow # "authLogin" => a.binary = "none")
         /\ PayloadOf(q, a, len) = Device(LoginReply(q)) /\ len = "none"
      \/ /\ a.code = "406" /\ a.body = "none" /\ a.class = "6414" /\ a.binary = "none"
         /\ PayloadOf(q, a, len) = NoPart /\ len = "none"
  <2>1. a \in Answers(q) /\ len \in EncryptLens(a)
      BY <1>5 DEF Answered
  <2> QED
      BY <1>3, <1>4, <2>1, DeviceOrRefusal
<1>9. camCtx' = IF kind = "SignedLoginUser" /\ a.code = "200"
                THEN full_aes(SessionKey) ELSE camCtx
  <2>1. a.body # "Encryption"
      BY <1>8
  <2> QED
      BY <1>4, <1>5, <2>1 DEF Answered
<1>10. CASE a.code = "406"
  <2>1. Replied("406", "6414", "none", NoPart)'
    <3>1. PICK part : part = NoPart
        OBVIOUS
    <3>2. Replied("406", "6414", "none", part)'
        BY <1>1, <1>4, <1>5, <1>8, <1>10, <3>1, RepliedNext
    <3>3. part = NoPart'
        BY <3>1 DEF NoPart, Part, Unencrypted
    <3> QED
        BY <3>2, <3>3 DEF Replied, Reply
  <2>2. camCtx' = camCtx
      BY <1>9, <1>10
  <2>3. DeviceInv'
      BY <1>1, <1>3, <2>1, <2>2 DEF DeviceInv, BCEncrypt
  <2> QED
      BY <1>1, <1>4, <1>5, <1>7, <2>3, AnswerKept
<1>11. CASE a.code = "200"
  <2>1. /\ a.class = "6414" /\ a.binary \in {"none", "0"} /\ len = "none"
        /\ flow # "authLogin" => a.binary = "none"
        /\ PayloadOf(q, a, len) = Device(LoginReply(q))
      BY <1>8, <1>11
  <2>2. PICK part : part = Device(LoginReply(q))
      OBVIOUS
  <2>3. Replied("200", "6414", a.binary, part)'
      BY <1>1, <1>3, <1>4, <1>5, <1>9, <1>11, <2>1, <2>2, RepliedNext
  <2>4. CASE kind = "LoginUser"
    <3>1. camCtx' = camCtx /\ ctx = camCtx /\ pending = 0
        BY <1>3, <1>9, <2>4
    <3>2. part = Device(EncodeAs(1, ctx))'
        BY <1>1, <1>6, <2>2, <2>4 DEF Device, EncodeAs, IsAes, Part,
                                      BCEncrypt
    <3>3. Replied("200", "6414", a.binary, Device(EncodeAs(1, ctx)))'
        BY <2>3, <3>2 DEF Replied, Reply
    <3>4. DeviceInv'
        BY <1>1, <2>1, <3>1, <3>3 DEF DeviceInv
    <3> QED
        BY <1>1, <1>4, <1>5, <1>7, <3>4, AnswerKept
  <2>5. CASE kind = "SignedLoginUser"
    <3>1. /\ camCtx' = full_aes(SessionKey) /\ ctx = BCEncrypt
          /\ pending = nextNum - 1 /\ binMode = {} /\ flow # "authLogin" /\ a.binary = "none"
        BY <1>3, <1>9, <1>11, <2>1, <2>5
    <3>2. part = Device(BCEncrypt)'
        BY <1>6, <2>2, <2>5 DEF Device, Part, BCEncrypt
    <3>3. Replied("200", "6414", "none", Device(BCEncrypt))'
        BY <2>3, <3>1, <3>2 DEF Replied, Reply
    <3>4. (camCtx = full_aes(SessionKey))' /\ (ctx = BCEncrypt)'
        BY <1>1, <3>1 DEF full_aes, SessionKey, BCEncrypt
    <3>5. DeviceInv'
        BY <1>1, <3>1, <3>3, <3>4 DEF DeviceInv
    <3> QED
        BY <1>1, <1>4, <1>5, <1>7, <3>5, AnswerKept
  <2> QED
      BY <1>3, <2>4, <2>5
<1> QED
    BY <1>8, <1>10, <1>11

\* The camera answers at three steps of a login, and in a session.
LEMMA CameraKept == ASSUME CodecInv, Camera PROVE CodecInv'
<1>1. step \notin {"upgrade", "sign", "modern", "answer"}
    BY DEF CodecInv, StepInv, Quiet, Camera
<1> QED
    BY <1>1, OfferAnswered, ChallengeAnswered, DeviceAnswered, SessionAnswered DEF CodecInv

\* A step that changes nothing of the connection.
LEMMA CodecStutters == ASSUME CodecInv, UNCHANGED codecVars PROVE CodecInv'
BY DEF codecVars, CodecInv, StepInv, Quiet, OfferInv, ChallengeInv, DeviceInv, LoginAsked, Replied,
       LoginRequest, Reply, RequestsInv, ReadsBack, IsMessage, InWire, CodecAgrees

\* Both ends of a connection follow each other through every switch of the encryption:
\* whatever the login (login.rs, login_authlogin.rs, login_sigv3.rs) and the level the
\* camera offers, what BcCodex encodes the camera decodes, and the other way round, but for
\* media whose encryptLen is shorter than the payload: bc_modern_msg keeps its head only.
THEOREM CodecStaysAgreed == CodecSpec => []CodecAgrees
<1>1. CodecInit => CodecInv
    BY CodecStarts
<1>2. CodecInv /\ [CodecNext]_codecVars => CodecInv'
  <2> SUFFICES ASSUME CodecInv, [CodecNext]_codecVars PROVE CodecInv'
      OBVIOUS
  <2>1. CASE UNCHANGED codecVars
      BY <2>1, CodecStutters
  <2>2. CASE SendUpgrade \/ SendModern \/ SendGetAccesskey \/ SendAuthLogin \/ Sign
      BY <2>2, AskKept
  <2>3. CASE Command(COMMAND) \/ Command(VIDEO)
      BY <2>3, CommandKept DEF COMMAND, VIDEO
  <2>4. CASE Receive \/ ReceivePart
      BY <2>4, ReceiveKept, ReceivePartKept
  <2>5. CASE Camera \/ CameraEvent
      BY <2>5, CameraKept, EventKept
  <2> QED
      BY <2>1, <2>2, <2>3, <2>4, <2>5 DEF CodecNext
<1>3. CodecInv => CodecAgrees
    BY DEF CodecInv
<1> QED
    BY <1>1, <1>2, <1>3, PTL DEF CodecSpec
===================================================================================
