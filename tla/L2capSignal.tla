---------------------------- MODULE L2capSignal -----------------------------
(* L2CAP signalling of l2cap.c: channels are opened by the device when a link *)
(* comes up and by the peer at any time, configured in both directions,       *)
(* closed by the peer, and button S2 sends the SABM of RFCOMM on the channel  *)
(* named by tmp_chid.  The handlers run one after the other (HciRx); a        *)
(* message is a record, one queue per direction of a link (AclReassembly,     *)
(* UartTx).  The connection slot of a message is the one of its handle        *)
(* (ConnTable).  l2cap_state and l2cap_substate are left out: nothing reads   *)
(* them.  The peer is one that keeps the protocol and has no device code.     *)
EXTENDS ListPool, Integers, FiniteSets, SequencesExt

CONSTANTS
    MIN_L2CAP_CID, MAX_L2CAP_CID,
    SIG_ID_SIZE,       \* l2cap_sig_id is an octet: 256
    CHID_SIZE,         \* btdev.c declares tmp_chid as an octet: 256
    TestSlot,          \* the slot of testbdaddr, the peer of the buttons
    Askers,            \* the slots whose peers send requests; the others answer
    ProposedOptions,   \* options a peer first proposes for its n-th channel
    ConnectAnswers,    \* first results of each peer's connection responses
    ConfigAnswers,     \* results and options of each peer's configuration responses
    MaxLinks,          \* bound: links that come up
    MaxRequests        \* bound: presses of S2, and connection requests, closings
                       \* and pings by peers, together

ASSUME ChannelAssumption ==
    /\ MIN_L2CAP_CID \in Nat \ {0} /\ MAX_L2CAP_CID \in Nat
    /\ MIN_L2CAP_CID + L2CAP_CONN_POOL_SIZE <= MAX_L2CAP_CID
    /\ CHID_SIZE \in Nat /\ MIN_L2CAP_CID + L2CAP_CONN_POOL_SIZE < CHID_SIZE
    /\ SIG_ID_SIZE \in Nat \ {0, 1}
    /\ TestSlot \in Slot /\ Askers \subseteq Slot
    /\ MaxLinks \in Nat /\ MaxRequests \in Nat
    /\ L2CAP_CONN_POOL_SIZE + MaxRequests < 100

\* An option is absent, has the only value the device accepts, or another.
OptionValue == {"none", "ok", "bad"}
Options == [mtu : OptionValue, fto : OptionValue]
ASSUME AnswerAssumption ==
    /\ ConnectAnswers \in [Slot -> SUBSET {"success", "pending", "refused"}]
    /\ ProposedOptions \in [1..(L2CAP_CONN_POOL_SIZE + MaxRequests) -> SUBSET Options]
    /\ \A s \in Slot : ConfigAnswers[s] \subseteq
                          [result : {"success", "rejected"}, opt : Options]

VARIABLES
    heap,           \* the lists of l2cap_conn_pool
    chan,           \* the fields of its entries
    l2cap_cur_cid, l2cap_sig_id, tmp_chid,
    up,             \* the links that are up
    toPeer, toDev,  \* signalling under way on each link
    peer,           \* the channels each peer has opened or accepted
    pend,           \* the requests of each peer without an answer, oldest first
    left            \* what the bounds leave

vars == <<heap, chan, l2cap_cur_cid, l2cap_sig_id, tmp_chid, up, toPeer, toDev,
          peer, pend, left>>
device == <<heap, chan, l2cap_cur_cid, l2cap_sig_id, tmp_chid>>

Channel == [cid : 0..MAX_L2CAP_CID, dcid : Nat, connect_initiate : {"", "LOCAL", "REMOTE"},
            conf_opt : Options]

(* Messages.  A channel number is the receiver's end unless it is called scid *)
(* in a request or dcid in a response.                                        *)
ConnReq(id, scid) == [code |-> "ConnReq", id |-> id, scid |-> scid]
ConnRsp(id, dcid, scid, result) ==
    [code |-> "ConnRsp", id |-> id, dcid |-> dcid, scid |-> scid, result |-> result]
ConfReq(id, dcid, opt) == [code |-> "ConfReq", id |-> id, dcid |-> dcid, opt |-> opt]
ConfRsp(id, scid, result, opt) ==
    [code |-> "ConfRsp", id |-> id, scid |-> scid, result |-> result, opt |-> opt]
DiscReq(id, dcid, scid) == [code |-> "DiscReq", id |-> id, dcid |-> dcid, scid |-> scid]
DiscRsp(id, dcid, scid) == [code |-> "DiscRsp", id |-> id, dcid |-> dcid, scid |-> scid]
Bare(code, id) == [code |-> code, id |-> id]
Sabm(dcid) == [code |-> "SABM", dcid |-> dcid]

Message ==
    [code : {"ConnReq"}, id : Nat, scid : Nat] \cup
    [code : {"ConnRsp"}, id : Nat, dcid : Nat, scid : Nat,
     result : {"success", "pending", "refused"}] \cup
    [code : {"ConfReq"}, id : Nat, dcid : Nat, opt : Options] \cup
    [code : {"ConfRsp"}, id : Nat, scid : Nat, opt : Options,
     result : {"success", "unacceptable", "rejected"}] \cup
    [code : {"DiscReq", "DiscRsp"}, id : Nat, dcid : Nat, scid : Nat] \cup
    [code : {"EchoReq", "EchoRsp", "InfoReq", "InfoRsp", "Reject"}, id : Nat] \cup
    [code : {"SABM"}, dcid : Nat]

Request == {"ConnReq", "ConfReq", "DiscReq", "EchoReq", "InfoReq"}
Responses == {"ConnRsp", "ConfRsp", "DiscRsp", "EchoRsp", "InfoRsp"}

\* The channel numbers of a peer.
PeerNumbers(s) == {100 * s + k : k \in 1..(L2CAP_CONN_POOL_SIZE + MaxRequests)}

NoOptions == [mtu |-> "none", fto |-> "none"]
OurOptions == [NoOptions EXCEPT !.mtu = "ok"]

Init ==
    /\ heap = init_pool
    /\ chan = [e \in Entry |-> [cid |-> 0, dcid |-> 0, connect_initiate |-> "",
                                conf_opt |-> NoOptions]]
    /\ l2cap_cur_cid = MIN_L2CAP_CID
    /\ l2cap_sig_id = 0
    /\ tmp_chid = 0
    /\ up = [s \in Slot |-> FALSE]
    /\ toPeer = [s \in Slot |-> <<>>]
    /\ toDev = [s \in Slot |-> <<>>]
    /\ peer = [s \in Slot |-> {}]
    /\ pend = [s \in Slot |-> <<>>]
    /\ left = [links |-> MaxLinks, requests |-> MaxRequests]

Spend(what) == /\ left[what] > 0
               /\ left' = [left EXCEPT ![what] = @ - 1]

-----------------------------------------------------------------------------
(* Helpers of the device.                                                     *)

\* Mutant of gen_l2cap_sig_id: the identifier is not kept in an octet.
WideSigId == l2cap_sig_id + 1

gen_l2cap_sig_id == IF l2cap_sig_id = 0 THEN 1 ELSE (l2cap_sig_id + 1) % SIG_ID_SIZE

\* Mutant of gen_l2cap_channel_id: the number in use is handed out, then the next.
SameChannelId == IF l2cap_cur_cid = MAX_L2CAP_CID THEN MIN_L2CAP_CID
                 ELSE IF l2cap_cur_cid = MIN_L2CAP_CID + 1 THEN l2cap_cur_cid
                 ELSE l2cap_cur_cid + 1

gen_l2cap_channel_id ==
    IF l2cap_cur_cid = MAX_L2CAP_CID THEN MIN_L2CAP_CID ELSE l2cap_cur_cid + 1

\* Mutant of get_l2cap_conn_from_channel_id: the entries of every slot are searched.
AnyoneWithChannelId(s, cid) ==
    LET found == {e \in Entry : chan[e].cid = cid}
    IN  IF found = {} THEN NULL ELSE CHOOSE e \in found : TRUE

get_l2cap_conn_from_channel_id(s, cid) ==
    LET list == Chain(heap, s)
        i == SelectInSeq(list, LAMBDA e : chan[e].cid = cid)
    IN  IF i = 0 THEN NULL ELSE list[i]

FreeEntry == heap.head[l2cap_empty_pool]

\* Mutant of TakeEntry: the entry is put into the slot's list but stays in the pool.
TakeEntryTwice(s, new) ==
    IF is_pool_empty(heap, l2cap_empty_pool)
      THEN UNCHANGED <<heap, chan>>
      ELSE /\ heap' = add_to_pool_head(heap, s, FreeEntry)
           /\ chan' = [chan EXCEPT ![FreeEntry] = new]

\* The head of the pool moves to the slot's list and its fields become new.
TakeEntry(s, new) ==
    IF is_pool_empty(heap, l2cap_empty_pool)
      THEN UNCHANGED <<heap, chan>>
      ELSE /\ heap' = add_to_pool_head(
                          remove_from_pool_head(heap, l2cap_empty_pool), s, FreeEntry)
           /\ chan' = [chan EXCEPT ![FreeEntry] = new]

\* get_options: an option in the packet sets its bit and value, and the bit of
\* an option that is absent keeps what earlier packets have set.
get_options(old, opt) ==
    [o \in {"mtu", "fto"} |-> IF opt[o] = "none" THEN old[o] ELSE opt[o]]

\* The options refused: the flush timeout is looked at only with an MTU.
Refused(opt) == {o \in {"mtu", "fto"} : opt[o] = "bad" /\ opt.mtu # "none"}

\* Mutant of Hints: a bad flush timeout is refused without the good value.
HintsMtuOnly(opt) ==
    [o \in {"mtu", "fto"} |-> IF o = "mtu" /\ o \in Refused(opt) THEN "ok" ELSE "none"]

\* The acceptable values a refusal carries.
Hints(opt) == [o \in {"mtu", "fto"} |-> IF o \in Refused(opt) THEN "ok" ELSE "none"]

-----------------------------------------------------------------------------
(* The device.  It handles a packet completely, the answers included, before  *)
(* the next one.                                                              *)

Incoming(s, codes) == toDev[s] # <<>> /\ Head(toDev[s]).code \in codes

Answer(s, msgs) == /\ toDev' = [toDev EXCEPT ![s] = Tail(@)]
                   /\ toPeer' = [toPeer EXCEPT ![s] = @ \o msgs]
                   /\ UNCHANGED <<up, peer, pend, left>>

\* A connection complete event ends in l2cap_connect_request: the entry is
\* taken first, and without one nothing is sent.
LinkUp(s) ==
    /\ ~up[s]
    /\ Spend("links")
    /\ up' = [up EXCEPT ![s] = TRUE]
    /\ TakeEntry(s, [chan[FreeEntry] EXCEPT !.cid = gen_l2cap_channel_id,
                                            !.connect_initiate = "LOCAL"])
    /\ IF is_pool_empty(heap, l2cap_empty_pool)
         THEN UNCHANGED <<l2cap_cur_cid, l2cap_sig_id, tmp_chid, toPeer>>
         ELSE /\ l2cap_cur_cid' = gen_l2cap_channel_id
              /\ tmp_chid' = gen_l2cap_channel_id
              /\ l2cap_sig_id' = gen_l2cap_sig_id
              /\ toPeer' = [toPeer EXCEPT ![s] =
                                Append(@, ConnReq(gen_l2cap_sig_id, gen_l2cap_channel_id))]
    /\ UNCHANGED <<toDev, peer, pend>>

\* The channel number is drawn, the answer is "success" and configuration
\* begins, whether or not there was an entry for the channel.
ConnectionRequest(s) ==
    LET m == Head(toDev[s])
    IN  /\ Incoming(s, {"ConnReq"})
        /\ l2cap_cur_cid' = gen_l2cap_channel_id
        /\ l2cap_sig_id' = gen_l2cap_sig_id
        /\ TakeEntry(s, [chan[FreeEntry] EXCEPT !.cid = gen_l2cap_channel_id,
                                                !.dcid = m.scid,
                                                !.connect_initiate = "REMOTE"])
        /\ Answer(s, <<ConnRsp(m.id, gen_l2cap_channel_id, m.scid, "success"),
                       ConfReq(gen_l2cap_sig_id, m.scid, OurOptions)>>)
        /\ UNCHANGED tmp_chid

\* Mutant of ConnectionResponse: the channel is left without the peer's number.
ConnectionResponseNoDcid(s) ==
    LET m == Head(toDev[s])
    IN  /\ Incoming(s, {"ConnRsp"})
        /\ tmp_chid' = m.scid
        /\ Answer(s, IF m.result = "success" THEN <<ConfReq(gen_l2cap_sig_id, m.dcid, OurOptions)>> ELSE <<>>)
        /\ l2cap_sig_id' = IF m.result = "success" THEN gen_l2cap_sig_id ELSE l2cap_sig_id
        /\ UNCHANGED <<heap, chan, l2cap_cur_cid>>

\* Mutant of ConnectionResponse: tmp_chid becomes the channel number of the peer.
ConnectionResponseDcid(s) ==
    LET m == Head(toDev[s])
    IN  /\ Incoming(s, {"ConnRsp"})
        /\ tmp_chid' = m.dcid
        /\ Answer(s, <<>>)
        /\ UNCHANGED <<heap, chan, l2cap_cur_cid, l2cap_sig_id>>

\* Only success does more than set tmp_chid.
ConnectionResponse(s) ==
    LET m == Head(toDev[s])
        conn == get_l2cap_conn_from_channel_id(s, m.scid)
    IN  /\ Incoming(s, {"ConnRsp"})
        /\ tmp_chid' = m.scid
        /\ IF m.result = "success" /\ conn # NULL
             THEN /\ chan' = [chan EXCEPT ![conn].dcid = m.dcid]
                  /\ l2cap_sig_id' = gen_l2cap_sig_id
                  /\ Answer(s, <<ConfReq(gen_l2cap_sig_id, m.dcid, OurOptions)>>)
             ELSE /\ Answer(s, <<>>)
                  /\ UNCHANGED <<chan, l2cap_sig_id>>
        /\ UNCHANGED <<heap, l2cap_cur_cid>>

\* Mutant of ConfigurationRequest: the answer is sent under an id of its own.
ConfigurationRequestNewId(s) ==
    LET m == Head(toDev[s])
        conn == get_l2cap_conn_from_channel_id(s, m.dcid)
    IN  /\ Incoming(s, {"ConfReq"})
        /\ conn # NULL
        /\ Answer(s, <<ConfRsp(m.id + 1, chan[conn].dcid, "success", NoOptions)>>)
        /\ UNCHANGED device

\* The answer goes to the channel's dcid. Without an entry the options are
\* stored at and read from addresses near 0: any answer may result, to the
\* channel of the request or to none (a peer that compares identifiers takes an
\* answer to another of its channels for neither).
ConfigurationRequest(s) ==
    LET m == Head(toDev[s])
        conn == get_l2cap_conn_from_channel_id(s, m.dcid)
        Respond(opt, dcid) ==
            Answer(s, <<ConfRsp(m.id, dcid,
                                IF Refused(opt) = {} THEN "success" ELSE "unacceptable",
                                Hints(opt))>>)
    IN  /\ Incoming(s, {"ConfReq"})
        /\ \/ /\ conn \in Entry
              /\ LET opt == get_options(chan[conn].conf_opt, m.opt)
                 IN  /\ chan' = [chan EXCEPT ![conn].conf_opt = opt]
                     /\ Respond(opt, chan[conn].dcid)
           \/ /\ conn = NULL
              /\ \E opt \in {OurOptions, [mtu |-> "bad", fto |-> "bad"]},
                    dcid \in {0} \cup {c.own : c \in {d \in peer[s] : d.dev = m.dcid}} :
                     Respond(opt, dcid)
              /\ UNCHANGED chan
        /\ UNCHANGED <<heap, l2cap_cur_cid, l2cap_sig_id, tmp_chid>>

\* conn is an uninitialised variable here: what it points at may be an entry of
\* the pool, used or not, or memory this model does not have.
ConfigurationResponse(s) ==
    LET m == Head(toDev[s])
    IN  /\ Incoming(s, {"ConfRsp"})
        /\ \/ /\ m.result = "success"
              /\ \E conn \in Entry :
                   chan' = [chan EXCEPT ![conn].conf_opt = get_options(@, m.opt)]
           \/ UNCHANGED chan
        /\ Answer(s, <<>>)
        /\ UNCHANGED <<heap, l2cap_cur_cid, l2cap_sig_id, tmp_chid>>

\* The answer names the channel as the request did. The entry stays in its list.
DisconnectionRequest(s) ==
    LET m == Head(toDev[s])
    IN  /\ Incoming(s, {"DiscReq"})
        /\ Answer(s, <<DiscRsp(m.id, m.dcid, m.scid)>>)
        /\ UNCHANGED device

\* The answer is empty and has the id of the request.
EchoRequest(s) ==
    /\ Incoming(s, {"EchoReq"})
    /\ Answer(s, <<Bare("EchoRsp", Head(toDev[s]).id)>>)
    /\ UNCHANGED device

\* cmdid is not read from this request: the answer has the id 0.
InfoRequest(s) ==
    /\ Incoming(s, {"InfoReq"})
    /\ Answer(s, <<Bare("InfoRsp", 0)>>)
    /\ UNCHANGED device

CommandReject(s) ==
    /\ Incoming(s, {"Reject"})
    /\ Answer(s, <<>>)
    /\ UNCHANGED device

\* Button S2: the channel is looked up in the slot of the test device under
\* the low octet of tmp_chid. A packet for a link that is down goes nowhere.
rfcomm_connect_request ==
    LET conn == get_l2cap_conn_from_channel_id(TestSlot, tmp_chid % CHID_SIZE)
    IN  /\ Spend("requests")
        /\ conn \in Entry /\ up[TestSlot]
        /\ toPeer' = [toPeer EXCEPT ![TestSlot] = Append(@, Sabm(chan[conn].dcid))]
        /\ UNCHANGED <<device, up, toDev, peer, pend>>

LinkDown(s) ==
    /\ up[s]
    /\ up' = [up EXCEPT ![s] = FALSE]
    /\ toPeer' = [toPeer EXCEPT ![s] = <<>>]
    /\ toDev' = [toDev EXCEPT ![s] = <<>>]
    /\ peer' = [peer EXCEPT ![s] = {}]
    /\ pend' = [pend EXCEPT ![s] = <<>>]
    /\ UNCHANGED <<device, left>>

Receive(s) ==
    \/ ConnectionRequest(s) \/ ConnectionResponse(s)
    \/ ConfigurationRequest(s) \/ ConfigurationResponse(s)
    \/ DisconnectionRequest(s) \/ EchoRequest(s) \/ InfoRequest(s) \/ CommandReject(s)

-----------------------------------------------------------------------------
(* The peer.  Its requests have ids of their own; a channel it has closed is     *)
(* remembered until the link goes down, so that numbers are not used again.   *)

\* The least number that is not in use.
IsNewNumber(s, own) ==
    /\ own \in PeerNumbers(s) \ {c.own : c \in peer[s]}
    /\ \A n \in PeerNumbers(s) : n < own => n \in {c.own : c \in peer[s]}
NewId(s) == IF pend[s] = <<>> THEN 1 ELSE pend[s][Len(pend[s])][2] + 1
PeerChannel == [own : Nat, dev : Nat, cfg : {"new", "sent", "refused", "failed",
                                                  "done", "closed"},
                opt : Options]

Open(own, dev) == [own |-> own, dev |-> dev, cfg |-> "new", opt |-> NoOptions]
Update(s, own, new(_)) == peer' = [peer EXCEPT ![s] = {IF c.own = own THEN new(c) ELSE c : c \in @}]

Arrived(s, codes) == toPeer[s] # <<>> /\ Head(toPeer[s]).code \in codes

Consume(s, msgs) == /\ toPeer' = [toPeer EXCEPT ![s] = Tail(@)]
                    /\ toDev' = [toDev EXCEPT ![s] = @ \o msgs]

Ask(s, msg) == /\ toDev' = [toDev EXCEPT ![s] = Append(@, msg)]
               /\ pend' = [pend EXCEPT ![s] = Append(@, <<msg.code, msg.id>>)]

\* The request a message answers.
Answered(m) == [ConnRsp |-> "ConnReq", ConfRsp |-> "ConfReq", DiscRsp |-> "DiscReq",
                EchoRsp |-> "EchoReq", InfoRsp |-> "InfoReq"][m.code]

\* The request a message is or answers, and the identifier that is compared.
Exchange(m) == <<IF m.code \in Request THEN m.code ELSE Answered(m),
                 IF m.code \in {"InfoReq", "InfoRsp"} THEN 0 ELSE m.id>>

\* The exchanges of the messages of a queue that have one of the codes.
Exchanges(q, codes) ==
    LET upto[k \in 0..Len(q)] ==
            IF k = 0 THEN <<>>
            ELSE IF q[k].code \in codes THEN Append(upto[k - 1], Exchange(q[k]))
            ELSE upto[k - 1]
    IN  upto[Len(q)]

\* A request for a channel is accepted, at once or after "pending", or refused.
PeerConnectResponse(s) ==
    LET m == Head(toPeer[s])
        reply(result, dcid) == ConnRsp(m.id, dcid, m.scid, result)
    IN  /\ Arrived(s, {"ConnReq"})
        /\ \E result \in ConnectAnswers[s] :
             \/ /\ result = "refused"
                /\ Consume(s, <<reply(result, 0)>>)
                /\ UNCHANGED peer
             \/ /\ result # "refused"
                /\ \E own \in PeerNumbers(s) :
                     /\ IsNewNumber(s, own)
                     /\ peer' = [peer EXCEPT ![s] = @ \cup {Open(own, m.scid)}]
                     /\ Consume(s, (IF result = "pending" THEN <<reply(result, 0)>> ELSE <<>>)
                                   \o <<reply("success", own)>>)
        /\ UNCHANGED pend

\* The device's options are accepted, or refused for a reason of the peer's;
\* a request for a channel that is closed is rejected.
PeerConfigureResponse(s) ==
    LET m == Head(toPeer[s])
    IN  /\ Arrived(s, {"ConfReq"})
        /\ \/ \E c \in peer[s] :
                /\ c.own = m.dcid /\ c.cfg # "closed"
                /\ \E r \in ConfigAnswers[s] :
                     Consume(s, <<ConfRsp(m.id, c.dev, r.result, r.opt)>>)
           \/ /\ \A c \in peer[s] : c.own = m.dcid => c.cfg = "closed"
              /\ Consume(s, <<Bare("Reject", m.id)>>)
        /\ UNCHANGED <<peer, pend>>

\* The oldest request has its answer. A refusal is met with the values it asks
\* for, once: a peer that is refused what it was asked for gives up.
PeerAnswered(s) ==
    LET m == Head(toPeer[s])
        adopt(c) == [mtu |-> IF m.opt.mtu = "none" THEN c.opt.mtu ELSE m.opt.mtu,
                     fto |-> IF m.opt.fto = "none" THEN c.opt.fto ELSE m.opt.fto]
        changed(c) ==
            IF m.code = "ConnRsp" THEN [c EXCEPT !.dev = m.dcid]
            ELSE IF c.cfg # "sent" THEN c
            ELSE IF m.result = "success" THEN [c EXCEPT !.cfg = "done"]
            ELSE [c EXCEPT !.cfg = IF adopt(c) = c.opt THEN "failed" ELSE "refused",
                           !.opt = adopt(c)]
    IN  /\ Arrived(s, Responses)
        /\ pend[s] # <<>>
        /\ Consume(s, <<>>)
        /\ pend' = [pend EXCEPT ![s] = Tail(@)]
        /\ IF m.code \in {"ConnRsp", "ConfRsp"}
             THEN Update(s, m.scid, changed)
             ELSE UNCHANGED peer

PeerSabm(s) == /\ Arrived(s, {"SABM"})
               /\ Consume(s, <<>>)
               /\ UNCHANGED <<peer, pend>>

PeerReceive(s) ==
    /\ PeerConnectResponse(s) \/ PeerConfigureResponse(s) \/ PeerAnswered(s) \/ PeerSabm(s)
    /\ UNCHANGED <<device, up, left>>

PeerConnect(s) ==
    /\ up[s]
    /\ Spend("requests")
    /\ \E own \in PeerNumbers(s) :
         /\ IsNewNumber(s, own)
         /\ peer' = [peer EXCEPT ![s] = @ \cup {Open(own, 0)}]
         /\ Ask(s, ConnReq(NewId(s), own))
    /\ UNCHANGED <<device, up, toPeer>>

PeerConfigure(s, own) ==
    /\ \E c \in peer[s] :
         /\ c.own = own /\ c.dev # 0 /\ c.cfg \in {"new", "refused"}
         /\ \E opt \in IF c.cfg = "new" THEN ProposedOptions[own % 100] ELSE {c.opt} :
              /\ Ask(s, ConfReq(NewId(s), c.dev, opt))
              /\ Update(s, own, LAMBDA d : [d EXCEPT !.cfg = "sent", !.opt = opt])
    /\ UNCHANGED <<device, up, toPeer, left>>

PeerDisconnect(s) ==
    /\ Spend("requests")
    /\ \E c \in peer[s] :
         /\ c.dev # 0 /\ c.cfg # "closed"
         /\ Ask(s, DiscReq(NewId(s), c.dev, c.own))
         /\ Update(s, c.own, LAMBDA d : [d EXCEPT !.cfg = "closed"])
    /\ UNCHANGED <<device, up, toPeer>>

PeerPing(s) ==
    /\ up[s]
    /\ Spend("requests")
    /\ \E code \in {"EchoReq", "InfoReq"} : Ask(s, Bare(code, NewId(s)))
    /\ UNCHANGED <<device, up, toPeer, peer>>

Next ==
    \/ rfcomm_connect_request
    \/ \E s \in Slot : \/ LinkUp(s) \/ LinkDown(s) \/ Receive(s) \/ PeerReceive(s)
    \/ \E s \in Askers : \/ PeerConnect(s) \/ PeerDisconnect(s) \/ PeerPing(s)
                         \/ \E own \in PeerNumbers(s) : PeerConfigure(s, own)

\* The controller delivers what was sent, the device handles what it got, and
\* the peer answers and configures the channels it has.
Fairness == /\ \A s \in Slot : WF_vars(Receive(s)) /\ WF_vars(PeerReceive(s))
            /\ \A s \in Askers : WF_vars(\E own \in PeerNumbers(s) : PeerConfigure(s, own))

Spec == Init /\ [][Next]_vars
FairSpec == Spec /\ Fairness

-----------------------------------------------------------------------------
\* The types of the device's state and of what is under way.
TypeOK ==
    /\ heap \in Heap
    /\ chan \in [Entry -> Channel]
    /\ l2cap_cur_cid \in MIN_L2CAP_CID..MAX_L2CAP_CID
    /\ l2cap_sig_id \in 0..(SIG_ID_SIZE - 1)
    /\ tmp_chid \in 0..MAX_L2CAP_CID
    /\ up \in [Slot -> BOOLEAN]
    /\ toPeer \in [Slot -> Seq(Message)]
    /\ toDev \in [Slot -> Seq(Message)]
    /\ peer \in [Slot -> SUBSET PeerChannel]
    /\ pend \in [Slot -> Seq(Request \X Nat)]
    /\ left \in [{"links", "requests"} -> Nat]

\* The entries that hold a channel: the first user sets connect_initiate.
Used == {e \in Entry : chan[e].connect_initiate # ""}

\* The entries in the lists of the slots have different channel numbers, all
\* links together: neither a lookup by number nor a stale list can confuse two.
ChannelIdsDistinct ==
    \A d, e \in Used : chan[d].cid = chan[e].cid => d = e

\* tmp_chid, once set, is the number of a channel the device has asked for, and
\* survives the octet that btdev.c reads it as.
TmpChidNamesChannel ==
    tmp_chid # 0 =>
        /\ tmp_chid % CHID_SIZE = tmp_chid
        /\ \E e \in Used : chan[e].cid = tmp_chid /\ chan[e].connect_initiate = "LOCAL"

\* The abstract pool: entries leave it in order, for one slot each.
P == INSTANCE ChannelPool WITH
        Entries <- [i \in 1..L2CAP_CONN_POOL_SIZE |-> i], Slots <- Slot,
        free <- Chain(heap, l2cap_empty_pool),
        owned <- [s \in Slot |-> Chain(heap, s)]

PoolSpec == P!Spec

\* The answers under way to a peer, then those its requests under way will get:
\* every request is answered once, in order, and under its identifier. (The
\* identifier of an information response is 0 and is not compared.)
Owed(s) == Exchanges(toPeer[s], Responses) \o Exchanges(toDev[s], Request)

AnswersMatch ==
    \A s \in Slot :
        Owed(s) = [k \in DOMAIN pend[s] |->
                     <<pend[s][k][1], IF pend[s][k][1] = "InfoReq" THEN 0 ELSE pend[s][k][2]>>]

\* A channel a peer has been promised exists, in the list of that peer's slot and
\* with the peer's number - unless the five entries of the pool were used up,
\* when the promise is empty, or its number is in an answer still under way.
PromisedChannelExists ==
    \A s \in Slot : \A c \in peer[s] :
        LET e == get_l2cap_conn_from_channel_id(s, c.dev)
        IN  \/ c.dev = 0
            \/ is_pool_empty(heap, l2cap_empty_pool)
            \/ /\ e # NULL
               /\ \/ chan[e].dcid = c.own
                  \/ \E m \in Range(toDev[s]) : m.code = "ConnRsp" /\ m.dcid = c.own

\* Button S2 never addresses a channel of another device, although tmp_chid is
\* set for every link: the number is a channel of the test device, or 0 when the
\* channel was not accepted yet.
SabmAddressed ==
    \A s \in Slot : \A m \in Range(toPeer[s]) :
        m.code = "SABM" => /\ s = TestSlot
                           /\ m.dcid \in PeerNumbers(s) \cup {0}

\* The channels of a link that exist on both sides get configured: a peer that
\* takes the values it is refused with has its options accepted, whatever earlier
\* requests and stray answers have left in conf_opt.
ChannelsConfigure ==
    \A s \in Askers :
        LET open == {c \in peer[s] : c.cfg \in {"new", "sent", "refused", "failed"}
                        /\ get_l2cap_conn_from_channel_id(s, c.dev) # NULL}
        IN  open # {} ~> open = {}
=============================================================================
