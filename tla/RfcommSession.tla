---------------------------- MODULE RfcommSession ----------------------------
(* The RFCOMM multiplexer on one L2CAP channel: the frame handlers of         *)
(* process_l2cap_pkt, each of which answers in the buffer the frame came in,  *)
(* and rfcomm_connect_request.  The device has opened the channel (LOCAL: it  *)
(* starts the multiplexer with SABM, and button S2 sends it) or has accepted  *)
(* it (REMOTE).  Handlers run one after the other (HciRx), frames keep their  *)
(* order (AclReassembly, UartTx), and the S2 request is one step.  Packets of *)
(* the signalling channel (L2capSignal) leave the buffer as frames do.        *)
(* verify_fcs only prints, so a sum is never looked at by the device.         *)
EXTENDS RfcommFrame

CONSTANTS
    MAX_CREDIT_CNT,
    PnAnswers,      \* credit support a peer answers our PN with: 14, or 0 (1.0B)
    DataDlci,       \* the data channel of the peer
    PeerMessages,   \* what a peer sends besides PN: types with parameters
    MaxPresses,     \* bound: presses of S2
    MaxCommands,    \* bound: SABM, DISC and PN requests of the peer
    MaxMessages,    \* bound: other messages the peer sends of its own accord
    MaxData         \* bound: data frames of the peer

\* A message has one octet of type and one of length; the signals have a break
\* octet or not.  PN messages are sent by actions of their own.
ASSUME SessionAssumption ==
    /\ MAX_CREDIT_CNT \in 1..255
    /\ PnAnswers \subseteq {PN_CREDIT_SUPPORT_ACK, 0}
    /\ DataDlci \in {2 * channel : channel \in 1..30}
    /\ \A m \in PeerMessages :
          /\ m[1] \in Octet /\ m[1] % 4 = 0 /\ m[1] # PN
          /\ m[2] \in Seq(Octet) /\ Len(m[2]) <= 125
          /\ m[1] = MSC => Len(m[2]) \in {2, 3}

VARIABLES
    buf,               \* l2cap_pkt_buff from the L2CAP payload on
    connect_initiate,
    pn_config,
    rfcomm_state, rfcomm_state_transition,
    credit_cnt,
    toPeer, toDev,     \* frames under way
    peer,              \* what the peer knows of the session: its channels, its
                       \* own PN request, its answer to ours, our port settings
    awaiting,          \* DLCIs of the peer's SABM and DISC without an answer
    left               \* what the bounds leave

device == <<buf, pn_config, rfcomm_state, rfcomm_state_transition, credit_cnt>>
others == <<connect_initiate, peer, awaiting, left>>
vars == <<device, others, toPeer, toDev>>

\* Mutant of processed: the memset is removed.
NotCleared(b) == b

\* After process_l2cap_pkt hci_rx_pkt_handler clears l2cap_pkt_buff, whatever b
\* the handler has left in it.
processed(b) == [i \in Index |-> 0]

Load(b, octets) == [i \in Index |-> IF i < Len(octets) THEN octets[i + 1] ELSE b[i]]

Init ==
    /\ buf = [i \in Index |-> 0]
    /\ connect_initiate \in {"LOCAL", "REMOTE"}
    /\ pn_config = initial_pn_config
    /\ rfcomm_state = "RFCOMM_NONE"
    /\ rfcomm_state_transition = "RFCOMM_IDLE"
    /\ credit_cnt = MAX_CREDIT_CNT
    /\ toPeer = <<>> /\ toDev = <<>>
    /\ peer = [mux |-> "closed", dlc |-> "closed", pn |-> "none",
               ours |-> "none", rpn |-> FALSE]
    /\ awaiting = <<>>
    /\ left = [presses |-> MaxPresses, commands |-> MaxCommands,
               messages |-> MaxMessages, data |-> MaxData]

Spend(what) == /\ left[what] > 0
               /\ left' = [left EXCEPT ![what] = @ - 1]

-----------------------------------------------------------------------------
(* The device.                                                                *)

\* In a handler b is the buffer with the frame received.
IsFrame(b, type) == get_rfcomm_control_field(b) = type

IsMessage(b, type) == /\ IsFrame(b, UIH)
                      /\ get_rfcomm_server_ch_addr(b) = MSG_DLCI
                      /\ get_rfcomm_msg_type(b) = type

\* The L2CAP length and the octets sent are those of the frame in the buffer.
create_l2cap_bframe_rfcomm_pkt(b) == [i \in 1..get_rfcomm_pkt_size(b) |-> b[i - 1]]

\* The frame is consumed and each buffer of frames is sent, one made in the other.
Answer(frames) ==
    /\ toDev' = Tail(toDev)
    /\ buf' = processed(Last(frames))
    /\ toPeer' = toPeer \o [i \in DOMAIN frames |-> create_l2cap_bframe_rfcomm_pkt(frames[i])]

Ignore(b) == toDev' = Tail(toDev) /\ buf' = processed(b) /\ UNCHANGED toPeer

SetState(state, transition) ==
    rfcomm_state' = state /\ rfcomm_state_transition' = transition

NewState == <<rfcomm_state, rfcomm_state_transition>>

\* A UA for the frame in b.
ua(b) == create_rfcomm_pkt(b, get_rfcomm_server_ch_addr(b), 0, 1, MSG_CMD, UA)

\* A message in b becomes a UIH frame with len octets of information.
uih(b, len, cmdresp) ==
    create_rfcomm_pkt(b, get_rfcomm_server_ch_addr(b), len, 0, cmdresp, UIH)

\* Mutant of ReceiveSabm: the multiplexer's own channel is always acknowledged.
SabmAnswerOnMux(b) ==
    /\ IsFrame(b, SABM)
    /\ Answer(<<ua(Put(b, 0, 3))>>)
    /\ SetState("RFCOMM_CONNECT", "RFCOMM_IDLE")
    /\ UNCHANGED <<pn_config, credit_cnt, others>>

ReceiveSabm(b) ==
    /\ IsFrame(b, SABM)
    /\ Answer(<<ua(b)>>)
    /\ SetState("RFCOMM_CONNECT", "RFCOMM_IDLE")
    /\ UNCHANGED <<pn_config, credit_cnt, others>>

\* Mutant of our_pn: the length of the message without its header.
PnLengthEight(b) == uih(create_pn_msg(b, MSG_CMD, pn_config), 8, MSG_CMD)

our_pn(b) == uih(create_pn_msg(b, MSG_CMD, pn_config), 10, MSG_CMD)

ReceiveUa(b) ==
    /\ IsFrame(b, UA)
    /\ IF connect_initiate = "LOCAL"
         THEN /\ Answer(<<our_pn(b)>>)
              /\ SetState("RFCOMM_PN_REQUEST", "RFCOMM_ACTIVE")
         ELSE /\ Ignore(b)
              /\ SetState(rfcomm_state, "RFCOMM_IDLE")
    /\ UNCHANGED <<pn_config, credit_cnt, others>>

ReceiveDm(b) ==
    /\ IsFrame(b, DM)
    /\ Ignore(b)
    /\ UNCHANGED <<pn_config, NewState, credit_cnt, others>>

ReceiveDisc(b) ==
    /\ IsFrame(b, DISC)
    /\ Answer(<<ua(b)>>)
    /\ UNCHANGED <<pn_config, NewState, credit_cnt, others>>

IsData(b) == IsFrame(b, UIH) /\ get_rfcomm_server_ch_addr(b) # MSG_DLCI

\* A frame with the P/F bit gives us credits, which are printed.
ReceiveCredits(b) ==
    /\ IsData(b)
    /\ get_control_field_poll_final_bit(b) = 1
    /\ Ignore(b)
    /\ UNCHANGED <<pn_config, NewState, credit_cnt, others>>

\* Mutant of ReceiveData: the counter is not set back after a grant.
DataCountNoReset(b) ==
    /\ IsData(b)
    /\ get_control_field_poll_final_bit(b) = 0
    /\ IF credit_cnt = MAX_CREDIT_CNT
         THEN Answer(<<create_credit_pkt(b, get_rfcomm_server_ch_addr(b),
                                         0, MSG_CMD, MAX_CREDIT_CNT)>>)
         ELSE Ignore(b)
    /\ credit_cnt' = credit_cnt + 1
    /\ UNCHANGED <<pn_config, NewState, others>>

ReceiveData(b) ==
    /\ IsData(b)
    /\ get_control_field_poll_final_bit(b) = 0
    /\ IF credit_cnt = MAX_CREDIT_CNT
         THEN /\ Answer(<<create_credit_pkt(b, get_rfcomm_server_ch_addr(b),
                                            0, MSG_CMD, MAX_CREDIT_CNT)>>)
              /\ credit_cnt' = 1
         ELSE /\ Ignore(b)
              /\ credit_cnt' = credit_cnt + 1
    /\ UNCHANGED <<pn_config, NewState, others>>

our_msc(b, len) == uih(create_msc_msg(b, MSG_CMD, 128 + 8 + 4), len, MSG_CMD)

\* PN with credit support 14, and the device has opened the channel: the second
\* macro call names rfcomm_state too and stores RFCOMM_ACTIVE, which is 0, in it.
ReceivePnLocal(b) ==
    /\ IsMessage(b, PN)
    /\ get_rfcomm_msg_credit_conf_pkt(b) = PN_CREDIT_SUPPORT_ACK
    /\ connect_initiate = "LOCAL"
    /\ Answer(<<our_msc(b, 4)>>)
    /\ SetState("RFCOMM_NONE", rfcomm_state_transition)
    /\ UNCHANGED <<pn_config, credit_cnt, others>>

\* The peer has opened it: the parameters are stored, is_valid_pn changes nothing,
\* and the message goes back as it came, as a response.
ReceivePnRemote(b) ==
    /\ IsMessage(b, PN)
    /\ get_rfcomm_msg_credit_conf_pkt(b) = PN_CREDIT_SUPPORT_ACK
    /\ connect_initiate = "REMOTE"
    /\ pn_config' = [n \in 0..7 |-> get_rfcomm_msg_payload_uih_param(b, n)]
    /\ Answer(<<create_uih_pkt(b, get_rfcomm_server_ch_addr(b),
                               get_rfcomm_payload_len(b), 0, MSG_RESP)>>)
    /\ UNCHANGED <<NewState, credit_cnt, others>>

\* Mutant of ReceivePnOther: only the multiplexer's own requests are answered.
PnOtherIgnored(b) ==
    /\ IsMessage(b, PN)
    /\ get_rfcomm_msg_credit_conf_pkt(b) # PN_CREDIT_SUPPORT_ACK
    /\ Ignore(b)
    /\ UNCHANGED <<pn_config, NewState, credit_cnt, others>>

\* Any other PN, the peer's request with 15 among them, jumps over the cases
\* nested in the if into the code of RPN commands: two octets are overwritten, and
\* the message goes back with its own C/R bit.
ReceivePnOther(b) ==
    /\ IsMessage(b, PN)
    /\ get_rfcomm_msg_credit_conf_pkt(b) # PN_CREDIT_SUPPORT_ACK
    /\ Answer(<<uih(set_rpn_pm(b), get_rfcomm_payload_len(b), MSG_RESP)>>)
    /\ UNCHANGED <<pn_config, NewState, credit_cnt, others>>

\* Mutant of ReceiveMscResponse: the return is missing.
MscResponseFallsThrough(b) ==
    /\ IsMessage(b, MSC)
    /\ get_rfcomm_msg_type_cr(b) = MSG_RESP
    /\ Answer(<<our_msc(b, get_rfcomm_payload_len(b))>>)
    /\ UNCHANGED <<pn_config, NewState, credit_cnt, others>>

\* Mutant of ReceiveMscResponse: the port is not configured.
MscResponseEnds(b) ==
    /\ IsMessage(b, MSC)
    /\ get_rfcomm_msg_type_cr(b) = MSG_RESP
    /\ Ignore(b)
    /\ SetState("RFCOMM_PN_CONFIRM", "RFCOMM_IDLE")
    /\ UNCHANGED <<pn_config, credit_cnt, others>>

ReceiveMscResponse(b) ==
    /\ IsMessage(b, MSC)
    /\ get_rfcomm_msg_type_cr(b) = MSG_RESP
    /\ IF connect_initiate = "LOCAL"
         THEN /\ Answer(<<uih(create_rpn_msg(b, MSG_CMD, initial_rpn_config),
                              10, MSG_CMD)>>)
              /\ SetState("RFCOMM_RPN_REQUEST", "RFCOMM_ACTIVE")
         ELSE /\ Ignore(b)
              /\ SetState("RFCOMM_PN_CONFIRM", "RFCOMM_IDLE")
    /\ UNCHANGED <<pn_config, credit_cnt, others>>

\* The signals go back as a response; then our own, in a frame of the same length.
ReceiveMscCommand(b) ==
    /\ IsMessage(b, MSC)
    /\ get_rfcomm_msg_type_cr(b) = MSG_CMD
    /\ LET len == get_rfcomm_payload_len(b)
           response == uih(set_rfcomm_msg_type_cr(b, MSG_RESP), len, MSG_RESP)
       IN  Answer(<<response, our_msc(response, len)>>)
    /\ UNCHANGED <<pn_config, NewState, credit_cnt, others>>

\* RPN, commands too, and the messages that are only printed.
ReceiveOtherMessage(b) ==
    /\ IsFrame(b, UIH)
    /\ get_rfcomm_server_ch_addr(b) = MSG_DLCI
    /\ get_rfcomm_msg_type(b) \notin {PN, MSC}
    /\ Ignore(b)
    /\ UNCHANGED <<pn_config, NewState, credit_cnt, others>>

\* Button S2. The channel bits of the first octet are those of the cleared buffer.
rfcomm_connect_request ==
    /\ connect_initiate = "LOCAL"
    /\ Spend("presses")
    /\ buf' = create_rfcomm_pkt(buf, 0, 0, 1, MSG_CMD, SABM)
    /\ toPeer' = Append(toPeer, create_l2cap_bframe_rfcomm_pkt(buf'))
    /\ UNCHANGED <<connect_initiate, pn_config, NewState, credit_cnt, toDev, peer,
                   awaiting>>

Handler ==
    /\ toDev # <<>>
    /\ \E b \in {Load(buf, Head(toDev))} :
        \/ ReceiveSabm(b) \/ ReceiveUa(b) \/ ReceiveDm(b) \/ ReceiveDisc(b)
        \/ ReceiveCredits(b) \/ ReceiveData(b)
        \/ ReceivePnLocal(b) \/ ReceivePnRemote(b) \/ ReceivePnOther(b)
        \/ ReceiveMscResponse(b) \/ ReceiveMscCommand(b) \/ ReceiveOtherMessage(b)

-----------------------------------------------------------------------------
(* The peer, by the RFCOMM specification: frames are built and read without   *)
(* the device's code.                                                         *)

\* C/R of a command is 1 from the initiator of the session.
CommandBit(cmdresp) ==
    IF connect_initiate = "REMOTE" THEN cmdresp ELSE 1 - cmdresp

PeerFrame(dlci, cmdresp, type, credits, info) ==
    LET pf == IF type = UIH THEN Len(credits) ELSE 1
        header == <<4 * dlci + 2 * CommandBit(cmdresp) + 1, type + 16 * pf,
                    2 * Len(info) + 1>>
    IN  header \o credits \o info
            \o <<ReferenceFcs(IF type = UIH THEN SubSeq(header, 1, 2) ELSE header)>>

Message(type, cmdresp, params) ==
    PeerFrame(MSG_DLCI, cmdresp, UIH, <<>>,
              <<type + 2 * cmdresp + 1, 2 * Len(params) + 1>> \o params)

Dlci(f) == f[1] \div 4
Type(f) == IF f[2] \in FrameTypes THEN f[2] ELSE f[2] - 16
CreditOctets(f) == IF Type(f) = UIH THEN (f[2] \div 16) % 2 ELSE 0
Info(f) == SubSeq(f, 4 + CreditOctets(f), Len(f) - 1)
Holds(f, type, cmdresp) == /\ Type(f) = UIH /\ Dlci(f) = MSG_DLCI
                           /\ Info(f)[1] = type + 2 * cmdresp + 1
Params(f) == SubSeq(Info(f), 3, 2 + Info(f)[2] \div 2)

Respond(answers) == toPeer' = Tail(toPeer) /\ toDev' = toDev \o answers

PeerUnchanged == <<device, connect_initiate, left>>

\* Our SABM is accepted or refused.
PeerGetsSabm ==
    /\ toPeer # <<>> /\ Type(Head(toPeer)) = SABM
    /\ \/ /\ Respond(<<PeerFrame(Dlci(Head(toPeer)), MSG_RESP, UA, <<>>, <<>>)>>)
          /\ peer' = [peer EXCEPT !.mux = "open"]
       \/ /\ Respond(<<PeerFrame(Dlci(Head(toPeer)), MSG_RESP, DM, <<>>, <<>>)>>)
          /\ UNCHANGED peer
    /\ UNCHANGED <<PeerUnchanged, awaiting>>

Channel(dlci) == IF dlci = MSG_DLCI THEN "mux" ELSE "dlc"

PeerGetsUa ==
    /\ toPeer # <<>> /\ Type(Head(toPeer)) = UA
    /\ Respond(<<>>)
    /\ awaiting' = Tail(awaiting)
    /\ LET channel == Channel(Dlci(Head(toPeer)))
       IN  peer' = IF peer[channel] = "asked" THEN [peer EXCEPT ![channel] = "open"]
                   ELSE IF channel = "mux"
                     THEN [peer EXCEPT !.mux = "closed", !.pn = "none", !.ours = "none"]
                   ELSE [peer EXCEPT !.dlc = "closed"]
    /\ UNCHANGED PeerUnchanged

\* The device's request, or the peer's own that has come back as a command.
PeerGetsPnCommand ==
    /\ toPeer # <<>> /\ Holds(Head(toPeer), PN, MSG_CMD)
    /\ \E support \in IF connect_initiate = "LOCAL" THEN PnAnswers
                      ELSE {PN_CREDIT_SUPPORT_ACK} :
        /\ Respond(<<Message(PN, MSG_RESP,
                        [Params(Head(toPeer)) EXCEPT ![2] = 16 * support])>>)
        /\ peer' = IF connect_initiate = "REMOTE" THEN peer
                   ELSE IF support = 0 THEN [peer EXCEPT !.ours = "refused"]
                   ELSE [peer EXCEPT !.ours = "accepted", !.rpn = FALSE]
    /\ UNCHANGED <<PeerUnchanged, awaiting>>

PeerGetsPnResponse ==
    /\ toPeer # <<>> /\ Holds(Head(toPeer), PN, MSG_RESP)
    /\ Respond(<<>>)
    /\ peer' = IF Params(Head(toPeer))[2] \div 16 = PN_CREDIT_SUPPORT_ACK
                 THEN [peer EXCEPT !.pn = "confirmed"] ELSE peer
    /\ UNCHANGED <<PeerUnchanged, awaiting>>

PeerGetsMscCommand ==
    /\ toPeer # <<>> /\ Holds(Head(toPeer), MSC, MSG_CMD)
    /\ Respond(<<Message(MSC, MSG_RESP, Params(Head(toPeer)))>>)
    /\ UNCHANGED <<PeerUnchanged, peer, awaiting>>

PeerGetsRpnCommand ==
    /\ toPeer # <<>> /\ Holds(Head(toPeer), RPN, MSG_CMD)
    /\ Respond(<<Message(RPN, MSG_RESP, Params(Head(toPeer)))>>)
    /\ peer' = [peer EXCEPT !.rpn = TRUE]
    /\ UNCHANGED <<PeerUnchanged, awaiting>>

\* Credits and responses to MSC, and whatever else comes.
PeerGetsOther ==
    /\ toPeer # <<>> /\ Type(Head(toPeer)) \notin {SABM, UA}
    /\ ~Holds(Head(toPeer), RPN, MSG_CMD) /\ ~Holds(Head(toPeer), MSC, MSG_CMD)
    /\ \A kind \in {MSG_CMD, MSG_RESP} : ~Holds(Head(toPeer), PN, kind)
    /\ Respond(<<>>)
    /\ UNCHANGED <<PeerUnchanged, peer, awaiting>>

PeerReceives ==
    \/ PeerGetsSabm \/ PeerGetsUa \/ PeerGetsPnCommand \/ PeerGetsPnResponse
    \/ PeerGetsMscCommand \/ PeerGetsRpnCommand \/ PeerGetsOther

\* What the peer does of its own accord.
Sends(what, frame) ==
    /\ Spend(what)
    /\ toDev' = Append(toDev, frame)
    /\ UNCHANGED <<device, toPeer, connect_initiate>>

\* SABM or DISC on a channel.
Command(type, dlci, state) ==
    /\ Sends("commands", PeerFrame(dlci, MSG_CMD, type, <<>>, <<>>))
    /\ awaiting' = Append(awaiting, dlci)
    /\ peer' = [peer EXCEPT ![Channel(dlci)] = state]

PeerOpensMux == /\ connect_initiate = "REMOTE" /\ peer.mux = "closed"
                /\ Command(SABM, MSG_DLCI, "asked")

PeerOpensData == /\ peer.mux = "open" /\ peer.pn = "confirmed" /\ peer.dlc = "closed"
                 /\ Command(SABM, DataDlci, "asked")

\* A peer that waits for its PN request to be confirmed does not close.
PeerCloses == \/ /\ peer.dlc = "open"
                 /\ Command(DISC, DataDlci, "leaving")
              \/ /\ peer.mux = "open" /\ peer.dlc = "closed" /\ peer.pn # "asked"
                 /\ Command(DISC, MSG_DLCI, "leaving")

\* The request of a peer that wants to open a data channel, in a session of
\* either side: credits, frames of 100 octets.
PeerAsksPn ==
    /\ peer.mux = "open" /\ peer.pn = "none"
    /\ Sends("commands", Message(PN, MSG_CMD,
                <<DataDlci, 16 * PN_CREDIT_SUPPORT_REQ, 7, 0, 100, 0, 0, 5>>))
    /\ peer' = [peer EXCEPT !.pn = "asked"]
    /\ UNCHANGED awaiting

PeerSendsMessage ==
    /\ peer.mux = "open"
    /\ \E m \in PeerMessages : Sends("messages", Message(m[1], MSG_CMD, m[2]))
    /\ UNCHANGED <<peer, awaiting>>

PeerSendsData ==
    /\ peer.dlc = "open"
    /\ \E credits \in {<<>>, <<5>>} :
        Sends("data", PeerFrame(DataDlci, MSG_CMD, UIH, credits, <<65>>))
    /\ UNCHANGED <<peer, awaiting>>

PeerStarts ==
    \/ PeerOpensMux \/ PeerOpensData \/ PeerCloses
    \/ PeerAsksPn \/ PeerSendsMessage \/ PeerSendsData

-----------------------------------------------------------------------------
Next == Handler \/ rfcomm_connect_request \/ PeerReceives \/ PeerStarts

Spec == Init /\ [][Next]_vars

\* Frames arrive and are handled, and the peer answers what it gets: the oldest
\* frame of a queue is taken.  Only Handler and PeerReceives take frames, and a
\* frame of any type (TypeOK) has a disjunct of them that takes it.
FairSpec == /\ Spec
            /\ WF_toDev(toDev # <<>> /\ toDev' = Tail(toDev))
            /\ WF_toPeer(toPeer # <<>> /\ toPeer' = Tail(toPeer))

-----------------------------------------------------------------------------
TypeOK ==
    /\ buf \in Buffer
    /\ connect_initiate \in {"LOCAL", "REMOTE"}
    /\ pn_config \in [0..7 -> Octet]
    /\ rfcomm_state \in {"RFCOMM_NONE", "RFCOMM_CONNECT", "RFCOMM_PN_REQUEST",
                         "RFCOMM_PN_CONFIRM", "RFCOMM_RPN_REQUEST"}
    /\ rfcomm_state_transition \in {"RFCOMM_ACTIVE", "RFCOMM_IDLE"}
    /\ credit_cnt \in 1..MAX_CREDIT_CNT
    /\ toPeer \in Seq(Seq(Octet)) /\ toDev \in Seq(Seq(Octet))
    /\ \A n \in DOMAIN toDev : Type(toDev[n]) \in FrameTypes
    /\ peer \in [mux : {"closed", "asked", "open", "leaving"},
                 dlc : {"closed", "asked", "open", "leaving"},
                 pn : {"none", "asked", "confirmed"},
                 ours : {"none", "accepted", "refused"},
                 rpn : BOOLEAN]
    /\ awaiting \in Seq({MSG_DLCI, DataDlci})

(* A frame the device sends is one to its reader: no address or length octet   *)
(* is extended, its length is the one L2CAP is given, a credit octet counted,  *)
(* and its sum, read where the header says, is that of the bit by bit          *)
(* definition (set_rfcomm_fcs, get_rfcomm_pkt_size, rfcomm.c:589-651).         *)
FramesReadable ==
    \A n \in DOMAIN toPeer :
        LET f == toPeer[n]
        IN  /\ f[1] % 2 = 1 /\ f[3] % 2 = 1 /\ Type(f) \in FrameTypes
            /\ Len(f) = 4 + CreditOctets(f) + f[3] \div 2
            /\ f[Len(f)] = ReferenceFcs(SubSeq(f, 1, IF Type(f) = UIH THEN 2 ELSE 3))

(* A frame on DLCI 0 holds the whole message in it, also where the device puts *)
(* its MSC into a frame of the length of the peer's (l2cap.c:1206-1212).       *)
MessagesWhole ==
    \A n \in DOMAIN toPeer :
        LET f == toPeer[n]
        IN  Type(f) = UIH /\ Dlci(f) = MSG_DLCI =>
                /\ Len(Info(f)) >= 2
                /\ Info(f)[1] % 2 = 1 /\ Info(f)[2] % 2 = 1
                /\ 2 + Info(f)[2] \div 2 <= Len(Info(f))

(* Every SABM and DISC of the peer gets one UA, on its own DLCI and in order:  *)
(* the UAs under way to the peer and the commands under way to the device are  *)
(* together the commands without an answer (l2cap.c:761-809, 872-915).         *)
Dlcis(queue, types) ==
    LET upto[n \in 0..Len(queue)] ==
            IF n = 0 THEN <<>>
            ELSE IF Type(queue[n]) \in types THEN Append(upto[n - 1], Dlci(queue[n]))
            ELSE upto[n - 1]
    IN  upto[Len(queue)]
UaInOrder == awaiting = Dlcis(toPeer, {UA}) \o Dlcis(toDev, {SABM, DISC})

(* "The addr or the dlci is equal to 0" (rfcomm.c:198), "ack timer set to 0"   *)
(* (rfcomm.c:347): the device writes neither the channel of a SABM nor the     *)
(* timer of a PN.  Both are right only because the buffer is cleared after     *)
(* every packet, by a memset marked "TODO:Remove below" (hci.c:913, 925), and  *)
(* the frames answered with them are too short to reach the octet.             *)
NothingStale ==
    \A n \in DOMAIN toPeer :
        /\ Type(toPeer[n]) = SABM => Dlci(toPeer[n]) = MSG_DLCI
        /\ Holds(toPeer[n], PN, MSG_CMD) =>
              Params(toPeer[n])[1 + ACK_TIMER_OFFSET] = 0

(* A response is never taken for a command: with a peer that answers each      *)
(* command once the two sides stop (the return of l2cap.c:1152).               *)
Settles == <>[](toPeer = <<>> /\ toDev = <<>>)

(* "Respond with a PN response value of 14 (0xE)" (l2cap.c:1073): in a session *)
(* the peer has opened, its request for parameters is confirmed, although it   *)
(* takes the path of RPN commands and comes back as a request first            *)
(* (l2cap.c:1014, 1241-1275).  In a session we have opened, where the peer     *)
(* asks as well (PeerAsksPn), it is not: its response to that request is taken *)
(* for the one to our own, and the code returns before it confirms anything    *)
(* (l2cap.c:1018-1057).  Without the restriction the property fails there.     *)
PnConfirmed == connect_initiate = "REMOTE" /\ peer.pn = "asked" ~> peer.pn = "confirmed"

(* A session the device has started goes on until the port is configured,      *)
(* whatever else the peer sends meanwhile (l2cap.c:810-857, 1113-1152).        *)
PortConfigured == peer.ours = "accepted" ~> peer.rpn
=============================================================================
