----------------------------- MODULE RfcommFrame -----------------------------
(* RFCOMM frames as rfcomm.c and the macros of rfcomm.h read and write them.  *)
(* A buffer holds the octets of l2cap_pkt_buff from the L2CAP payload on.     *)
(* Frames are built in the buffer that still holds the frame they answer, so  *)
(* an octet or a bit that no macro writes keeps its old value.  An operator   *)
(* with a buffer parameter b returns the buffer the C function leaves.        *)
EXTENDS Fcs

BufSize == 14    \* the longest frame, PN or RPN, has 14 octets
Index == 0..(BufSize - 1)
Buffer == [Index -> Octet]

SABM == \h2F
UA   == \h63
DM   == \h0F
DISC == \h43
UIH  == \hEF
FrameTypes == {SABM, UA, DM, DISC, UIH}

PN  == \h80
MSC == \hE0
RPN == \h90

MSG_CMD  == 1
MSG_RESP == 0
MSG_DLCI == 0
EA_ENABLE == 0
RFCOMM_HEADER_SIZE == 2

PN_CREDIT_SUPPORT_REQ == \hF
PN_CREDIT_SUPPORT_ACK == \hE

-----------------------------------------------------------------------------
(* Reading a frame.                                                           *)

get_rfcomm_server_ch_addr(b) == b[0] \div 8

\* Without the P/F bit.
get_rfcomm_control_field(b) == b[1] - 16 * ((b[1] \div 16) % 2)

get_control_field_poll_final_bit(b) == (b[1] \div 16) % 2

get_rfcomm_len_size(b) == IF b[2] % 2 = EA_ENABLE THEN 2 ELSE 1

get_rfcomm_payload_len(b) ==
    IF b[2] % 2 = EA_ENABLE THEN ((b[2] \div 2) + 128 * b[3]) % 256 ELSE b[2] \div 2

get_rfcomm_payload_offset(b) == RFCOMM_HEADER_SIZE + get_rfcomm_len_size(b)

\* Where the sum is: after the payload and, in a UIH frame, the octet of credits.
fcs_offset(b) ==
    RFCOMM_HEADER_SIZE + get_rfcomm_payload_len(b) + get_rfcomm_len_size(b)
    + IF get_rfcomm_control_field(b) = UIH THEN get_control_field_poll_final_bit(b) ELSE 0

\* Mutant of get_rfcomm_pkt_size: the octet of credits is not counted.
SizeWithoutCredits(b) ==
    RFCOMM_HEADER_SIZE + get_rfcomm_payload_len(b) + get_rfcomm_len_size(b) + 1

get_rfcomm_pkt_size(b) == fcs_offset(b) + 1

\* Without the EA and C/R bits.
get_rfcomm_msg_type(b) ==
    LET type == b[get_rfcomm_payload_offset(b)] IN type - (type % 4)

get_rfcomm_msg_type_cr(b) == (b[get_rfcomm_payload_offset(b)] \div 2) % 2

get_rfcomm_msg_payload_offset(b) == get_rfcomm_payload_offset(b) + 2

get_rfcomm_msg_payload_uih_param(b, n) == b[get_rfcomm_msg_payload_offset(b) + n]

get_rfcomm_msg_credit_conf_pkt(b) == get_rfcomm_msg_payload_uih_param(b, 1) \div 16

-----------------------------------------------------------------------------
(* Writing a frame.                                                           *)

Put(b, i, octet) == [b EXCEPT ![i] = octet]

\* n | m, of numbers of five bits.
Or(n, m) ==
    LET bit(w) == w * ((Bit(n, w) + Bit(m, w) + 1) \div 2)
    IN  bit(1) + bit(2) + bit(4) + bit(8) + bit(16)

\* EA is set, C/R follows cmdresp, D is cleared; set_rfcomm_server_channel only
\* adds the bits of the channel to those that are there.
set_address(b, chaddr, cmdresp) ==
    Put(b, 0, 8 * Or(b[0] \div 8, chaddr) + 2 * cmdresp + 1)

set_control(b, frame_type, pfbit) == Put(b, 1, frame_type + 16 * pfbit)

set_length(b, len) == Put(b, 2, ((2 * len) % 256) + 1)

set_rfcomm_fcs(b) ==
    LET covered == IF get_rfcomm_control_field(b) = UIH THEN <<b[0], b[1]>>
                   ELSE <<b[0], b[1], b[2]>>
    IN  Put(b, fcs_offset(b), create_fcs(covered))

create_rfcomm_pkt(b, chaddr, len, pfbit, cmdresp, frame_type) ==
    set_rfcomm_fcs(
        set_length(set_control(set_address(b, chaddr, cmdresp), frame_type, pfbit), len))

set_rfcomm_msg_type_cr(b, cmdresp) ==
    LET type == get_rfcomm_payload_offset(b)
    IN  Put(b, type, b[type] - 2 * Bit(b[type], 2) + 2 * cmdresp)

create_uih_pkt(b, chaddr, len, pfbit, cmdresp) ==
    set_rfcomm_fcs(set_rfcomm_msg_type_cr(
        set_length(set_control(set_address(b, chaddr, cmdresp), UIH, pfbit), len), cmdresp))

create_credit_pkt(b, chaddr, len, cmdresp, credits) ==
    LET header == set_length(set_control(set_address(b, chaddr, cmdresp), UIH, 1), len)
    IN  set_rfcomm_fcs(Put(header, get_rfcomm_payload_offset(header), credits))

-----------------------------------------------------------------------------
(* Messages.                                                                  *)

set_msg_type(b, msg_type, cmdresp) ==
    Put(b, get_rfcomm_payload_offset(b), msg_type + 2 * cmdresp + 1)

\* The EA bit comes from the offset that the macro computes one octet too far.
set_rfcomm_msg_type_len(b, len) ==
    LET shifted == RFCOMM_HEADER_SIZE + IF b[3] % 2 = EA_ENABLE THEN 2 ELSE 1
    IN  Put(b, get_rfcomm_payload_offset(b) + 1, (2 * len) + (b[shifted] % 2))

\* The parameters of a message, from a function of their offsets.
set_params(b, param) ==
    LET at == get_rfcomm_msg_payload_offset(b)
    IN  [i \in Index |-> IF i - at \in DOMAIN param THEN param[i - at] ELSE b[i]]

\* DLCI 20, the signals, and a break octet that the frame may not reach.
msc_params(control_signal) ==
    [n \in 0..2 |-> <<4 * 20 + 3, control_signal - Bit(control_signal, 1) + 1, 0>>[n + 1]]

create_msc_msg(b, cmdresp, control_signal) ==
    set_params(set_rfcomm_msg_type_len(set_msg_type(b, MSC, cmdresp), 2),
               msc_params(control_signal))

\* The offset of the acknowledgement timer is left out.
ACK_TIMER_OFFSET == 3
pn_params(pn_config) == [n \in 0..7 \ {ACK_TIMER_OFFSET} |-> pn_config[n]]

create_pn_msg(b, cmdresp, pn_config) ==
    set_params(set_rfcomm_msg_type_len(set_msg_type(b, PN, cmdresp), 8),
               pn_params(pn_config))

\* The two high bits of the data format keep their old value.
rpn_data_format(b, rpn_config) ==
    64 * (get_rfcomm_msg_payload_uih_param(b, 2) \div 64) + (rpn_config[2] % 64)

rpn_params(b, rpn_config) ==
    [rpn_config EXCEPT ![0] = 4 * 20 + 3, ![2] = rpn_data_format(b, rpn_config),
                       ![3] = @ % 64]

create_rpn_msg(b, cmdresp, rpn_config) ==
    LET header == set_rfcomm_msg_type_len(set_msg_type(b, RPN, cmdresp), 8)
    IN  set_params(header, rpn_params(header, rpn_config))

\* All parameters are named as changed.
set_rpn_pm(b) == set_params(b, [n \in {6, 7} |-> IF n = 6 THEN \h7F ELSE \h3F])

\* What rfcomm_init stores, PN: DLCI 20, UIH frames and credits, priority 7, no
\* timer, frames of 336 octets, no retransmissions, 7 credits; RPN: 115200 baud,
\* 8 data bits, XON 17 and XOFF 19.
initial_pn_config ==
    [n \in 0..7 |-> <<20, 16 * PN_CREDIT_SUPPORT_REQ, 7, 0, 336 % 256, 336 \div 256, 0, 7>>[n + 1]]
initial_rpn_config == [n \in 0..7 |-> <<0, 7, 3, 0, 17, 19, \h7F, \h3F>>[n + 1]]
=============================================================================
