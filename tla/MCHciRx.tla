------------------------------ MODULE MCHciRx ------------------------------
(***************************************************************************)
(* For the parser: a receive queue of seven slots, with events of up to    *)
(* its six bytes and ACL packets of up to the five the copy loop can       *)
(* count.  For the frame length the stack offers its peers: the constants  *)
(* of the code.                                                            *)
(***************************************************************************)
EXTENDS HciRx

\* L2CAP_BUFF_SIZE: L2CAP_PAYLOAD_MTU (341) and the four bytes of header.
OfferedFrame == {345}
=============================================================================
