------------------------------ MODULE MCUartTx ------------------------------
(***************************************************************************)
(* A queue of four slots (three bytes), so that an ACL packet is longer    *)
(* than the queue and the retry loop, the wrap and the full queue occur.   *)
(***************************************************************************)
EXTENDS UartTx

\* A packet from the program and two replies, in one handler or in two.
OneAndTwo == [p \in {"main", "rx"} |-> IF p = "main" THEN 1 ELSE 2]

\* One packet each.
OneAndOne == [p \in {"main", "rx"} |-> 1]
=============================================================================
