--------------------------- MODULE MCL2capSignal ----------------------------
(* Instances of L2capSignal for TLC.                                         *)
EXTENDS L2capSignal

\* First both values are unacceptable, later the flush timeout only.
SomeOptions == LET bad == [mtu |-> "bad", fto |-> "bad"]
                   half == [mtu |-> "none", fto |-> "bad"]
               IN  <<{bad}, {half}, {half}>>

\* The first peer keeps the device waiting or refuses it, and its answers name
\* the options; the second accepts everything in the shortest way.
WaitOrRefuse == <<{"pending", "refused"}, {"success"}>>
SomeAnswers == <<{[result |-> "success", opt |-> OurOptions]},
                 {[result |-> "success", opt |-> NoOptions]}>>
=============================================================================
