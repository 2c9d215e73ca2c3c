-------------------------- MODULE MCRfcommCredit ----------------------------
(* Instances of RfcommCredit for TLC.                                        *)
EXTENDS RfcommCredit

CONSTANTS s1, s2

OneSession == {s1}
TwoSessions == {s1, s2}
=============================================================================
