---------------------------- MODULE MCConnTable ----------------------------
(* Instances of ConnTable for TLC: two slots as in the code, three devices.  *)
EXTENDS ConnTable

CONSTANTS t, a, b

ThreePeers == {t, a, b}
Others == {a, b}
ThreeHandles == 1 .. 3
AllAssumed == AssumptionNames
ReusedHandles == AssumptionNames \ {"handles"}
LongResults == AssumptionNames \ {"results"}
=============================================================================
