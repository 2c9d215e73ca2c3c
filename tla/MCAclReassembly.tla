-------------------------- MODULE MCAclReassembly ---------------------------
(* Instances of AclReassembly for TLC.                                       *)
EXTENDS AclReassembly

CONSTANTS link1, link2

TwoLinks == {link1, link2}
TwoSizes == {1, 5}
AllAssumed == AssumptionNames
=============================================================================
