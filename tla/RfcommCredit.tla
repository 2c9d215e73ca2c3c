---------------------------- MODULE RfcommCredit ----------------------------
(* Credit based flow control of RFCOMM data, as the UIH handler of l2cap.c   *)
(* grants it: the peer spends a credit on every data frame, the device       *)
(* counts frames in credit_cnt, one counter for all sessions, and grants     *)
(* MAX_CREDIT_CNT more whenever the counter is full. Only how many frames    *)
(* and grants of a session are under way matters; sessions use channels of   *)
(* their own, so frames of different sessions may overtake each other.       *)
EXTENDS Integers

CONSTANTS
    Sessions,         \* RFCOMM sessions, each opened at most once
    MAX_CREDIT_CNT,   \* credits in a grant
    INITIAL_CREDITS,  \* RFCOMM_PN_INITIAL_CREDITS, in our PN command
    PfCost,           \* credits a frame with the P/F bit costs the peer: 0 if
                      \* it carries credits only, 1 if it carries data too
    MaxUnderWay       \* bound: frames of a session under way to us

\* credit_cnt and the credit field of a frame are octets.
ASSUME CreditAssumption ==
    /\ INITIAL_CREDITS \in Nat \ {0}
    /\ MAX_CREDIT_CNT \in Nat \ {0}
    /\ INITIAL_CREDITS + MAX_CREDIT_CNT <= 255
    /\ PfCost \in {0, 1}
    /\ MaxUnderWay \in Nat \ {0}

VARIABLES
    credit_cnt,  \* frames counted since the last grant
    session,     \* "new", "open" or "closed"
    credits,     \* what the peer may still send
    data,        \* data frames under way to the device
    pf,          \* frames with the P/F bit under way to the device
    grants       \* credit frames under way to the peer

vars == <<credit_cnt, session, credits, data, pf, grants>>

Init ==
    /\ credit_cnt = MAX_CREDIT_CNT
    /\ session = [s \in Sessions |-> "new"]
    /\ credits = [s \in Sessions |-> 0]
    /\ data = [s \in Sessions |-> 0]
    /\ pf = [s \in Sessions |-> 0]
    /\ grants = [s \in Sessions |-> 0]

-----------------------------------------------------------------------------
(* The device.                                                               *)

\* The peer has accepted our PN command. Nothing is done to credit_cnt: what
\* rfcomm_init sets is a field of the connection that nobody reads.
Open(s) ==
    /\ session[s] = "new"
    /\ session' = [session EXCEPT ![s] = "open"]
    /\ credits' = [credits EXCEPT ![s] = INITIAL_CREDITS]
    /\ UNCHANGED <<credit_cnt, data, pf, grants>>

\* Mutant of Count: the count of a grant starts at the frame after it.
CountFromZero(s) ==
    IF credit_cnt = MAX_CREDIT_CNT
      THEN /\ grants' = [grants EXCEPT ![s] = @ + 1]
           /\ credit_cnt' = 0
      ELSE /\ credit_cnt' = credit_cnt + 1
           /\ UNCHANGED grants

\* Mutant of Count: the grant waits until the counter is beyond its maximum.
CountTooLate(s) ==
    IF credit_cnt > MAX_CREDIT_CNT
      THEN /\ grants' = [grants EXCEPT ![s] = @ + 1]
           /\ credit_cnt' = 1
      ELSE /\ credit_cnt' = credit_cnt + 1
           /\ UNCHANGED grants

\* Mutant of Count: the counter is not set back after a grant.
CountNoReset(s) ==
    IF credit_cnt = MAX_CREDIT_CNT
      THEN /\ grants' = [grants EXCEPT ![s] = @ + 1]
           /\ UNCHANGED credit_cnt
      ELSE /\ credit_cnt' = credit_cnt + 1
           /\ UNCHANGED grants

\* A full counter is granted and set to 0; then the frame itself is counted.
Count(s) ==
    IF credit_cnt = MAX_CREDIT_CNT
      THEN /\ grants' = [grants EXCEPT ![s] = @ + 1]
           /\ credit_cnt' = 1
      ELSE /\ credit_cnt' = credit_cnt + 1
           /\ UNCHANGED grants

HandleData(s) ==
    /\ data[s] > 0
    /\ data' = [data EXCEPT ![s] = @ - 1]
    /\ Count(s)
    /\ UNCHANGED <<session, credits, pf>>

\* With the P/F bit set only the credits are looked at, not the data.
HandlePf(s) ==
    /\ pf[s] > 0
    /\ pf' = [pf EXCEPT ![s] = @ - 1]
    /\ UNCHANGED <<credit_cnt, session, credits, data, grants>>

-----------------------------------------------------------------------------
(* The peer.                                                                 *)

SendData(s) ==
    /\ session[s] = "open" /\ credits[s] > 0
    /\ data[s] + pf[s] < MaxUnderWay
    /\ credits' = [credits EXCEPT ![s] = @ - 1]
    /\ data' = [data EXCEPT ![s] = @ + 1]
    /\ UNCHANGED <<credit_cnt, session, pf, grants>>

\* Credits for the device, which never sends data, perhaps with data.
SendPf(s) ==
    /\ session[s] = "open" /\ credits[s] >= PfCost
    /\ data[s] + pf[s] < MaxUnderWay
    /\ credits' = [credits EXCEPT ![s] = @ - PfCost]
    /\ pf' = [pf EXCEPT ![s] = @ + 1]
    /\ UNCHANGED <<credit_cnt, session, data, grants>>

TakeGrant(s) ==
    /\ grants[s] > 0
    /\ grants' = [grants EXCEPT ![s] = @ - 1]
    /\ credits' = [credits EXCEPT ![s] = @ + MAX_CREDIT_CNT]
    /\ UNCHANGED <<credit_cnt, session, data, pf>>

\* DISC comes after the data, on the same channel.
Close(s) ==
    /\ session[s] = "open"
    /\ data[s] = 0 /\ pf[s] = 0
    /\ session' = [session EXCEPT ![s] = "closed"]
    /\ UNCHANGED <<credit_cnt, credits, data, pf, grants>>

-----------------------------------------------------------------------------
Device == \E s \in Sessions : Open(s) \/ HandleData(s) \/ HandlePf(s)

Peer == \E s \in Sessions : \/ SendData(s) \/ SendPf(s)
                            \/ TakeGrant(s) \/ Close(s)

Next == Device \/ Peer

\* Frames arrive and are handled. The peer need not send.
Fairness == \A s \in Sessions :
    WF_vars(HandleData(s)) /\ WF_vars(HandlePf(s)) /\ WF_vars(TakeGrant(s))

Spec == Init /\ [][Next]_vars /\ Fairness

-----------------------------------------------------------------------------
(* Counters keep their type and credit_cnt stays in the range in which the   *)
(* comparison with MAX_CREDIT_CNT (l2cap.c:938) is met again.                *)
TypeOK ==
    /\ credit_cnt \in 1 .. MAX_CREDIT_CNT
    /\ session \in [Sessions -> {"new", "open", "closed"}]
    /\ credits \in [Sessions -> Nat]
    /\ data \in [Sessions -> Nat]
    /\ pf \in [Sessions -> Nat]
    /\ grants \in [Sessions -> Nat]

(* "Figure how to sustain a data stream for rfcomm ... Fixed" (todo.txt:104) *)
(* The peer of an open session can send, or something is under way after     *)
(* which it can: it is never left without credits while the device waits for *)
(* more frames before it grants any.                                         *)
NeverStarved ==
    \A s \in Sessions : session[s] = "open" =>
        credits[s] > 0 \/ data[s] > 0 \/ grants[s] > 0

(* The peer is never granted more than its first credits and one full grant: *)
(* it stays within the octet of the credit field (l2cap.c:939-943).          *)
GrantsBounded ==
    \A s \in Sessions :
        credits[s] + data[s] + MAX_CREDIT_CNT * grants[s]
            < INITIAL_CREDITS + MAX_CREDIT_CNT

(* A peer without credits gets some again.                                   *)
StreamFlows ==
    \A s \in Sessions :
        session[s] = "open" /\ credits[s] = 0
            ~> session[s] = "closed" \/ credits[s] > 0
=============================================================================
