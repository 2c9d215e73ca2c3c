------------------------- MODULE RfcommCreditProof --------------------------
(***************************************************************************)
(* Flow control never starves the only stream, for all credit constants.   *)
(*                                                                         *)
(* NeverStarved is not inductive: that a peer without credits has data or  *)
(* a grant under way is a matter of how far credit_cnt has counted.  The   *)
(* strengthening is a conservation law: what the peer was given, wherever  *)
(* it is, and what the device has counted add up to a constant.            *)
(***************************************************************************)
EXTENDS RfcommCredit, TLAPS

\* There is one session at most, and a frame with the P/F bit has no data.
OneStream == PfCost = 0 /\ \A s, t \in Sessions : s = t

Total(s) == credits[s] + data[s] + MAX_CREDIT_CNT * grants[s]

Untouched ==
  \A s \in Sessions : session[s] = "new" =>
    /\ credit_cnt = MAX_CREDIT_CNT
    /\ credits[s] = 0 /\ data[s] = 0 /\ grants[s] = 0

Conserved ==
  \A s \in Sessions : session[s] # "new" =>
    Total(s) + credit_cnt = INITIAL_CREDITS + MAX_CREDIT_CNT

\* The inductive invariant.
CreditInv == TypeOK /\ Untouched /\ Conserved
-----------------------------------------------------------------------------
\* A grant more, or a grant less, is MAX_CREDIT_CNT credits more or less.
LEMMA GrantWorth ==
  ASSUME NEW g \in Int
  PROVE  /\ MAX_CREDIT_CNT * g \in Int
         /\ MAX_CREDIT_CNT * (g + 1) = MAX_CREDIT_CNT * g + MAX_CREDIT_CNT
         /\ MAX_CREDIT_CNT * (g - 1) = MAX_CREDIT_CNT * g - MAX_CREDIT_CNT
         /\ g \in Nat => MAX_CREDIT_CNT * g >= 0
         /\ MAX_CREDIT_CNT * 0 = 0
  BY CreditAssumption

LEMMA CreditInit == Init => CreditInv
  BY CreditAssumption DEF Init, CreditInv, TypeOK, Untouched, Conserved

\* A data frame handled is counted, or granted and counted.
LEMMA HandleDataStep ==
  ASSUME OneStream, CreditInv, NEW s \in Sessions, HandleData(s)
  PROVE  CreditInv'
<1>1. Sessions = {s} /\ session' = session /\ credits' = credits /\ pf' = pf
  BY DEF OneStream, HandleData
<1>2. /\ data[s] \in Nat /\ data[s] > 0 /\ credits[s] \in Nat /\ grants[s] \in Nat
      /\ credit_cnt \in 1 .. MAX_CREDIT_CNT
  BY DEF HandleData, CreditInv, TypeOK
<1>3. session[s] # "new" /\ Total(s) + credit_cnt = INITIAL_CREDITS + MAX_CREDIT_CNT
  BY <1>2 DEF CreditInv, Untouched, Conserved
<1>4. data' = [data EXCEPT ![s] = @ - 1] /\ data'[s] = data[s] - 1
  BY DEF HandleData, CreditInv, TypeOK
<1>5. CASE credit_cnt = MAX_CREDIT_CNT
  <2>1. credit_cnt' = 1 /\ grants' = [grants EXCEPT ![s] = @ + 1]
    BY <1>5 DEF HandleData, Count
  <2>2. grants'[s] = grants[s] + 1
    BY <2>1 DEF CreditInv, TypeOK
  <2>3. TypeOK'
    BY <1>1, <1>2, <1>4, <2>1, <2>2, CreditAssumption DEF CreditInv, TypeOK
  <2>4. Total(s)' + credit_cnt' = Total(s) + credit_cnt
    BY <1>1, <1>2, <1>4, <1>5, <2>1, <2>2, GrantWorth, CreditAssumption DEF Total
  <2>. QED  BY <1>1, <1>3, <2>3, <2>4 DEF CreditInv, Untouched, Conserved
<1>6. CASE credit_cnt # MAX_CREDIT_CNT
  <2>1. credit_cnt' = credit_cnt + 1 /\ grants' = grants
    BY <1>6 DEF HandleData, Count
  <2>2. TypeOK'
    BY <1>1, <1>2, <1>4, <1>6, <2>1, CreditAssumption DEF CreditInv, TypeOK
  <2>3. Total(s)' + credit_cnt' = Total(s) + credit_cnt
    BY <1>1, <1>2, <1>4, <2>1, GrantWorth, CreditAssumption DEF Total
  <2>. QED  BY <1>1, <1>3, <2>2, <2>3 DEF CreditInv, Untouched, Conserved
<1>. QED  BY <1>5, <1>6

\* A grant taken turns into credits.
LEMMA TakeGrantStep ==
  ASSUME OneStream, CreditInv, NEW s \in Sessions, TakeGrant(s)
  PROVE  CreditInv'
<1>1. /\ Sessions = {s} /\ session' = session /\ data' = data /\ pf' = pf
      /\ credit_cnt' = credit_cnt
  BY DEF OneStream, TakeGrant
<1>2. /\ data[s] \in Nat /\ credits[s] \in Nat /\ grants[s] \in Nat /\ grants[s] > 0
      /\ credit_cnt \in 1 .. MAX_CREDIT_CNT
  BY DEF TakeGrant, CreditInv, TypeOK
<1>3. session[s] # "new" /\ Total(s) + credit_cnt = INITIAL_CREDITS + MAX_CREDIT_CNT
  BY <1>2 DEF CreditInv, Untouched, Conserved
<1>4. grants'[s] = grants[s] - 1 /\ credits'[s] = credits[s] + MAX_CREDIT_CNT
  BY DEF TakeGrant, CreditInv, TypeOK
<1>5. TypeOK'
  BY <1>1, <1>2, <1>4, CreditAssumption DEF TakeGrant, CreditInv, TypeOK
<1>6. Total(s)' = Total(s)
  BY <1>1, <1>2, <1>4, GrantWorth, CreditAssumption DEF Total
<1>. QED  BY <1>1, <1>3, <1>5, <1>6 DEF CreditInv, Untouched, Conserved

\* A data frame sent uses up a credit.
LEMMA SendDataStep ==
  ASSUME OneStream, CreditInv, NEW s \in Sessions, SendData(s)
  PROVE  CreditInv'
<1>1. /\ Sessions = {s} /\ session' = session /\ grants' = grants /\ pf' = pf
      /\ credit_cnt' = credit_cnt /\ session[s] # "new"
  BY DEF OneStream, SendData
<1>2. /\ data[s] \in Nat /\ credits[s] \in Nat /\ credits[s] > 0 /\ grants[s] \in Nat
      /\ credit_cnt \in 1 .. MAX_CREDIT_CNT
  BY DEF SendData, CreditInv, TypeOK
<1>3. data'[s] = data[s] + 1 /\ credits'[s] = credits[s] - 1
  BY DEF SendData, CreditInv, TypeOK
<1>4. TypeOK'
  BY <1>1, <1>2, <1>3 DEF SendData, CreditInv, TypeOK
<1>5. Total(s)' = Total(s)
  BY <1>1, <1>2, <1>3, GrantWorth DEF Total
<1>. QED  BY <1>1, <1>4, <1>5 DEF CreditInv, Untouched, Conserved

\* Opening gives the first credits; the counter is as it was at the start.
LEMMA OpenStep ==
  ASSUME OneStream, CreditInv, NEW s \in Sessions, Open(s)
  PROVE  CreditInv'
<1>1. /\ Sessions = {s} /\ data' = data /\ grants' = grants /\ pf' = pf
      /\ credit_cnt' = credit_cnt
  BY DEF OneStream, Open
<1>2. data[s] = 0 /\ grants[s] = 0 /\ credit_cnt = MAX_CREDIT_CNT
  BY DEF Open, CreditInv, Untouched
<1>3. session'[s] = "open" /\ credits'[s] = INITIAL_CREDITS
  BY DEF Open, CreditInv, TypeOK
<1>4. TypeOK'
  BY <1>1, <1>3, CreditAssumption DEF Open, CreditInv, TypeOK
<1>5. Total(s)' = INITIAL_CREDITS
  BY <1>1, <1>2, <1>3, CreditAssumption DEF Total
<1>. QED
  BY <1>1, <1>2, <1>3, <1>4, <1>5, CreditAssumption DEF CreditInv, Untouched, Conserved

LEMMA CreditStep ==
  ASSUME OneStream, CreditInv, [Next]_vars  PROVE CreditInv'
<1>1. ASSUME NEW s \in Sessions, HandlePf(s)  PROVE CreditInv'
  BY <1>1 DEF HandlePf, CreditInv, TypeOK, Untouched, Conserved, Total
<1>2. ASSUME NEW s \in Sessions, SendPf(s)  PROVE CreditInv'
  <2>1. credits[s] - PfCost = credits[s] /\ credits \in [Sessions -> Nat]
    BY DEF OneStream, CreditInv, TypeOK
  <2>2. credits' = credits
    BY <1>2, <2>1 DEF SendPf
  <2>. QED
    BY <1>2, <2>2 DEF SendPf, CreditInv, TypeOK, Untouched, Conserved, Total
<1>3. ASSUME NEW s \in Sessions, Close(s)  PROVE CreditInv'
  <2>1. session'[s] = "closed" /\ session[s] = "open"
    BY <1>3 DEF Close, CreditInv, TypeOK
  <2>2. TypeOK'
    BY <1>3 DEF Close, CreditInv, TypeOK
  <2>3. Sessions = {s}
    BY DEF OneStream
  <2>. QED
    BY <1>3, <2>1, <2>2, <2>3 DEF Close, CreditInv, Untouched, Conserved, Total
<1>4. CASE UNCHANGED vars
  BY <1>4 DEF vars, CreditInv, TypeOK, Untouched, Conserved, Total
<1>. QED
  BY <1>1, <1>2, <1>3, <1>4, OpenStep, HandleDataStep, SendDataStep, TakeGrantStep
     DEF Next, Device, Peer
-----------------------------------------------------------------------------
LEMMA CreditInvariance == ASSUME OneStream  PROVE Spec => []CreditInv
  BY CreditInit, CreditStep, PTL DEF Spec

\* The counters keep their types and credit_cnt its range (l2cap.c:938-959).
THEOREM CreditTypes == ASSUME OneStream  PROVE Spec => []TypeOK
<1>1. CreditInv => TypeOK
  BY DEF CreditInv
<1>. QED  BY <1>1, CreditInvariance, PTL

\* The peer of the only stream never waits for credits the device will not
\* grant before it has more frames, whatever the sizes of first and later grants.
THEOREM StreamNeverStarves == ASSUME OneStream  PROVE Spec => []NeverStarved
<1>1. ASSUME CreditInv  PROVE NeverStarved
  <2>. SUFFICES ASSUME NEW s \in Sessions, session[s] = "open",
                       credits[s] = 0, data[s] = 0, grants[s] = 0
                PROVE  FALSE
    BY <1>1 DEF NeverStarved, CreditInv, TypeOK
  <2>1. 0 + credit_cnt = INITIAL_CREDITS + MAX_CREDIT_CNT
    BY <1>1, GrantWorth DEF CreditInv, Conserved, Total
  <2>. QED  BY <1>1, <2>1, CreditAssumption DEF CreditInv, TypeOK
<1>. QED  BY <1>1, CreditInvariance, PTL

\* What the peer may send stays below its first credits and one grant.
THEOREM GrantsStayBounded == ASSUME OneStream  PROVE Spec => []GrantsBounded
<1>1. ASSUME CreditInv  PROVE GrantsBounded
  <2>. SUFFICES ASSUME NEW s \in Sessions
                PROVE  Total(s) < INITIAL_CREDITS + MAX_CREDIT_CNT
    BY DEF GrantsBounded, Total
  <2>1. Total(s) \in Int /\ credit_cnt \in 1 .. MAX_CREDIT_CNT
    BY <1>1, GrantWorth DEF CreditInv, TypeOK, Total
  <2>2. CASE session[s] = "new"
    <3>1. Total(s) = 0
      BY <1>1, <2>2, GrantWorth DEF CreditInv, Untouched, Total
    <3>. QED  BY <3>1, CreditAssumption
  <2>3. CASE session[s] # "new"
    BY <1>1, <2>1, <2>3, CreditAssumption DEF CreditInv, Conserved
  <2>. QED  BY <2>2, <2>3
<1>. QED  BY <1>1, CreditInvariance, PTL
=============================================================================
