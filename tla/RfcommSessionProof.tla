------------------------- MODULE RfcommSessionProof --------------------------
(***************************************************************************)
(* RFCOMM frames octet by octet, for any data channel, any counter of      *)
(* credits, any messages of the peer and any number of everything.         *)
(*                                                                         *)
(* First the sums: the table computes the polynomial for every sequence of *)
(* octets.  Then what each of the functions that build frames leaves in    *)
(* the buffer, and what that makes of a frame: with the octets named,      *)
(* lengths and offsets are arithmetic.  The invariants of RfcommSession    *)
(* speak of the frames under way only; IInv says in addition what is known *)
(* of every frame of either side, and that the buffer is quiet between two *)
(* packets.                                                                *)
(***************************************************************************)
EXTENDS RfcommSession, SequenceTheorems, WellFoundedInduction, TLAPS

-----------------------------------------------------------------------------
(* The frames under way                                                      *)

\* What a frame of either side is: one octet of length, the control field with
\* the P/F bit or without, and the octets its length announces.
Frame ==
    {f \in Seq(Octet) :
        /\ Len(f) >= 4
        /\ f[1] % 2 = 1 /\ Dlci(f) \in {MSG_DLCI, DataDlci}
        /\ f[2] \in FrameTypes \cup {type + 16 : type \in FrameTypes}
        /\ f[3] % 2 = 1 /\ Len(f) = 4 + CreditOctets(f) + f[3] \div 2}

\* A message on DLCI 0: type in f[4], length in f[5], parameters from f[6] on.
ForMux(f) == Type(f) = UIH /\ Dlci(f) = MSG_DLCI

MessageStart(f) == /\ f[2] = UIH /\ Len(f) >= 6
                   /\ f[4] % 2 = 1 /\ f[5] % 2 = 1

\* PN has eight parameters, and no timer in a command.
PnGood(f) == /\ Len(f) = 14 /\ f[5] = 17
             /\ f[4] = PN + 3 => f[9] = 0

\* What the peer sends: the messages fit the frame.
Incoming ==
    {f \in Frame :
        /\ Type(f) # UIH => Len(f) = 4
        /\ Type(f) = UA => Dlci(f) = MSG_DLCI
        /\ ForMux(f) => /\ MessageStart(f)
                        /\ 6 + f[5] \div 2 = Len(f)
                        /\ f[4] - (f[4] % 4) = PN => PnGood(f)
                        /\ f[4] - (f[4] % 4) = MSC => Len(f) \in {8, 9}}

\* What the device sends: a message may be shorter than the frame, and the sum
\* is that of the polynomial.
SumGood(f) == f[Len(f)] = ReferenceFcs(SubSeq(f, 1, IF Type(f) = UIH THEN 2 ELSE 3))

Outgoing ==
    {f \in Frame :
        /\ SumGood(f)
        /\ Type(f) = SABM => Dlci(f) = MSG_DLCI
        /\ ForMux(f) => /\ MessageStart(f)
                        /\ 6 + f[5] \div 2 <= Len(f)
                        /\ f[4] \in {PN + 1, PN + 3} => PnGood(f)
                        /\ f[4] = MSC + 3 => f[5] = 5
                        /\ f[4] = RPN + 3 => f[5] = 17}

\* Between two packets the buffer holds no more than the SABM of button S2.
BufferQuiet == buf[0] < 8 /\ \A i \in 4..13 : buf[i] = 0

FramesGood == toDev \in Seq(Incoming) /\ toPeer \in Seq(Outgoing)

\* The inductive invariant.
IInv == TypeOK /\ FramesGood /\ BufferQuiet /\ UaInOrder

-----------------------------------------------------------------------------
(* Induction                                                                 *)

\* Every set of numbers has a least one.
LEMMA LeastExists ==
    ASSUME NEW S, S \subseteq Nat, S # {}
    PROVE  \E m \in S : \A n \in S : m <= n
<1>. DEFINE R == {ss \in Nat \X Nat : ss[1] < ss[2]}
<1>1. IsWellFoundedOn(R, Nat)
  BY NatLessThanWellFounded DEF OpToRel
<1>2. \A y, x \in Nat : ~(<<y, x>> \in R) => x <= y
  OBVIOUS
<1>. HIDE DEF R
<1>3. PICK x \in S : \A y \in S : ~(<<y, x>> \in R)
  BY <1>1, WFMin
<1>4. ASSUME NEW y \in S PROVE x <= y
  <2>1. x \in Nat /\ y \in Nat /\ ~(<<y, x>> \in R)
    BY <1>3
  <2>. QED  BY <1>2, <2>1, Zenon
<1>. QED  BY <1>4

\* Induction, stated for a set so that it needs no operator parameter.
LEMMA SetInduction ==
    ASSUME NEW S, 0 \in S, \A n \in Nat : n \in S => n + 1 \in S
    PROVE  Nat \subseteq S
<1>. SUFFICES ASSUME Nat \ S # {} PROVE FALSE
  OBVIOUS
<1>1. PICK m \in Nat \ S : \A n \in Nat \ S : m <= n
  BY LeastExists
<1>2. m # 0 /\ m - 1 \in Nat /\ m - 1 \notin Nat \ S
  BY <1>1
<1>3. m = (m - 1) + 1 /\ m - 1 \in S
  BY <1>2
<1>. QED  BY <1>2, <1>3

-----------------------------------------------------------------------------
(* Functions defined by recursion on a number                                *)

\* f has the first value base, and each other from its number and the value before.
Computes(f, n, V, base, step) ==
    /\ f \in [0..n -> V]
    /\ f[0] = base
    /\ \A k \in 1..n : f[k] = step[k][f[k - 1]]

\* A function defined by recursion on a number exists.
LEMMA RecursionExists ==
    ASSUME NEW V, NEW base \in V, NEW step \in [Nat -> [V -> V]], NEW n \in Nat
    PROVE  \E f : Computes(f, n, V, base, step)
<1>. DEFINE Good(f, m) == Computes(f, m, V, base, step)
            S == {m \in Nat : \E f : Good(f, m)}
<1>1. 0 \in S
  <2>1. Good([k \in 0..0 |-> base], 0)
    BY DEF Computes
  <2>. QED  BY <2>1
<1>2. ASSUME NEW m \in Nat, m \in S PROVE m + 1 \in S
  <2>1. PICK g : Good(g, m)
    BY <1>2
  <2>. DEFINE new == [k \in 0..(m + 1) |-> IF k = m + 1 THEN step[m + 1][g[m]] ELSE g[k]]
  <2>2. m \in 0..m /\ g[m] \in V
    BY <2>1 DEF Computes
  <2>3. step[m + 1][g[m]] \in V
    BY <2>2
  <2>4. new \in [0..(m + 1) -> V]
    BY <2>1, <2>3 DEF Computes
  <2>5. new[0] = base
    BY <2>1 DEF Computes
  <2>6. ASSUME NEW k \in 1..(m + 1) PROVE new[k] = step[k][new[k - 1]]
    <3>1. CASE k = m + 1
      <4>1. new[k - 1] = g[m] /\ new[k] = step[m + 1][g[m]]
        BY <3>1
      <4>. HIDE DEF new
      <4>. QED  BY <3>1, <4>1
    <3>2. CASE k # m + 1
      <4>1. new[k - 1] = g[k - 1] /\ new[k] = g[k] /\ k \in 1..m
        BY <3>2
      <4>. HIDE DEF new
      <4>. QED  BY <2>1, <4>1 DEF Computes
    <3>. QED  BY <3>1, <3>2
  <2>7. Good(new, m + 1)
    <3>. HIDE DEF new
    <3>. QED  BY <2>4, <2>5, <2>6 DEF Computes
  <2>8. \E f : Good(f, m + 1)
    <3>. HIDE DEF Good, new
    <3>. QED  BY <2>7
  <2>. HIDE DEF Good
  <2>. QED  BY <2>8
<1>3. Nat \subseteq S
  <2>. HIDE DEF S
  <2>. QED  BY <1>1, <1>2, SetInduction
<1>. QED  BY <1>3

-----------------------------------------------------------------------------
(* Octets                                                                    *)

\* An octet is the sum of its bits.
LEMMA BitsOfOctet ==
    ASSUME NEW n \in Octet
    PROVE  /\ \A w \in {1, 2, 4, 8, 16, 32, 64, 128} : Bit(n, w) \in {0, 1}
           /\ n = Bit(n, 1) + 2 * Bit(n, 2) + 4 * Bit(n, 4) + 8 * Bit(n, 8) + 16 * Bit(n, 16)
                  + 32 * Bit(n, 32) + 64 * Bit(n, 64) + 128 * Bit(n, 128)
BY DEF Octet, Bit

\* The ^ of two octets is an octet.
LEMMA XorOctet ==
    ASSUME NEW n \in Octet, NEW m \in Octet
    PROVE  Xor(n, m) \in Octet
BY DEF Octet, Xor, Bit

LEMMA OctetRange ==
    /\ 0 \in Octet /\ \hFF \in Octet
    /\ \A c \in Octet : c \in Nat /\ c + 1 \in 1..256 /\ \hFF - c \in Octet
BY DEF Octet

\* n ^ m is 0xFF exactly when m is ~n.
LEMMA XorOfComplement ==
    ASSUME NEW n \in Octet, NEW m \in Octet
    PROVE  Xor(n, m) = \hFF <=> m = \hFF - n
<1>1. Xor(n, \hFF - n) = \hFF
  BY DEF Octet, Xor, Bit
<1>2. ASSUME Xor(n, m) = \hFF PROVE m = \hFF - n
  <2>. DEFINE x(w) == (Bit(n, w) + Bit(m, w)) % 2
  <2>1. \A w \in {1, 2, 4, 8, 16, 32, 64, 128} :
            Bit(n, w) \in {0, 1} /\ Bit(m, w) \in {0, 1}
    BY BitsOfOctet
  <2>2. \A w \in {1, 2, 4, 8, 16, 32, 64, 128} :
            x(w) \in {0, 1} /\ (x(w) = 1 => Bit(m, w) = 1 - Bit(n, w))
    BY <2>1
  <2>3. x(1) + 2 * x(2) + 4 * x(4) + 8 * x(8) + 16 * x(16) + 32 * x(32) + 64 * x(64)
        + 128 * x(128) = 255
    BY <1>2, <2>1, <2>2 DEF Xor
  <2>. HIDE DEF x
  <2>4. \A w \in {1, 2, 4, 8, 16, 32, 64, 128} : x(w) = 1
    BY <2>2, <2>3
  <2>5. \A w \in {1, 2, 4, 8, 16, 32, 64, 128} : Bit(m, w) = 1 - Bit(n, w)
    BY <2>2, <2>4
  <2>. QED  BY <2>1, <2>5, BitsOfOctet
<1>. QED  BY <1>1, <1>2

\* Adding the bits of a channel to themselves, or none to none, changes nothing.
LEMMA OrSame ==
    ASSUME NEW n \in 0..31
    PROVE  Or(n, n) = n
BY DEF Or, Bit

-----------------------------------------------------------------------------
(* The frame check sequence                                                  *)

\* The sum of no octets, and what is left of a sum and its complement.
FcsStart == \hFF
FcsEnd == \hCF

\* One octet only ends a sum at the value verify_fcs looks for.
LEMMA FcsEnds ==
    /\ FcsStart \in Octet
    /\ \A c, fcs \in Octet : crctable[Xor(c, fcs) + 1] = FcsEnd <=> fcs = \hFF - c
<1>1. ASSUME NEW c \in Octet, NEW fcs \in Octet
      PROVE  crctable[Xor(c, fcs) + 1] = FcsEnd <=> fcs = \hFF - c
  <2>1. PICK x \in Octet : x = Xor(c, fcs)
    BY XorOctet
  <2>2. crctable[x + 1] = FcsEnd <=> x = \hFF
    BY TableAssumption DEF FcsEnd
  <2>3. x = \hFF <=> fcs = \hFF - c
    BY <2>1, XorOfComplement
  <2>. QED  BY <2>1, <2>2, <2>3
<1>2. FcsStart \in Octet
  BY OctetRange DEF FcsStart
<1>. QED  BY <1>1, <1>2

\* What TableAssumption says, in parts.
LEMMA TableFacts ==
    \A c \in Octet : crctable[c + 1] \in Octet /\ crctable[c + 1] = ReferenceTable[c]
BY OctetRange, TableAssumption

\* The functions behind Crc and ReferenceFcs.
IsCrc(f, octets) ==
    f = [k \in 0..Len(octets) |->
            IF k = 0 THEN \hFF ELSE crctable[Xor(f[k - 1], octets[k]) + 1]]

IsReference(f, octets) ==
    f = [k \in 0..Len(octets) |->
            IF k = 0 THEN \hFF ELSE ReferenceTable[Xor(f[k - 1], octets[k])]]

\* One function gives both sums, because the tables agree.
LEMMA CrcExists ==
    ASSUME NEW octets \in Seq(Octet)
    PROVE  \E f \in [0..Len(octets) -> Octet] : IsCrc(f, octets) /\ IsReference(f, octets)
<1>. DEFINE next(k, c) == IF k \in 1..Len(octets) THEN crctable[Xor(c, octets[k]) + 1] ELSE 0
            step == [k \in Nat |-> [c \in Octet |-> next(k, c)]]
<1>. HIDE DEF next, step
<1>1. Len(octets) \in Nat /\ \A k \in 1..Len(octets) : octets[k] \in Octet
  BY LenProperties, ElementOfSeq
<1>2. ASSUME NEW k \in Nat, NEW c \in Octet
      PROVE  /\ next(k, c) \in Octet
             /\ k \in 1..Len(octets) =>
                   /\ next(k, c) = crctable[Xor(c, octets[k]) + 1]
                   /\ next(k, c) = ReferenceTable[Xor(c, octets[k])]
  <2>1. CASE k \in 1..Len(octets)
    <3>1. Xor(c, octets[k]) \in Octet
      BY <1>1, <2>1, XorOctet
    <3>2. next(k, c) = crctable[Xor(c, octets[k]) + 1]
      BY <2>1 DEF next
    <3>3. PICK x \in Octet : x = Xor(c, octets[k])
      BY <3>1
    <3>4. crctable[x + 1] \in Octet /\ crctable[x + 1] = ReferenceTable[x]
      BY TableFacts
    <3>. QED  BY <3>2, <3>3, <3>4
  <2>2. CASE k \notin 1..Len(octets)
    BY <2>2, OctetRange DEF next
  <2>. QED  BY <2>1, <2>2
<1>3. step \in [Nat -> [Octet -> Octet]]
  BY <1>2 DEF step
<1>4. PICK f : Computes(f, Len(octets), Octet, FcsStart, step)
  <2>1. Len(octets) \in Nat /\ FcsStart \in Octet
    BY <1>1, FcsEnds
  <2>. QED  BY <1>3, <2>1, RecursionExists
<1>5. /\ f \in [0..Len(octets) -> Octet]
      /\ f[0] = FcsStart
      /\ \A k \in 1..Len(octets) : f[k] = step[k][f[k - 1]]
  BY <1>4 DEF Computes
<1>6. ASSUME NEW k \in 1..Len(octets)
      PROVE  /\ f[k] = crctable[Xor(f[k - 1], octets[k]) + 1]
             /\ f[k] = ReferenceTable[Xor(f[k - 1], octets[k])]
  <2>1. k \in Nat /\ f[k - 1] \in Octet
    BY <1>1, <1>5
  <2>2. step[k][f[k - 1]] = next(k, f[k - 1])
    BY <2>1 DEF step
  <2>. QED  BY <1>2, <1>5, <2>1, <2>2
<1>7. ASSUME NEW k \in 0..Len(octets)
      PROVE  /\ f[k] = IF k = 0 THEN \hFF ELSE crctable[Xor(f[k - 1], octets[k]) + 1]
             /\ f[k] = IF k = 0 THEN \hFF ELSE ReferenceTable[Xor(f[k - 1], octets[k])]
  <2>1. k = 0 \/ k \in 1..Len(octets)
    BY <1>1
  <2>. QED  BY <1>1, <1>5, <1>6, <2>1 DEF FcsStart
<1>. QED  BY <1>7, <1>5, SMTT(30) DEF IsCrc, IsReference

\* Both begin alike, and go on by a step of their tables.
LEMMA CrcSteps ==
    ASSUME NEW octets \in Seq(Octet), NEW f
    PROVE  /\ IsCrc(f, octets) =>
                 /\ f[0] = FcsStart
                 /\ \A k \in 1..Len(octets) : f[k] = crctable[Xor(f[k - 1], octets[k]) + 1]
           /\ IsReference(f, octets) =>
                 /\ f[0] = FcsStart
                 /\ \A k \in 1..Len(octets) : f[k] = ReferenceTable[Xor(f[k - 1], octets[k])]
<1>1. 0 \in 0..Len(octets) /\ \A k \in 1..Len(octets) : k \in 0..Len(octets) /\ k # 0
  BY LenProperties
<1>. QED  BY <1>1 DEF IsCrc, IsReference, FcsStart

\* The values of Crc after each octet, which are those of the reference.
LEMMA CrcValues ==
    ASSUME NEW octets \in Seq(Octet)
    PROVE  \E f \in [0..Len(octets) -> Octet] :
              /\ f[0] = FcsStart
              /\ \A k \in 1..Len(octets) : f[k] = crctable[Xor(f[k - 1], octets[k]) + 1]
              /\ Crc(octets) = f[Len(octets)]
              /\ ReferenceFcs(octets) = \hFF - f[Len(octets)]
<1>. DEFINE N == Len(octets)
            c == CHOOSE f : IsCrc(f, octets)
            r == CHOOSE f : IsReference(f, octets)
<1>1. N \in Nat
  BY LenProperties
<1>2. PICK f \in [0..N -> Octet] : IsCrc(f, octets) /\ IsReference(f, octets)
  BY CrcExists
<1>3. IsCrc(c, octets) /\ IsReference(r, octets)
  BY <1>2
<1>4. Crc(octets) = c[N] /\ ReferenceFcs(octets) = \hFF - r[N]
  BY Zenon DEF Crc, ReferenceFcs, IsCrc, IsReference
<1>. HIDE DEF N, c, r
<1>5. /\ f[0] = FcsStart /\ c[0] = FcsStart /\ r[0] = FcsStart
      /\ \A k \in 1..N : /\ f[k] = crctable[Xor(f[k - 1], octets[k]) + 1]
                         /\ c[k] = crctable[Xor(c[k - 1], octets[k]) + 1]
                         /\ f[k] = ReferenceTable[Xor(f[k - 1], octets[k])]
                         /\ r[k] = ReferenceTable[Xor(r[k - 1], octets[k])]
  BY <1>2, <1>3, CrcSteps DEF N
<1>. DEFINE S == {k \in Nat : k <= N => f[k] = c[k] /\ f[k] = r[k]}
<1>6. 0 \in S
  BY <1>5
<1>7. ASSUME NEW k \in Nat, k \in S PROVE k + 1 \in S
  <2>1. CASE k + 1 <= N
    <3>1. k + 1 \in 1..N /\ (k + 1) - 1 = k /\ f[k] = c[k] /\ f[k] = r[k]
      BY <1>1, <1>7, <2>1
    <3>2. /\ f[k + 1] = crctable[Xor(f[k], octets[k + 1]) + 1]
          /\ c[k + 1] = crctable[Xor(c[k], octets[k + 1]) + 1]
          /\ f[k + 1] = ReferenceTable[Xor(f[k], octets[k + 1])]
          /\ r[k + 1] = ReferenceTable[Xor(r[k], octets[k + 1])]
      <4>1. PICK j \in 1..N : j = k + 1 /\ j - 1 = k
        BY <3>1
      <4>2. /\ f[j] = crctable[Xor(f[j - 1], octets[j]) + 1]
            /\ c[j] = crctable[Xor(c[j - 1], octets[j]) + 1]
            /\ f[j] = ReferenceTable[Xor(f[j - 1], octets[j])]
            /\ r[j] = ReferenceTable[Xor(r[j - 1], octets[j])]
        BY <1>5, Zenon
      <4>. QED  BY <4>1, <4>2, Zenon
    <3>. QED  BY <1>7, <3>1, <3>2
  <2>2. CASE ~(k + 1 <= N)
    BY <2>2
  <2>. QED  BY <2>1, <2>2
<1>8. Nat \subseteq S
  <2>. HIDE DEF S
  <2>. QED  BY <1>6, <1>7, SetInduction
<1>9. f[N] = c[N] /\ f[N] = r[N]
  BY <1>1, <1>8
<1>. QED  BY <1>2, <1>4, <1>5, <1>9 DEF N

(* The sum the device computes with the table is that of the polynomial, bit by *)
(* bit, for every sequence of octets (create_fcs, rfcomm.c:114-125).            *)
THEOREM SumIsPolynomial ==
    \A octets \in Seq(Octet) : create_fcs(octets) = ReferenceFcs(octets)
<1>. SUFFICES ASSUME NEW octets \in Seq(Octet)
              PROVE  create_fcs(octets) = ReferenceFcs(octets)
  OBVIOUS
<1>1. ReferenceFcs(octets) = \hFF - Crc(octets)
  BY CrcValues
<1>. QED  BY <1>1 DEF create_fcs

\* A sum is an octet.
LEMMA SumIsOctet ==
    ASSUME NEW octets \in Seq(Octet)
    PROVE  /\ Crc(octets) \in Octet /\ create_fcs(octets) \in Octet
           /\ ReferenceFcs(octets) \in Octet
<1>1. Crc(octets) \in Octet
  <2>1. Len(octets) \in 0..Len(octets)
    BY LenProperties
  <2>. QED  BY <2>1, CrcValues
<1>2. create_fcs(octets) \in Octet
  BY <1>1, OctetRange DEF create_fcs
<1>. QED  BY <1>1, <1>2, SumIsPolynomial

\* One octet more.
LEMMA CrcAppend ==
    ASSUME NEW octets \in Seq(Octet), NEW c \in Octet
    PROVE  Crc(Append(octets, c)) = crctable[Xor(Crc(octets), c) + 1]
<1>. DEFINE N == Len(octets)
            more == Append(octets, c)
<1>1. /\ N \in Nat /\ more \in Seq(Octet) /\ Len(more) = N + 1
      /\ \A k \in 1..N : more[k] = octets[k]
      /\ more[N + 1] = c
  BY LenProperties, AppendProperties
<1>. HIDE DEF N, more
<1>2. PICK f \in [0..N -> Octet] :
        /\ f[0] = FcsStart
        /\ \A k \in 1..N : f[k] = crctable[Xor(f[k - 1], octets[k]) + 1]
        /\ Crc(octets) = f[N]
  BY CrcValues DEF N
<1>3. PICK g \in [0..(N + 1) -> Octet] :
        /\ g[0] = FcsStart
        /\ \A k \in 1..(N + 1) : g[k] = crctable[Xor(g[k - 1], more[k]) + 1]
        /\ Crc(more) = g[N + 1]
  <2>1. PICK g \in [0..Len(more) -> Octet] :
          /\ g[0] = FcsStart
          /\ \A k \in 1..Len(more) : g[k] = crctable[Xor(g[k - 1], more[k]) + 1]
          /\ Crc(more) = g[Len(more)]
    BY <1>1, CrcValues
  <2>. QED  BY <1>1, <2>1
<1>. DEFINE S == {k \in Nat : k <= N => f[k] = g[k]}
<1>4. 0 \in S
  BY <1>2, <1>3
<1>5. ASSUME NEW k \in Nat, k \in S PROVE k + 1 \in S
  <2>1. CASE k + 1 <= N
    <3>1. k + 1 \in 1..N /\ k + 1 \in 1..(N + 1) /\ (k + 1) - 1 = k /\ f[k] = g[k]
      BY <1>1, <1>5, <2>1
    <3>2. /\ f[k + 1] = crctable[Xor(f[k], octets[k + 1]) + 1]
          /\ g[k + 1] = crctable[Xor(g[k], more[k + 1]) + 1]
      <4>1. PICK j : j \in 1..N /\ j \in 1..(N + 1) /\ j = k + 1 /\ j - 1 = k
        BY <3>1
      <4>2. /\ f[j] = crctable[Xor(f[j - 1], octets[j]) + 1]
            /\ g[j] = crctable[Xor(g[j - 1], more[j]) + 1]
        BY <1>2, <1>3, <4>1, Zenon
      <4>. QED  BY <4>1, <4>2, Zenon
    <3>3. more[k + 1] = octets[k + 1]
      BY <1>1, <3>1
    <3>. QED  BY <1>5, <3>1, <3>2, <3>3
  <2>2. CASE ~(k + 1 <= N)
    BY <2>2
  <2>. QED  BY <2>1, <2>2
<1>6. Nat \subseteq S
  <2>. HIDE DEF S
  <2>. QED  BY <1>4, <1>5, SetInduction
<1>7. f[N] = g[N] /\ N + 1 \in 1..(N + 1) /\ (N + 1) - 1 = N
  BY <1>1, <1>6
<1>8. g[N + 1] = crctable[Xor(f[N], c) + 1]
  BY <1>1, <1>3, <1>7
<1>. QED  BY <1>2, <1>3, <1>8 DEF N, more

(* A frame passes verify_fcs with the sum create_fcs makes and with no other   *)
(* (rfcomm.c:98-125): the check is the inverse of the sum.                      *)
THEOREM OnlyTheSumPasses ==
    \A octets \in Seq(Octet), fcs \in Octet :
        verify_fcs(octets, fcs) <=> fcs = create_fcs(octets)
<1>. SUFFICES ASSUME NEW octets \in Seq(Octet), NEW fcs \in Octet
              PROVE  verify_fcs(octets, fcs) <=> fcs = create_fcs(octets)
  OBVIOUS
<1>1. Crc(octets) \in Octet
  BY SumIsOctet
<1>2. verify_fcs(octets, fcs) <=> crctable[Xor(Crc(octets), fcs) + 1] = FcsEnd
  BY CrcAppend DEF verify_fcs, FcsEnd
<1>. QED  BY <1>1, <1>2, FcsEnds DEF create_fcs

-----------------------------------------------------------------------------
(* Building a frame in a buffer                                              *)

\* The control field with the P/F bit.
LEMMA ControlOctet ==
    ASSUME NEW type \in FrameTypes, NEW pf \in {0, 1}, NEW b, b[1] = type + 16 * pf
    PROVE  /\ b[1] \in Octet
           /\ get_rfcomm_control_field(b) = type
           /\ get_control_field_poll_final_bit(b) = pf
BY DEF FrameTypes, SABM, UA, DM, DISC, UIH, Octet, get_rfcomm_control_field,
       get_control_field_poll_final_bit

\* The length field, its EA bit set.
LEMMA LengthOctet ==
    ASSUME NEW len \in 0..127, NEW b, b[2] = 2 * len + 1
    PROVE  /\ b[2] \in Octet
           /\ get_rfcomm_len_size(b) = 1
           /\ get_rfcomm_payload_len(b) = len
           /\ get_rfcomm_payload_offset(b) = 3
BY DEF Octet, get_rfcomm_len_size, get_rfcomm_payload_len, get_rfcomm_payload_offset,
       EA_ENABLE, RFCOMM_HEADER_SIZE

LEMMA BufferType == Buffer = [0..13 -> 0..255]
BY DEF Buffer, Index, BufSize, Octet

\* What a place of the buffer holds.
LEMMA BufferOctets ==
    ASSUME NEW b \in Buffer
    PROVE  \A i \in 0..13 : b[i] \in 0..255
BY BufferType

\* The three octets of the header, for the channel that is there already.
header(b, chaddr, len, pfbit, cmdresp, frame_type) ==
    set_length(set_control(set_address(b, chaddr, cmdresp), frame_type, pfbit), len)

IsHeaded(b, chaddr, len, pf, cmdresp, type) ==
    /\ b \in Buffer /\ chaddr \in 0..31 /\ b[0] \div 8 = chaddr
    /\ len \in 0..127 /\ pf \in {0, 1} /\ cmdresp \in {0, 1} /\ type \in FrameTypes

HasHeader(h, b, chaddr, len, pf, cmdresp, type) ==
    /\ h \in Buffer
    /\ h[0] = 8 * chaddr + 2 * cmdresp + 1
    /\ h[1] = type + 16 * pf
    /\ h[2] = 2 * len + 1
    /\ \A i \in 3..13 : h[i] = b[i]

\* What the header operators leave in the buffer.
LEMMA HeaderOctets ==
    ASSUME NEW b, NEW chaddr, NEW len, NEW pf, NEW cmdresp, NEW type,
           IsHeaded(b, chaddr, len, pf, cmdresp, type),
           NEW h, h = header(b, chaddr, len, pf, cmdresp, type)
    PROVE  HasHeader(h, b, chaddr, len, pf, cmdresp, type)
<1>. DEFINE a == set_address(b, chaddr, cmdresp)
            c == set_control(a, type, pf)
<1>. USE DEF IsHeaded
<1>1. 8 * chaddr + 2 * cmdresp + 1 \in 0..255
  OBVIOUS
<1>2. a = Put(b, 0, 8 * chaddr + 2 * cmdresp + 1)
  BY OrSame DEF set_address
<1>3. type + 16 * pf \in 0..255
  BY DEF FrameTypes, SABM, UA, DM, DISC, UIH
<1>4. 2 * len + 1 \in 0..255 /\ (2 * len) % 256 = 2 * len
  BY SMTT(30)
<1>5. /\ a \in Buffer /\ a[0] = 8 * chaddr + 2 * cmdresp + 1
      /\ \A j \in 0..13 : j # 0 => a[j] = b[j]
  BY <1>1, <1>2, BufferType, SMTT(30) DEF Put
<1>. HIDE DEF a
<1>6. /\ c \in Buffer /\ c[1] = type + 16 * pf
      /\ \A j \in 0..13 : j # 1 => c[j] = a[j]
  BY <1>3, <1>5, BufferType, SMTT(30) DEF set_control, Put
<1>. HIDE DEF c
<1>7. /\ h \in Buffer /\ h[2] = 2 * len + 1
      /\ \A j \in 0..13 : j # 2 => h[j] = c[j]
  <2>1. h = Put(c, 2, 2 * len + 1)
    BY <1>4 DEF header, set_length, a, c
  <2>. QED  BY <1>4, <1>6, <2>1, BufferType DEF Put
<1>. QED  BY <1>5, <1>6, <1>7 DEF HasHeader

\* The sum goes behind the payload, and behind the octet of credits of a UIH frame.
IsHeader(h, type, pf, len, at) ==
    /\ h \in Buffer /\ type \in FrameTypes /\ pf \in {0, 1} /\ len \in 0..10
    /\ h[1] = type + 16 * pf /\ h[2] = 2 * len + 1
    /\ at = 3 + len + (IF type = UIH THEN pf ELSE 0) /\ at <= 13

Covered(h, type) == IF type = UIH THEN <<h[0], h[1]>> ELSE <<h[0], h[1], h[2]>>

\* set_rfcomm_fcs writes one octet, behind header and information.
LEMMA SumPlaced ==
    ASSUME NEW h, NEW type, NEW pf, NEW len, NEW at, IsHeader(h, type, pf, len, at),
           NEW c, c = set_rfcomm_fcs(h)
    PROVE  /\ at \in 3..13
           /\ c \in Buffer
           /\ get_rfcomm_pkt_size(c) = at + 1
           /\ \A i \in 0..13 : i # at => c[i] = h[i]
           /\ c[at] = ReferenceFcs(Covered(h, type))
<1>. USE DEF IsHeader
<1>1. at \in 3..13 /\ at \in 0..13
  OBVIOUS
<1>2. /\ get_rfcomm_control_field(h) = type
      /\ get_control_field_poll_final_bit(h) = pf
  BY ControlOctet
<1>3. fcs_offset(h) = at
  BY <1>2, LengthOctet DEF fcs_offset, RFCOMM_HEADER_SIZE
<1>4. PICK s : s = Covered(h, type)
  OBVIOUS
<1>5. s \in Seq(Octet)
  <2>1. h[0] \in Octet /\ h[1] \in Octet /\ h[2] \in Octet
    BY BufferType DEF Octet
  <2>2. <<h[0], h[1]>> \in Seq(Octet) /\ <<h[0], h[1], h[2]>> \in Seq(Octet)
    BY <2>1
  <2>. QED  BY <1>4, <2>2 DEF Covered
<1>6. create_fcs(s) \in Octet /\ create_fcs(s) = ReferenceFcs(s)
  BY <1>5, SumIsOctet, SumIsPolynomial
<1>7. c = Put(h, at, create_fcs(s))
  BY <1>2, <1>3, <1>4, SMTT(30) DEF set_rfcomm_fcs, Covered
<1>8. /\ c \in Buffer /\ c[at] = create_fcs(s)
      /\ \A i \in 0..13 : i # at => c[i] = h[i]
  <2>1. create_fcs(s) \in 0..255
    BY <1>6 DEF Octet
  <2>. QED  BY <1>1, <1>7, <2>1, BufferType DEF Put
<1>9. get_rfcomm_pkt_size(c) = at + 1
  <2>1. c[1] = type + 16 * pf /\ c[2] = 2 * len + 1
    BY <1>1, <1>8
  <2>2. /\ get_rfcomm_control_field(c) = type
        /\ get_control_field_poll_final_bit(c) = pf
    BY <2>1, ControlOctet
  <2>3. get_rfcomm_payload_len(c) = len /\ get_rfcomm_len_size(c) = 1
    BY <2>1, LengthOctet
  <2>4. fcs_offset(c) = at
    BY <2>2, <2>3 DEF fcs_offset, RFCOMM_HEADER_SIZE
  <2>. QED  BY <2>4 DEF get_rfcomm_pkt_size
<1>. QED  BY <1>1, <1>4, <1>6, <1>8, <1>9

-----------------------------------------------------------------------------
(* Frames as sequences                                                       *)

\* The two or three octets in front of a frame.
LEMMA FirstOctets ==
    ASSUME NEW f \in Seq(Octet), 3 <= Len(f)
    PROVE  /\ SubSeq(f, 1, 2) = <<f[1], f[2]>>
           /\ SubSeq(f, 1, 3) = <<f[1], f[2], f[3]>>
<1>1. Len(f) \in Nat /\ \A i \in 1..Len(f) : f[i] \in Octet
  BY LenProperties, ElementOfSeq
<1>2. f[1] \in Octet /\ f[2] \in Octet /\ f[3] \in Octet
  BY <1>1
<1>3. SubSeq(f, 1, 2) = <<f[1], f[2]>>
  <2>1. <<f[1], f[2]>> \in Seq(Octet) /\ Len(<<f[1], f[2]>>) = 2
    BY <1>2
  <2>2. /\ SubSeq(f, 1, 2) \in Seq(Octet) /\ Len(SubSeq(f, 1, 2)) = 2
        /\ \A i \in 1..2 : SubSeq(f, 1, 2)[i] = f[i]
    BY <1>1, SubSeqProperties
  <2>3. \A i \in 1..2 : SubSeq(f, 1, 2)[i] = <<f[1], f[2]>>[i]
    BY <2>2
  <2>. QED  BY <2>1, <2>2, <2>3, SeqEqual
<1>4. SubSeq(f, 1, 3) = <<f[1], f[2], f[3]>>
  <2>1. <<f[1], f[2], f[3]>> \in Seq(Octet) /\ Len(<<f[1], f[2], f[3]>>) = 3
    BY <1>2
  <2>2. /\ SubSeq(f, 1, 3) \in Seq(Octet) /\ Len(SubSeq(f, 1, 3)) = 3
        /\ \A i \in 1..3 : SubSeq(f, 1, 3)[i] = f[i]
    BY <1>1, SubSeqProperties
  <2>3. \A i \in 1..3 : SubSeq(f, 1, 3)[i] = <<f[1], f[2], f[3]>>[i]
    BY <2>2
  <2>. QED  BY <2>1, <2>2, <2>3, SeqEqual
<1>. QED  BY <1>3, <1>4

LEMMA FunctionIsSeq ==
    ASSUME NEW S, NEW n \in Nat, NEW f \in [1..n -> S]
    PROVE  f \in Seq(S) /\ Len(f) = n
<1>1. f \in Seq(S)
  BY SeqDef
<1>2. Len(f) \in Nat /\ 1..Len(f) = 1..n
  BY <1>1, LenProperties
<1>3. Len(f) = n
  BY <1>2
<1>. QED  BY <1>1, <1>3

\* A frame of the device, octet by octet.
IsSent(f) == f \in Seq(Octet) /\ SumGood(f)

\* The frame sent is what stands in front of the offset of the sum, and the sum.
LEMMA Emitted ==
    ASSUME NEW h, NEW type, NEW pf, NEW len, NEW at, IsHeader(h, type, pf, len, at),
           NEW f, f = create_l2cap_bframe_rfcomm_pkt(set_rfcomm_fcs(h))
    PROVE  /\ IsSent(f)
           /\ at \in 3..13 /\ Len(f) = at + 1
           /\ \A i \in 1..at : f[i] = h[i - 1]
           /\ Type(f) = type
           /\ Dlci(f) = h[0] \div 4
<1>1. PICK c : c = set_rfcomm_fcs(h)
  OBVIOUS
<1>2. /\ at \in 3..13 /\ c \in Buffer /\ get_rfcomm_pkt_size(c) = at + 1
      /\ \A i \in 0..13 : i # at => c[i] = h[i]
      /\ c[at] = ReferenceFcs(Covered(h, type))
  BY <1>1, SumPlaced
<1>3. /\ \A i \in 0..13 : i # at => c[i] = h[i]
      /\ c[at] = ReferenceFcs(Covered(h, type))
  BY <1>2
<1>4. f = [i \in 1..(at + 1) |-> c[i - 1]]
  BY <1>1, <1>2 DEF create_l2cap_bframe_rfcomm_pkt
<1>5. f \in Seq(Octet) /\ Len(f) = at + 1
  <2>1. \A i \in 0..13 : c[i] \in Octet
    BY <1>2 DEF Buffer, Index, BufSize
  <2>2. at + 1 \in Nat /\ \A i \in 1..(at + 1) : i - 1 \in 0..13
    BY <1>2
  <2>3. f \in [1..(at + 1) -> Octet]
    BY <1>4, <2>1, <2>2
  <2>. QED  BY <2>2, <2>3, FunctionIsSeq
<1>6. \A i \in 1..at : f[i] = h[i - 1]
  <2>1. \A i \in 1..at : i \in 1..(at + 1) /\ i - 1 \in 0..13 /\ i - 1 # at
    BY <1>2
  <2>. QED  BY <1>3, <1>4, <2>1
<1>7. Type(f) = type
  <2>1. f[2] = type + 16 * pf
    BY <1>2, <1>6 DEF IsHeader
  <2>. QED  BY <2>1 DEF IsHeader, Type, FrameTypes, SABM, UA, DM, DISC, UIH
<1>8. Dlci(f) = h[0] \div 4
  BY <1>2, <1>6 DEF Dlci
<1>9. SumGood(f)
  <2>1. f[1] = h[0] /\ f[2] = h[1] /\ f[3] = h[2]
    BY <1>2, <1>6
  <2>2. f[at + 1] = c[at]
    BY <1>2, <1>4
  <2>0. f \in Seq(Octet) /\ 3 <= Len(f)
    BY <1>2, <1>5
  <2>3. CASE type = UIH
    <3>1. SubSeq(f, 1, 2) = <<f[1], f[2]>>
      BY <2>0, FirstOctets
    <3>. QED  BY <1>3, <1>5, <1>7, <2>1, <2>2, <2>3, <3>1 DEF SumGood, Covered
  <2>4. CASE type # UIH
    <3>1. SubSeq(f, 1, 3) = <<f[1], f[2], f[3]>>
      BY <2>0, FirstOctets
    <3>. QED  BY <1>3, <1>5, <1>7, <2>1, <2>2, <2>4, <3>1 DEF SumGood, Covered
  <2>. QED  BY <2>3, <2>4
<1>. QED  BY <1>2, <1>5, <1>6, <1>7, <1>8, <1>9 DEF IsSent

\* The P/F bit does not hide the type of a frame.
LEMMA TypeWithBit ==
    ASSUME NEW type \in FrameTypes, NEW pf \in {0, 1}, NEW f, f[2] = type + 16 * pf
    PROVE  /\ f[2] \in FrameTypes \cup {t + 16 : t \in FrameTypes}
           /\ Type(f) = type
           /\ CreditOctets(f) = IF type = UIH THEN pf ELSE 0
<1>1. Type(f) = type
  BY DEF Type, FrameTypes, SABM, UA, DM, DISC, UIH
<1>2. f[2] \in FrameTypes \cup {t + 16 : t \in FrameTypes}
  <2>1. CASE pf = 0
    BY <2>1 DEF FrameTypes, SABM, UA, DM, DISC, UIH
  <2>2. CASE pf = 1
    BY <2>2
  <2>. QED  BY <2>1, <2>2
<1>3. type = UIH => (f[2] \div 16) % 2 = pf
  BY DEF UIH
<1>. QED  BY <1>1, <1>2, <1>3 DEF CreditOctets

\* A buffer m, and the parameters of the frame that is made in it.
IsBuilt(m, chaddr, len, pf, cmdresp, type, at) ==
    /\ m \in Buffer /\ chaddr \in 0..31 /\ m[0] \div 8 = chaddr
    /\ 2 * chaddr \in {MSG_DLCI, DataDlci}
    /\ len \in 0..10 /\ pf \in {0, 1} /\ cmdresp \in {0, 1} /\ type \in FrameTypes
    /\ at = 3 + len + (IF type = UIH THEN pf ELSE 0) /\ at <= 13

IsEmitted(f, m, chaddr, len, type, at) ==
    /\ f \in Frame /\ SumGood(f) /\ Len(f) = at + 1
    /\ Type(f) = type /\ Dlci(f) = 2 * chaddr
    /\ \A i \in 4..at : f[i] = m[i - 1]

\* A buffer with a header and a sum is a frame when it is sent.
LEMMA HeadedSent ==
    ASSUME NEW h, NEW chaddr, NEW len, NEW pf, NEW cmdresp, NEW type, NEW at,
           NEW m, IsBuilt(m, chaddr, len, pf, cmdresp, type, at),
           IsHeader(h, type, pf, len, at), h[0] = 8 * chaddr + 2 * cmdresp + 1,
           NEW c, c = set_rfcomm_fcs(h),
           NEW f, f = create_l2cap_bframe_rfcomm_pkt(c)
    PROVE  /\ c \in Buffer /\ c[0] \div 8 = chaddr /\ c[2] % 2 = 1
           /\ \A i \in 3..13 : i # at => c[i] = h[i]
           /\ IsEmitted(f, h, chaddr, len, type, at)
           /\ f[2] = type + 16 * pf
<1>1. h[0] = 8 * chaddr + 2 * cmdresp + 1
  OBVIOUS
<1>2. h[1] = type + 16 * pf /\ h[2] = 2 * len + 1
  BY DEF IsHeader
<1>3. at \in 3..13
  BY DEF IsHeader
<1>4. c \in Buffer /\ \A i \in 0..13 : i # at => c[i] = h[i]
  BY SumPlaced
<1>5. /\ IsSent(f) /\ Len(f) = at + 1
      /\ \A i \in 1..at : f[i] = h[i - 1]
      /\ Type(f) = type
      /\ Dlci(f) = h[0] \div 4
  BY Emitted
<1>6. \A i \in 1..at : f[i] = h[i - 1]
  BY <1>5, Zenon
<1>7. f[1] = h[0] /\ f[2] = h[1] /\ f[3] = h[2]
  BY <1>3, <1>6
<1>8. \A i \in 4..at : f[i] = h[i - 1]
  BY <1>3, <1>6
<1>9. f[1] % 2 = 1 /\ h[0] \div 4 = 2 * chaddr /\ h[0] \div 8 = chaddr
  BY <1>1, <1>7 DEF IsBuilt
<1>10. f[2] = type + 16 * pf /\ f[3] % 2 = 1 /\ f[3] \div 2 = len
  BY <1>2, <1>7 DEF IsBuilt
<1>11. f \in Frame
  <2>1. /\ f[2] \in FrameTypes \cup {t + 16 : t \in FrameTypes}
        /\ CreditOctets(f) = IF type = UIH THEN pf ELSE 0
    BY <1>10, TypeWithBit DEF IsBuilt
  <2>2. Len(f) >= 4 /\ Len(f) = 4 + CreditOctets(f) + f[3] \div 2
    <3>1. Len(f) = at + 1
      BY <1>5, Zenon
    <3>. QED  BY <1>3, <1>10, <2>1, <3>1 DEF IsBuilt
  <2>3. f \in Seq(Octet)
    BY <1>5 DEF IsSent
  <2>4. Dlci(f) \in {MSG_DLCI, DataDlci}
    BY <1>5, <1>9 DEF IsBuilt
  <2>. QED  BY <1>9, <1>10, <2>1, <2>2, <2>3, <2>4, Zenon DEF Frame
<1>12. IsEmitted(f, h, chaddr, len, type, at)
  BY <1>5, <1>8, <1>9, <1>11 DEF IsEmitted, IsSent
<1>13. c[0] \div 8 = chaddr
  BY <1>3, <1>4, <1>9
<1>14. \A i \in 3..13 : i # at => c[i] = h[i]
  BY <1>4
<1>15. c[2] % 2 = 1
  <2>1. h[2] % 2 = 1
    BY <1>2 DEF IsBuilt
  <2>. QED  BY <1>3, <1>4, <2>1
<1>. QED  BY <1>4, <1>10, <1>12, <1>13, <1>14, <1>15

\* create_rfcomm_pkt makes a frame of any type.
LEMMA FrameBuilt ==
    ASSUME NEW m, NEW chaddr, NEW len, NEW pf, NEW cmdresp, NEW type, NEW at,
           IsBuilt(m, chaddr, len, pf, cmdresp, type, at),
           NEW c, c = create_rfcomm_pkt(m, chaddr, len, pf, cmdresp, type),
           NEW f, f = create_l2cap_bframe_rfcomm_pkt(c)
    PROVE  /\ c \in Buffer /\ c[0] \div 8 = chaddr /\ c[2] % 2 = 1
           /\ \A i \in 3..13 : i # at => c[i] = m[i]
           /\ IsEmitted(f, m, chaddr, len, type, at)
           /\ f[2] = type + 16 * pf
<1>. PICK h : h = header(m, chaddr, len, pf, cmdresp, type)
  OBVIOUS
<1>1. HasHeader(h, m, chaddr, len, pf, cmdresp, type)
  <2>1. IsHeaded(m, chaddr, len, pf, cmdresp, type)
    BY DEF IsBuilt, IsHeaded
  <2>. QED  BY <2>1, HeaderOctets
<1>2. h[0] = 8 * chaddr + 2 * cmdresp + 1
  BY <1>1, Zenon DEF HasHeader
<1>3. \A i \in 3..13 : h[i] = m[i]
  BY <1>1, Zenon DEF HasHeader
<1>4. IsHeader(h, type, pf, len, at)
  BY <1>1 DEF IsHeader, IsBuilt, HasHeader
<1>5. c = set_rfcomm_fcs(h)
  BY DEF create_rfcomm_pkt, header
<1>6. /\ c \in Buffer /\ c[0] \div 8 = chaddr /\ c[2] % 2 = 1
      /\ \A i \in 3..13 : i # at => c[i] = h[i]
      /\ IsEmitted(f, h, chaddr, len, type, at)
      /\ f[2] = type + 16 * pf
  BY <1>2, <1>4, <1>5, HeadedSent
<1>7. at \in 3..13
  BY <1>4 DEF IsHeader
<1>8. IsEmitted(f, m, chaddr, len, type, at)
  <2>1. \A i \in 4..at : f[i] = h[i - 1]
    BY <1>6 DEF IsEmitted
  <2>2. \A i \in 4..at : f[i] = m[i - 1]
    BY <1>3, <1>7, <2>1
  <2>. QED  BY <1>6, <2>2 DEF IsEmitted
<1>9. \A i \in 3..13 : i # at => c[i] = m[i]
  BY <1>3, <1>6
<1>. QED  BY <1>6, <1>8, <1>9

-----------------------------------------------------------------------------
(* Reading a frame of the peer                                               *)

\* The buffer b with the frame g of the peer in it, the channel of which is ch.
Loaded(b, g, ch) ==
    /\ b \in Buffer /\ ch \in 0..31 /\ b[0] \div 8 = ch
    /\ Dlci(g) = 2 * ch /\ 2 * ch \in {MSG_DLCI, DataDlci}
    /\ b[1] = g[2] /\ b[2] = g[3] /\ g[3] % 2 = 1 /\ Len(g) \in Nat /\ Len(g) >= 4
    /\ \A i \in 4..14 : i <= Len(g) => b[i - 1] = g[i]
    /\ \A i \in 4..13 : i >= Len(g) => b[i] = 0

\* What a frame holds.
LEMMA FrameOctets ==
    ASSUME NEW g \in Seq(Octet), Len(g) >= 4
    PROVE  /\ Len(g) \in Nat
           /\ \A i \in 1..Len(g) : g[i] \in 0..255
<1>1. Len(g) \in Nat /\ \A i \in 1..Len(g) : g[i] \in Octet
  BY LenProperties, ElementOfSeq
<1>. QED  BY <1>1 DEF Octet

\* The buffer with a frame of the peer: behind the frame it is clear.
LEMMA FrameLoaded ==
    ASSUME NEW quiet \in Buffer, \A i \in 4..13 : quiet[i] = 0,
           NEW g \in Frame, NEW b, b = Load(quiet, g)
    PROVE  \E ch \in 0..31 : Loaded(b, g, ch)
<1>1. /\ g \in Seq(Octet) /\ Len(g) >= 4
      /\ g[1] % 2 = 1 /\ Dlci(g) \in {MSG_DLCI, DataDlci}
      /\ g[3] % 2 = 1
  BY DEF Frame
<1>2. Len(g) \in Nat /\ Len(g) >= 4 /\ \A i \in 1..Len(g) : g[i] \in 0..255
  BY <1>1, FrameOctets
<1>3. quiet \in [0..13 -> 0..255]
  BY BufferType
<1>4. b = [i \in 0..13 |-> IF i < Len(g) THEN g[i + 1] ELSE quiet[i]]
  BY SMTT(30) DEF Load, Index, BufSize
<1>5. b \in Buffer
  <2>1. \A i \in 0..13 : i < Len(g) => g[i + 1] \in 0..255
    BY <1>2, SMTT(30)
  <2>2. \A i \in 0..13 : (IF i < Len(g) THEN g[i + 1] ELSE quiet[i]) \in 0..255
    <3>. SUFFICES ASSUME NEW i \in 0..13
                  PROVE  (IF i < Len(g) THEN g[i + 1] ELSE quiet[i]) \in 0..255
      OBVIOUS
    <3>1. quiet[i] \in 0..255
      BY <1>3
    <3>. QED  BY <2>1, <3>1, Zenon
  <2>3. b \in [0..13 -> 0..255]
    BY <1>4, <2>2, Zenon
  <2>. QED  BY <2>3, BufferType
<1>6. /\ b[0] = g[1] /\ b[1] = g[2] /\ b[2] = g[3]
      /\ \A i \in 4..14 : i <= Len(g) => b[i - 1] = g[i]
      /\ \A i \in 4..13 : i >= Len(g) => b[i] = 0
  <2>1. b[0] = g[1] /\ b[1] = g[2] /\ b[2] = g[3]
    BY <1>2, <1>4, SMTT(30)
  <2>2. ASSUME NEW i \in 4..14, i <= Len(g) PROVE b[i - 1] = g[i]
    <3>1. i - 1 \in 0..13 /\ i - 1 < Len(g) /\ (i - 1) + 1 = i
      BY <1>2, <2>2
    <3>. QED  BY <1>4, <3>1
  <2>3. ASSUME NEW i \in 4..13, i >= Len(g) PROVE b[i] = 0
    BY <1>2, <1>4, <2>3, SMTT(30)
  <2>. QED  BY <2>1, <2>2, <2>3
<1>7. PICK ch \in 0..31 : b[0] \div 8 = ch /\ Dlci(g) = 2 * ch /\ 2 * ch \in {MSG_DLCI, DataDlci}
  <2>1. g[1] \in 0..255
    BY <1>2
  <2>2. g[1] \div 8 \in 0..31
    BY <2>1
  <2>3. PICK channel \in 1..30 : DataDlci = 2 * channel
    BY SessionAssumption
  <2>4. g[1] \div 4 = 2 * (g[1] \div 8)
    <3>1. PICK half \in Nat : g[1] \div 4 = 2 * half
      <4>1. g[1] \div 4 = 2 * 0 \/ g[1] \div 4 = 2 * channel
        BY <1>1, <2>3 DEF Dlci, MSG_DLCI
      <4>2. 0 \in Nat /\ channel \in Nat
        OBVIOUS
      <4>. QED  BY <4>1, <4>2, Zenon
    <3>. QED  BY <2>1, <3>1
  <2>. QED  BY <1>1, <1>6, <2>2, <2>4 DEF Dlci
<1>8. Loaded(b, g, ch)
  BY <1>1, <1>2, <1>5, <1>6, <1>7 DEF Loaded
<1>. QED  BY <1>8

\* What the device's operators read in it.
LEMMA FrameRead ==
    ASSUME NEW g \in Frame, NEW b, NEW ch, Loaded(b, g, ch)
    PROVE  /\ get_rfcomm_control_field(b) = Type(g)
           /\ Type(g) \in FrameTypes
           /\ get_rfcomm_server_ch_addr(b) = ch
           /\ get_rfcomm_payload_offset(b) = 3
           /\ get_rfcomm_len_size(b) = 1
           /\ g[3] \div 2 \in 0..127
           /\ get_rfcomm_payload_len(b) = g[3] \div 2
           /\ get_control_field_poll_final_bit(b) \in {0, 1}
<1>1. b[1] = g[2] /\ b[2] = g[3] /\ g[3] % 2 = 1 /\ b \in Buffer
  BY DEF Loaded
<1>2. PICK type \in FrameTypes, pf \in {0, 1} : g[2] = type + 16 * pf
  <2>1. g[2] \in FrameTypes \cup {t + 16 : t \in FrameTypes}
    BY DEF Frame
  <2>2. CASE g[2] \in FrameTypes
    <3>1. g[2] = g[2] + 16 * 0
      BY <2>2 DEF FrameTypes, SABM, UA, DM, DISC, UIH
    <3>. QED  BY <2>2, <3>1
  <2>3. CASE \E t \in FrameTypes : g[2] = t + 16
    <3>1. PICK t \in FrameTypes : g[2] = t + 16
      BY <2>3
    <3>2. g[2] = t + 16 * 1
      BY <3>1
    <3>. QED  BY <3>2
  <2>. QED  BY <2>1, <2>2, <2>3
<1>3. Type(g) = type
  BY <1>2, TypeWithBit
<1>4. /\ get_rfcomm_control_field(b) = type
      /\ get_control_field_poll_final_bit(b) = pf
  BY <1>1, <1>2, ControlOctet
<1>5. PICK len \in 0..127 : b[2] = 2 * len + 1 /\ g[3] \div 2 = len
  <2>1. b[2] \in 0..255
    BY <1>1, BufferType
  <2>2. g[3] \div 2 \in 0..127 /\ b[2] = 2 * (g[3] \div 2) + 1
    BY <1>1, <2>1
  <2>. QED  BY <2>2
<1>6. /\ get_rfcomm_len_size(b) = 1
      /\ get_rfcomm_payload_len(b) = len
      /\ get_rfcomm_payload_offset(b) = 3
  BY <1>5, LengthOctet
<1>7. get_rfcomm_server_ch_addr(b) = ch
  BY DEF Loaded, get_rfcomm_server_ch_addr
<1>. QED  BY <1>2, <1>3, <1>4, <1>5, <1>6, <1>7

-----------------------------------------------------------------------------
(* Frames of the device                                                      *)

\* What the device sends without a message is as it should be.
LEMMA NoMessage ==
    ASSUME NEW f, NEW m, NEW ch \in Nat, NEW len, NEW type, NEW at,
           IsEmitted(f, m, ch, len, type, at),
           type # UIH \/ ch # 0, type = SABM => ch = 0
    PROVE  f \in Outgoing
<1>1. f \in Frame /\ SumGood(f) /\ Type(f) = type /\ Dlci(f) = 2 * ch
  BY DEF IsEmitted
<1>2. ~ForMux(f)
  BY <1>1 DEF ForMux, MSG_DLCI
<1>3. Type(f) = SABM => Dlci(f) = MSG_DLCI
  BY <1>1 DEF MSG_DLCI
<1>. QED  BY <1>1, <1>2, <1>3, Zenon DEF Outgoing

\* The message in a buffer, for a frame of len octets of information.
GoodMessage(m, len) ==
    /\ m \in Buffer /\ m[0] \div 8 = 0 /\ len \in 2..10
    /\ m[3] % 2 = 1 /\ m[4] % 2 = 1 /\ 2 + m[4] \div 2 <= len
    /\ m[3] \in {PN + 1, PN + 3} =>
          /\ len = 10 /\ m[4] = 17
          /\ m[3] = PN + 3 => m[8] = 0
    /\ m[3] = MSC + 3 => m[4] = 5
    /\ m[3] = RPN + 3 => m[4] = 17

\* So is what it sends with a message that fits.
LEMMA MessageSent ==
    ASSUME NEW m, NEW len, GoodMessage(m, len),
           NEW f, IsEmitted(f, m, 0, len, UIH, 3 + len), f[2] = UIH
    PROVE  f \in Outgoing
<1>1. f \in Frame /\ SumGood(f) /\ Type(f) = UIH /\ Len(f) = 3 + len + 1
  BY DEF IsEmitted
<1>2. \A i \in 4..(3 + len) : f[i] = m[i - 1]
  BY DEF IsEmitted
<1>3. len \in 2..10
  BY DEF GoodMessage
<1>4. /\ f[4] = m[3] /\ f[5] = m[4] /\ Len(f) >= 6
      /\ len = 10 => f[9] = m[8]
  BY <1>1, <1>2, <1>3
<1>5. MessageStart(f)
  BY <1>4 DEF MessageStart, GoodMessage
<1>6. 6 + f[5] \div 2 <= Len(f)
  <2>1. m[4] \in 0..255 /\ 2 + m[4] \div 2 <= len
    BY BufferType DEF GoodMessage
  <2>2. Len(f) = 3 + len + 1
    BY <1>1, Zenon
  <2>3. PICK k \in 0..127 : k = m[4] \div 2
    BY <2>1
  <2>4. f[5] \div 2 = k
    BY <1>4, <2>3
  <2>. QED  BY <1>3, <2>1, <2>2, <2>3, <2>4
<1>7. f[4] \in {PN + 1, PN + 3} => PnGood(f)
  <2>1. SUFFICES ASSUME f[4] \in {PN + 1, PN + 3} PROVE PnGood(f)
    OBVIOUS
  <2>2. len = 10 /\ m[4] = 17 /\ (m[3] = PN + 3 => m[8] = 0)
    BY <1>4, <2>1 DEF GoodMessage
  <2>3. Len(f) = 14
    BY <1>1, <2>2
  <2>. QED  BY <1>4, <2>2, <2>3 DEF PnGood
<1>8. (f[4] = MSC + 3 => f[5] = 5) /\ (f[4] = RPN + 3 => f[5] = 17)
  BY <1>4 DEF GoodMessage
<1>9. Type(f) = SABM => Dlci(f) = MSG_DLCI
  BY <1>1 DEF SABM, UIH
<1>. QED  BY <1>1, <1>5, <1>6, <1>7, <1>8, <1>9, Zenon DEF Outgoing

\* A message in the buffer m becomes a frame.
LEMMA UihSent ==
    ASSUME NEW m, NEW len, GoodMessage(m, len), NEW cmdresp \in {0, 1},
           NEW c, c = uih(m, len, cmdresp),
           NEW f, f = create_l2cap_bframe_rfcomm_pkt(c)
    PROVE  /\ f \in Outgoing /\ Type(f) = UIH
           /\ c \in Buffer /\ c[0] \div 8 = 0 /\ c[2] % 2 = 1
           /\ \A i \in 3..13 : i # 3 + len => c[i] = m[i]
<1>1. get_rfcomm_server_ch_addr(m) = 0
  BY DEF GoodMessage, get_rfcomm_server_ch_addr
<1>2. c = create_rfcomm_pkt(m, 0, len, 0, cmdresp, UIH)
  BY <1>1 DEF uih
<1>3. IsBuilt(m, 0, len, 0, cmdresp, UIH, 3 + len)
  BY DEF IsBuilt, GoodMessage, FrameTypes, MSG_DLCI
<1>4. /\ c \in Buffer /\ c[0] \div 8 = 0 /\ c[2] % 2 = 1
      /\ \A i \in 3..13 : i # 3 + len => c[i] = m[i]
      /\ IsEmitted(f, m, 0, len, UIH, 3 + len)
      /\ f[2] = UIH + 16 * 0
  BY <1>2, <1>3, FrameBuilt
<1>5. f[2] = UIH
  BY <1>4 DEF UIH
<1>6. IsEmitted(f, m, 0, len, UIH, 3 + len)
  BY <1>4, Zenon
<1>7. Type(f) = UIH
  BY <1>6 DEF IsEmitted
<1>8. f \in Outgoing
  BY <1>5, <1>6, MessageSent
<1>. QED  BY <1>4, <1>7, <1>8

-----------------------------------------------------------------------------
(* Messages of the device                                                    *)

\* Where a message stands.
LEMMA MessagePlace ==
    ASSUME NEW b, b[2] % 2 = 1
    PROVE  /\ get_rfcomm_payload_offset(b) = 3
           /\ get_rfcomm_msg_payload_offset(b) = 5
BY DEF get_rfcomm_payload_offset, get_rfcomm_msg_payload_offset, get_rfcomm_len_size,
       EA_ENABLE, RFCOMM_HEADER_SIZE

\* Type and length of a message, written.
LEMMA MessageHeader ==
    ASSUME NEW b \in Buffer, b[2] % 2 = 1, NEW type \in {PN, MSC, RPN}, NEW n \in {2, 8},
           NEW h, h = set_rfcomm_msg_type_len(set_msg_type(b, type, MSG_CMD), n)
    PROVE  /\ h \in Buffer /\ h[3] = type + 3 /\ h[4] = 2 * n + 1
           /\ \A i \in 0..13 : i \notin {3, 4} => h[i] = b[i]
<1>1. PICK t : t = set_msg_type(b, type, MSG_CMD)
  OBVIOUS
<1>2. t = Put(b, 3, type + 3)
  BY <1>1, MessagePlace DEF set_msg_type, MSG_CMD, PN, MSC, RPN
<1>3. /\ t \in Buffer /\ t[3] = type + 3
      /\ \A i \in 0..13 : i # 3 => t[i] = b[i]
  <2>1. type + 3 \in 0..255
    BY DEF PN, MSC, RPN
  <2>. QED  BY <1>2, <2>1, BufferType DEF Put
<1>4. t[2] % 2 = 1 /\ t[3] % 2 = 1
  BY <1>3 DEF PN, MSC, RPN
<1>5. h = Put(t, 4, 2 * n + 1)
  BY <1>1, <1>4, MessagePlace, SMTT(30)
     DEF set_rfcomm_msg_type_len, EA_ENABLE, RFCOMM_HEADER_SIZE
<1>6. /\ h \in Buffer /\ h[4] = 2 * n + 1
      /\ \A i \in 0..13 : i # 4 => h[i] = t[i]
  <2>1. 2 * n + 1 \in 0..255
    OBVIOUS
  <2>. QED  BY <1>3, <1>5, <2>1, BufferType, SMTT(30) DEF Put
<1>. QED  BY <1>3, <1>6

\* The parameters of a message, written.
LEMMA MessageParams ==
    ASSUME NEW h \in Buffer, h[2] % 2 = 1, NEW D \in SUBSET (0..7), NEW p \in [D -> 0..255],
           NEW c, c = set_params(h, p)
    PROVE  /\ c \in Buffer
           /\ \A i \in 0..13 : i - 5 \notin D => c[i] = h[i]
<1>1. get_rfcomm_msg_payload_offset(h) = 5 /\ DOMAIN p = D
  BY MessagePlace
<1>2. c = [i \in 0..13 |-> IF i - 5 \in D THEN p[i - 5] ELSE h[i]]
  BY <1>1 DEF set_params, Index, BufSize
<1>3. c \in [0..13 -> 0..255]
  BY <1>2, BufferType
<1>. QED  BY <1>2, <1>3, BufferType

\* create_msc_msg, create_pn_msg and create_rpn_msg leave a good message.
LEMMA MscMessage ==
    ASSUME NEW b \in Buffer, b[2] % 2 = 1, b[0] \div 8 = 0, NEW len \in 4..10,
           NEW m, m = create_msc_msg(b, MSG_CMD, 128 + 8 + 4)
    PROVE  GoodMessage(m, len)
<1>1. PICK h : h = set_rfcomm_msg_type_len(set_msg_type(b, MSC, MSG_CMD), 2)
  OBVIOUS
<1>2. /\ h \in Buffer /\ h[3] = MSC + 3 /\ h[4] = 2 * 2 + 1
      /\ \A i \in 0..13 : i \notin {3, 4} => h[i] = b[i]
  BY <1>1, MessageHeader
<1>3. PICK p : p = msc_params(128 + 8 + 4)
  OBVIOUS
<1>4. p \in [0..2 -> 0..255]
  BY <1>3 DEF msc_params, Bit
<1>5. m = set_params(h, p)
  BY <1>1, <1>3 DEF create_msc_msg
<1>6. /\ m \in Buffer
      /\ \A i \in 0..13 : i - 5 \notin 0..2 => m[i] = h[i]
  <2>1. 0..2 \in SUBSET (0..7) /\ h[2] % 2 = 1
    BY <1>2
  <2>. QED  BY <1>2, <1>4, <1>5, <2>1, MessageParams
<1>7. m[0] = b[0] /\ m[3] = MSC + 3 /\ m[4] = 5
  BY <1>2, <1>6
<1>. QED  BY <1>6, <1>7 DEF GoodMessage, PN, MSC, RPN

\* create_pn_msg writes eight parameters but the timer.
LEMMA PnMessage ==
    ASSUME NEW b \in Buffer, b[2] % 2 = 1, b[0] \div 8 = 0, b[8] = 0,
           NEW config \in [0..7 -> Octet],
           NEW m, m = create_pn_msg(b, MSG_CMD, config)
    PROVE  GoodMessage(m, 10)
<1>1. PICK h : h = set_rfcomm_msg_type_len(set_msg_type(b, PN, MSG_CMD), 8)
  OBVIOUS
<1>2. /\ h \in Buffer /\ h[3] = PN + 3 /\ h[4] = 2 * 8 + 1
      /\ \A i \in 0..13 : i \notin {3, 4} => h[i] = b[i]
  BY <1>1, MessageHeader
<1>3. PICK p : p = pn_params(config)
  OBVIOUS
<1>4. p \in [0..7 \ {3} -> 0..255]
  BY <1>3 DEF pn_params, ACK_TIMER_OFFSET, Octet
<1>5. m = set_params(h, p)
  BY <1>1, <1>3 DEF create_pn_msg
<1>6. /\ m \in Buffer
      /\ \A i \in 0..13 : i - 5 \notin 0..7 \ {3} => m[i] = h[i]
  <2>1. 0..7 \ {3} \in SUBSET (0..7) /\ h[2] % 2 = 1
    BY <1>2
  <2>. QED  BY <1>2, <1>4, <1>5, <2>1, MessageParams
<1>7. m[0] = b[0] /\ m[3] = PN + 3 /\ m[4] = 17 /\ m[8] = 0
  BY <1>2, <1>6
<1>. QED  BY <1>6, <1>7 DEF GoodMessage, PN, MSC, RPN

\* create_rpn_msg writes eight parameters.
LEMMA RpnMessage ==
    ASSUME NEW b \in Buffer, b[2] % 2 = 1, b[0] \div 8 = 0,
           NEW m, m = create_rpn_msg(b, MSG_CMD, initial_rpn_config)
    PROVE  GoodMessage(m, 10)
<1>1. PICK h : h = set_rfcomm_msg_type_len(set_msg_type(b, RPN, MSG_CMD), 8)
  OBVIOUS
<1>2. /\ h \in Buffer /\ h[3] = RPN + 3 /\ h[4] = 2 * 8 + 1
      /\ \A i \in 0..13 : i \notin {3, 4} => h[i] = b[i]
  BY <1>1, MessageHeader
<1>3. h[2] % 2 = 1
  BY <1>2
<1>4. PICK p : p = rpn_params(h, initial_rpn_config)
  OBVIOUS
<1>5. p \in [0..7 -> 0..255]
  <2>1. PICK c : c = initial_rpn_config
    OBVIOUS
  <2>2. c \in [0..7 -> 0..255]
    BY <2>1 DEF initial_rpn_config
  <2>3. PICK format : format = rpn_data_format(h, c)
    OBVIOUS
  <2>4. format \in 0..255
    <3>1. h[7] \in 0..255 /\ c[2] \in 0..255
      BY <1>2, <2>2, BufferType
    <3>2. format = 64 * (h[7] \div 64) + (c[2] % 64)
      BY <1>3, <2>3, MessagePlace DEF rpn_data_format, get_rfcomm_msg_payload_uih_param
    <3>. QED  BY <3>1, <3>2, SMTT(30)
  <2>5. c[3] % 64 \in 0..255
    BY <2>2
  <2>6. p = [c EXCEPT ![0] = 83, ![2] = format, ![3] = c[3] % 64]
    BY <1>4, <2>1, <2>2, <2>3 DEF rpn_params
  <2>. QED  BY <2>2, <2>4, <2>5, <2>6
<1>6. m = set_params(h, p)
  BY <1>1, <1>4 DEF create_rpn_msg
<1>7. /\ m \in Buffer
      /\ \A i \in 0..13 : i - 5 \notin 0..7 => m[i] = h[i]
  <2>1. 0..7 \in SUBSET (0..7)
    OBVIOUS
  <2>. QED  BY <1>2, <1>3, <1>5, <1>6, <2>1, MessageParams
<1>8. m[0] = b[0] /\ m[3] = RPN + 3 /\ m[4] = 17
  BY <1>2, <1>7
<1>. QED  BY <1>7, <1>8 DEF GoodMessage, PN, MSC, RPN

\* set_rpn_pm changes parameters 6 and 7 alone.
LEMMA ParamsMarked ==
    ASSUME NEW b \in Buffer, b[2] % 2 = 1, NEW m, m = set_rpn_pm(b)
    PROVE  m \in Buffer /\ \A i \in 0..13 : i \notin {11, 12} => m[i] = b[i]
<1>1. PICK p : p = [n \in {6, 7} |-> IF n = 6 THEN \h7F ELSE \h3F]
  OBVIOUS
<1>2. p \in [{6, 7} -> 0..255] /\ {6, 7} \in SUBSET (0..7)
  BY <1>1
<1>3. m = set_params(b, p)
  BY <1>1 DEF set_rpn_pm
<1>4. m \in Buffer /\ \A i \in 0..13 : i - 5 \notin {6, 7} => m[i] = b[i]
  BY <1>2, <1>3, MessageParams
<1>. QED  BY <1>4

\* set_rfcomm_msg_type_cr writes the C/R bit of the type alone.
LEMMA BitChanged ==
    ASSUME NEW b \in Buffer, b[2] % 2 = 1, b[3] % 2 = 1, NEW cmdresp \in {0, 1},
           NEW m, m = set_rfcomm_msg_type_cr(b, cmdresp)
    PROVE  /\ m \in Buffer
           /\ m[3] = b[3] - (b[3] % 4) + 2 * cmdresp + 1
           /\ \A i \in 0..13 : i # 3 => m[i] = b[i]
<1>1. b[3] \in 0..255
  BY BufferType
<1>2. m = Put(b, 3, b[3] - 2 * ((b[3] \div 2) % 2) + 2 * cmdresp)
  BY MessagePlace DEF set_rfcomm_msg_type_cr, Bit
<1>3. PICK octet \in 0..255 : octet = b[3] - 2 * ((b[3] \div 2) % 2) + 2 * cmdresp
  BY <1>1
<1>4. octet = b[3] - (b[3] % 4) + 2 * cmdresp + 1
  BY <1>1, <1>3
<1>5. m = Put(b, 3, octet)
  BY <1>2, <1>3
<1>6. /\ m \in Buffer /\ m[3] = octet
      /\ \A i \in 0..13 : i # 3 => m[i] = b[i]
  BY <1>5, BufferType DEF Put
<1>. QED  BY <1>4, <1>6

-----------------------------------------------------------------------------
(* The answers                                                               *)

\* A UA, on the channel of the frame it answers.
LEMMA UaSent ==
    ASSUME NEW g \in Frame, NEW b, NEW ch, Loaded(b, g, ch),
           NEW f, f = create_l2cap_bframe_rfcomm_pkt(ua(b))
    PROVE  f \in Outgoing /\ Type(f) = UA /\ Dlci(f) = Dlci(g)
<1>1. PICK c : c = create_rfcomm_pkt(b, ch, 0, 1, MSG_CMD, UA)
  OBVIOUS
<1>2. IsBuilt(b, ch, 0, 1, MSG_CMD, UA, 3)
  BY DEF IsBuilt, Loaded, FrameTypes, MSG_CMD, UA, UIH
<1>3. f = create_l2cap_bframe_rfcomm_pkt(c)
  BY <1>1, FrameRead DEF ua
<1>4. IsEmitted(f, b, ch, 0, UA, 3)
  BY <1>1, <1>2, <1>3, FrameBuilt
<1>5. UA # UIH /\ UA # SABM /\ ch \in Nat
  BY DEF UA, UIH, SABM, Loaded
<1>6. f \in Outgoing
  BY <1>4, <1>5, NoMessage
<1>. QED  BY <1>4, <1>6 DEF IsEmitted, Loaded

\* The SABM of button S2.
LEMMA SabmSent ==
    ASSUME NEW quiet \in Buffer, quiet[0] < 8,
           NEW c, c = create_rfcomm_pkt(quiet, 0, 0, 1, MSG_CMD, SABM),
           NEW f, f = create_l2cap_bframe_rfcomm_pkt(c)
    PROVE  /\ f \in Outgoing /\ Type(f) = SABM
           /\ c \in Buffer /\ c[0] < 8
           /\ \A i \in 4..13 : c[i] = quiet[i]
<1>1. quiet[0] \div 8 = 0
  BY BufferOctets, SMTT(30)
<1>2. IsBuilt(quiet, 0, 0, 1, MSG_CMD, SABM, 3)
  BY <1>1 DEF IsBuilt, FrameTypes, MSG_CMD, SABM, UIH, MSG_DLCI
<1>3. /\ c \in Buffer /\ c[0] \div 8 = 0
      /\ \A i \in 3..13 : i # 3 => c[i] = quiet[i]
      /\ IsEmitted(f, quiet, 0, 0, SABM, 3)
  BY <1>2, FrameBuilt
<1>4. f \in Outgoing
  <2>1. SABM # UIH /\ 0 \in Nat
    BY DEF UIH, SABM
  <2>2. IsEmitted(f, quiet, 0, 0, SABM, 3)
    BY <1>3, Zenon
  <2>. QED  BY <2>1, <2>2, NoMessage
<1>5. Type(f) = SABM
  BY <1>3 DEF IsEmitted
<1>6. c[0] < 8
  <2>1. c[0] \in 0..255
    BY <1>3, BufferOctets
  <2>. QED  BY <1>3, <2>1
<1>. QED  BY <1>3, <1>4, <1>5, <1>6

\* The frame that grants credits.
LEMMA CreditSent ==
    ASSUME NEW g \in Frame, NEW b, NEW ch, Loaded(b, g, ch), ch # 0,
           NEW f, f = create_l2cap_bframe_rfcomm_pkt(
                          create_credit_pkt(b, ch, 0, MSG_CMD, MAX_CREDIT_CNT))
    PROVE  f \in Outgoing /\ Type(f) = UIH
<1>1. PICK h : h = header(b, ch, 0, 1, MSG_CMD, UIH)
  OBVIOUS
<1>2. HasHeader(h, b, ch, 0, 1, MSG_CMD, UIH)
  <2>1. IsHeaded(b, ch, 0, 1, MSG_CMD, UIH)
    BY DEF IsHeaded, Loaded, FrameTypes, MSG_CMD
  <2>. QED  BY <1>1, <2>1, HeaderOctets
<1>3. /\ h \in Buffer /\ h[0] = 8 * ch + 2 * MSG_CMD + 1 /\ h[1] = UIH + 16 /\ h[2] = 1
  BY <1>2 DEF HasHeader, UIH
<1>4. PICK k : k = Put(h, 3, MAX_CREDIT_CNT)
  OBVIOUS
<1>5. k \in Buffer /\ k[0] = h[0] /\ k[1] = h[1] /\ k[2] = h[2]
  <2>1. MAX_CREDIT_CNT \in 0..255
    BY SessionAssumption
  <2>. QED  BY <1>3, <1>4, <2>1, BufferType DEF Put
<1>6. IsHeader(k, UIH, 1, 0, 4)
  BY <1>3, <1>5 DEF IsHeader, FrameTypes, UIH
<1>7. IsBuilt(b, ch, 0, 1, MSG_CMD, UIH, 4)
  BY DEF IsBuilt, Loaded, FrameTypes, MSG_CMD, UIH
<1>8. PICK c : c = set_rfcomm_fcs(k)
  OBVIOUS
<1>9. f = create_l2cap_bframe_rfcomm_pkt(c)
  <2>1. h[2] % 2 = 1
    BY <1>3
  <2>2. get_rfcomm_payload_offset(h) = 3
    BY <2>1, MessagePlace
  <2>. QED  BY <1>1, <1>4, <1>8, <2>2 DEF create_credit_pkt, header
<1>10. k[0] = 8 * ch + 2 * MSG_CMD + 1
  BY <1>3, <1>5
<1>11. IsEmitted(f, k, ch, 0, UIH, 4)
  BY <1>6, <1>7, <1>8, <1>9, <1>10, HeadedSent
<1>12. ch \in Nat /\ UIH # SABM
  BY DEF Loaded, UIH, SABM
<1>13. f \in Outgoing
  BY <1>11, <1>12, NoMessage
<1>. QED  BY <1>11, <1>13 DEF IsEmitted

\* What the handlers see of a message, and its buffer.
LEMMA MessageRead ==
    ASSUME NEW g \in Incoming, NEW b, NEW ch, Loaded(b, g, ch),
           IsFrame(b, UIH), get_rfcomm_server_ch_addr(b) = MSG_DLCI
    PROVE  /\ ForMux(g) /\ b \in Buffer /\ b[0] \div 8 = 0 /\ b[2] % 2 = 1
           /\ b[3] = g[4] /\ b[4] = g[5] /\ b[3] % 2 = 1 /\ b[4] % 2 = 1
           /\ Len(g) \in Nat /\ Len(g) >= 6 /\ 6 + g[5] \div 2 = Len(g)
           /\ get_rfcomm_msg_type(b) = b[3] - (b[3] % 4)
           /\ get_rfcomm_payload_len(b) = Len(g) - 4
<1>1. g \in Frame
  BY DEF Incoming
<1>2. ch = 0 /\ Type(g) = UIH
  BY <1>1, FrameRead DEF IsFrame, MSG_DLCI
<1>3. ForMux(g)
  BY <1>2 DEF ForMux, Loaded, MSG_DLCI
<1>4. MessageStart(g) /\ 6 + g[5] \div 2 = Len(g)
  BY <1>3 DEF Incoming
<1>5. Len(g) \in Nat /\ Len(g) >= 6 /\ g[4] % 2 = 1 /\ g[5] % 2 = 1 /\ g[2] = UIH
  BY <1>4 DEF MessageStart, Loaded
<1>6. b[3] = g[4] /\ b[4] = g[5]
  <2>1. \A i \in 4..14 : i <= Len(g) => b[i - 1] = g[i]
    BY DEF Loaded
  <2>. QED  BY <1>5, <2>1
<1>7. b \in Buffer /\ b[0] \div 8 = 0 /\ b[2] % 2 = 1
  BY <1>2 DEF Loaded
<1>8. get_rfcomm_msg_type(b) = b[3] - (b[3] % 4)
  BY <1>1, FrameRead DEF get_rfcomm_msg_type
<1>9. get_rfcomm_payload_len(b) = Len(g) - 4
  <2>1. CreditOctets(g) = 0
    BY <1>2, <1>5 DEF CreditOctets, UIH
  <2>2. Len(g) = 4 + CreditOctets(g) + g[3] \div 2
    BY <1>1 DEF Frame
  <2>3. PICK k \in 0..127 : k = g[3] \div 2 /\ get_rfcomm_payload_len(b) = k
    BY <1>1, FrameRead
  <2>4. Len(g) = 4 + k
    BY <2>1, <2>2, <2>3
  <2>. QED  BY <2>3, <2>4
<1>. QED  BY <1>3, <1>4, <1>5, <1>6, <1>7, <1>8, <1>9

\* Our PN: the UA it answers is too short to reach the timer's octet.
LEMMA OurPnSent ==
    ASSUME NEW g \in Incoming, NEW b, NEW ch, Loaded(b, g, ch), IsFrame(b, UA),
           pn_config \in [0..7 -> Octet],
           NEW f, f = create_l2cap_bframe_rfcomm_pkt(our_pn(b))
    PROVE  f \in Outgoing /\ Type(f) = UIH
<1>1. g \in Frame
  BY DEF Incoming
<1>2. Type(g) = UA
  BY <1>1, FrameRead DEF IsFrame
<1>3. Dlci(g) = MSG_DLCI /\ Len(g) = 4
  BY <1>2 DEF Incoming, UA, UIH
<1>4. ch = 0
  BY <1>3 DEF Loaded, MSG_DLCI
<1>5. b \in Buffer /\ b[0] \div 8 = 0 /\ b[2] % 2 = 1
  BY <1>4 DEF Loaded
<1>6. b[8] = 0
  <2>1. \A i \in 4..13 : i >= Len(g) => b[i] = 0
    BY DEF Loaded
  <2>. QED  BY <1>3, <2>1
<1>7. PICK m : m = create_pn_msg(b, MSG_CMD, pn_config)
  OBVIOUS
<1>8. GoodMessage(m, 10)
  BY <1>5, <1>6, <1>7, PnMessage
<1>9. PICK c : c = uih(m, 10, MSG_CMD)
  OBVIOUS
<1>10. MSG_CMD \in {0, 1} /\ f = create_l2cap_bframe_rfcomm_pkt(c)
  BY <1>7, <1>9 DEF MSG_CMD, our_pn
<1>. QED  BY <1>8, <1>9, <1>10, UihSent

\* Our MSC, in a frame of any length that has room for it.
LEMMA OurMscSent ==
    ASSUME NEW b \in Buffer, b[2] % 2 = 1, b[0] \div 8 = 0, NEW len \in 4..10,
           NEW f, f = create_l2cap_bframe_rfcomm_pkt(our_msc(b, len))
    PROVE  f \in Outgoing /\ Type(f) = UIH
<1>1. PICK m : m = create_msc_msg(b, MSG_CMD, 128 + 8 + 4)
  OBVIOUS
<1>2. GoodMessage(m, len)
  BY <1>1, MscMessage
<1>3. PICK c : c = uih(m, len, MSG_CMD)
  OBVIOUS
<1>4. MSG_CMD \in {0, 1} /\ f = create_l2cap_bframe_rfcomm_pkt(c)
  BY <1>1, <1>3 DEF MSG_CMD, our_msc
<1>. QED  BY <1>2, <1>3, <1>4, UihSent

\* Our RPN.
LEMMA OurRpnSent ==
    ASSUME NEW b \in Buffer, b[2] % 2 = 1, b[0] \div 8 = 0,
           NEW f, f = create_l2cap_bframe_rfcomm_pkt(
                      uih(create_rpn_msg(b, MSG_CMD, initial_rpn_config), 10, MSG_CMD))
    PROVE  f \in Outgoing /\ Type(f) = UIH
<1>1. PICK m : m = create_rpn_msg(b, MSG_CMD, initial_rpn_config)
  OBVIOUS
<1>2. GoodMessage(m, 10)
  BY <1>1, RpnMessage
<1>3. PICK c : c = uih(m, 10, MSG_CMD)
  OBVIOUS
<1>4. MSG_CMD \in {0, 1} /\ f = create_l2cap_bframe_rfcomm_pkt(c)
  BY <1>1, <1>3 DEF MSG_CMD
<1>. QED  BY <1>2, <1>3, <1>4, UihSent

\* PN of the peer, as the handlers see it.
LEMMA PnRead ==
    ASSUME NEW g \in Incoming, NEW b, NEW ch, Loaded(b, g, ch), IsMessage(b, PN)
    PROVE  /\ b \in Buffer /\ b[0] \div 8 = 0 /\ b[2] % 2 = 1
           /\ b[3] \in {PN + 1, PN + 3} /\ b[4] = 17
           /\ b[3] = PN + 3 => b[8] = 0
           /\ get_rfcomm_payload_len(b) = 10
<1>1. /\ ForMux(g) /\ b \in Buffer /\ b[0] \div 8 = 0 /\ b[2] % 2 = 1
      /\ b[3] = g[4] /\ b[4] = g[5] /\ b[3] % 2 = 1 /\ b[4] % 2 = 1
      /\ Len(g) \in Nat /\ Len(g) >= 6 /\ 6 + g[5] \div 2 = Len(g)
      /\ get_rfcomm_msg_type(b) = b[3] - (b[3] % 4)
      /\ get_rfcomm_payload_len(b) = Len(g) - 4
  BY MessageRead DEF IsMessage
<1>2. b[3] - (b[3] % 4) = PN
  BY <1>1 DEF IsMessage
<1>3. PnGood(g)
  BY <1>1, <1>2 DEF Incoming
<1>4. Len(g) = 14 /\ g[5] = 17 /\ (g[4] = PN + 3 => g[9] = 0)
  BY <1>3 DEF PnGood
<1>5. b[3] \in {PN + 1, PN + 3}
  <2>1. b \in Buffer /\ b[3] % 2 = 1
    BY <1>1
  <2>2. b[3] \in 0..255
    BY <2>1, BufferOctets
  <2>. QED  BY <1>2, <2>1, <2>2 DEF PN
<1>6. b[8] = g[9]
  <2>1. \A i \in 4..14 : i <= Len(g) => b[i - 1] = g[i]
    BY DEF Loaded
  <2>. QED  BY <1>4, <2>1
<1>7. get_rfcomm_payload_len(b) = 10
  BY <1>1, <1>4
<1>8. b[4] = 17 /\ (b[3] = PN + 3 => b[8] = 0)
  BY <1>1, <1>4, <1>6
<1>. QED  BY <1>1, <1>5, <1>7, <1>8

\* A PN request that goes back through the code of RPN commands.
LEMMA PnOtherSent ==
    ASSUME NEW g \in Incoming, NEW b, NEW ch, Loaded(b, g, ch), IsMessage(b, PN),
           NEW f, f = create_l2cap_bframe_rfcomm_pkt(
                      uih(set_rpn_pm(b), get_rfcomm_payload_len(b), MSG_RESP))
    PROVE  f \in Outgoing /\ Type(f) = UIH
<1>1. /\ b \in Buffer /\ b[0] \div 8 = 0 /\ b[2] % 2 = 1
      /\ b[3] \in {PN + 1, PN + 3} /\ b[4] = 17
      /\ b[3] = PN + 3 => b[8] = 0
      /\ get_rfcomm_payload_len(b) = 10
  BY PnRead
<1>2. PICK m : m = set_rpn_pm(b)
  OBVIOUS
<1>3. m \in Buffer /\ \A i \in 0..13 : i \notin {11, 12} => m[i] = b[i]
  BY <1>1, <1>2, ParamsMarked
<1>4. m[0] = b[0] /\ m[3] = b[3] /\ m[4] = b[4] /\ m[8] = b[8]
  BY <1>3
<1>5. GoodMessage(m, 10)
  BY <1>1, <1>3, <1>4 DEF GoodMessage, PN, MSC, RPN
<1>6. PICK c : c = uih(m, 10, MSG_RESP)
  OBVIOUS
<1>7. MSG_RESP \in {0, 1} /\ f = create_l2cap_bframe_rfcomm_pkt(c)
  BY <1>1, <1>2, <1>6 DEF MSG_RESP
<1>. QED  BY <1>5, <1>6, <1>7, UihSent

\* The parameters go back with the C/R bit of a response.
LEMMA PnRemoteSent ==
    ASSUME NEW g \in Incoming, NEW b, NEW ch, Loaded(b, g, ch), IsMessage(b, PN),
           NEW f, f = create_l2cap_bframe_rfcomm_pkt(
                      create_uih_pkt(b, get_rfcomm_server_ch_addr(b),
                                     get_rfcomm_payload_len(b), 0, MSG_RESP))
    PROVE  f \in Outgoing /\ Type(f) = UIH
<1>1. /\ b \in Buffer /\ b[0] \div 8 = 0 /\ b[2] % 2 = 1
      /\ b[3] \in {PN + 1, PN + 3} /\ b[4] = 17
      /\ get_rfcomm_payload_len(b) = 10
  BY PnRead
<1>2. PICK h : h = header(b, 0, 10, 0, MSG_RESP, UIH)
  OBVIOUS
<1>3. HasHeader(h, b, 0, 10, 0, MSG_RESP, UIH)
  <2>1. IsHeaded(b, 0, 10, 0, MSG_RESP, UIH)
    BY <1>1 DEF IsHeaded, FrameTypes, MSG_RESP
  <2>. QED  BY <1>2, <2>1, HeaderOctets
<1>4. /\ h \in Buffer /\ h[0] = 1 /\ h[1] = UIH /\ h[2] = 21
      /\ h[3] = b[3] /\ h[4] = b[4]
  BY <1>3 DEF HasHeader, UIH, MSG_RESP
<1>5. PICK m : m = set_rfcomm_msg_type_cr(h, MSG_RESP)
  OBVIOUS
<1>6. /\ m \in Buffer
      /\ m[3] = h[3] - (h[3] % 4) + 2 * MSG_RESP + 1
      /\ \A i \in 0..13 : i # 3 => m[i] = h[i]
  <2>1. h[2] % 2 = 1 /\ h[3] % 2 = 1 /\ MSG_RESP \in {0, 1}
    BY <1>1, <1>4 DEF PN, MSG_RESP
  <2>. QED  BY <1>4, <1>5, <2>1, BitChanged
<1>7. m[0] = 1 /\ m[1] = UIH /\ m[2] = 21 /\ m[3] = PN + 1 /\ m[4] = 17
  BY <1>1, <1>4, <1>6 DEF PN, MSG_RESP
<1>8. GoodMessage(m, 10)
  BY <1>6, <1>7 DEF GoodMessage, PN, MSC, RPN
<1>9. IsHeader(m, UIH, 0, 10, 13)
  BY <1>6, <1>7 DEF IsHeader, FrameTypes, UIH
<1>10. IsBuilt(b, 0, 10, 0, MSG_RESP, UIH, 13)
  BY <1>1 DEF IsBuilt, FrameTypes, MSG_RESP, MSG_DLCI, UIH
<1>11. PICK c : c = set_rfcomm_fcs(m)
  OBVIOUS
<1>12. f = create_l2cap_bframe_rfcomm_pkt(c)
  BY <1>1, <1>2, <1>5, <1>11 DEF create_uih_pkt, header, get_rfcomm_server_ch_addr
<1>13. m[0] = 8 * 0 + 2 * MSG_RESP + 1
  BY <1>7 DEF MSG_RESP
<1>14. IsEmitted(f, m, 0, 10, UIH, 13) /\ f[2] = UIH + 16 * 0
  BY <1>9, <1>10, <1>11, <1>12, <1>13, HeadedSent
<1>15. f[2] = UIH /\ 3 + 10 = 13
  BY <1>14 DEF UIH
<1>16. f \in Outgoing
  BY <1>8, <1>14, <1>15, MessageSent
<1>. QED  BY <1>14, <1>16 DEF IsEmitted

\* The signals of the peer go back, then ours follow in the same buffer.
LEMMA MscAnswersSent ==
    ASSUME NEW g \in Incoming, NEW b, NEW ch, Loaded(b, g, ch), IsMessage(b, MSC),
           NEW len, len = get_rfcomm_payload_len(b),
           NEW response, response = uih(set_rfcomm_msg_type_cr(b, MSG_RESP), len, MSG_RESP),
           NEW e, e = create_l2cap_bframe_rfcomm_pkt(response),
           NEW f, f = create_l2cap_bframe_rfcomm_pkt(our_msc(response, len))
    PROVE  e \in Outgoing /\ Type(e) = UIH /\ f \in Outgoing /\ Type(f) = UIH
<1>1. /\ ForMux(g) /\ b \in Buffer /\ b[0] \div 8 = 0 /\ b[2] % 2 = 1
      /\ b[3] = g[4] /\ b[4] = g[5] /\ b[3] % 2 = 1 /\ b[4] % 2 = 1
      /\ Len(g) \in Nat /\ Len(g) >= 6 /\ 6 + g[5] \div 2 = Len(g)
      /\ get_rfcomm_msg_type(b) = b[3] - (b[3] % 4)
      /\ get_rfcomm_payload_len(b) = Len(g) - 4
  BY MessageRead DEF IsMessage
<1>2. b[3] - (b[3] % 4) = MSC
  BY <1>1 DEF IsMessage
<1>3. Len(g) \in {8, 9}
  BY <1>1, <1>2 DEF Incoming
<1>4. len \in 4..5
  BY <1>1, <1>3
<1>5. PICK m : m = set_rfcomm_msg_type_cr(b, MSG_RESP)
  OBVIOUS
<1>6. /\ m \in Buffer
      /\ m[3] = b[3] - (b[3] % 4) + 2 * MSG_RESP + 1
      /\ \A i \in 0..13 : i # 3 => m[i] = b[i]
  BY <1>1, <1>5, BitChanged DEF MSG_RESP
<1>7. m[0] = b[0] /\ m[3] = MSC + 1 /\ m[4] = b[4]
  BY <1>2, <1>6 DEF MSC, MSG_RESP
<1>8. 2 + m[4] \div 2 <= len
  <2>0. b \in Buffer
    BY <1>1
  <2>1. b[4] \in 0..255
    BY <2>0, BufferOctets
  <2>2. PICK k \in 0..127 : k = b[4] \div 2
    BY <2>1
  <2>3. 6 + k = Len(g)
    BY <1>1, <2>2
  <2>. QED  BY <1>1, <1>7, <2>2, <2>3
<1>9. GoodMessage(m, len)
  <2>1. m \in Buffer /\ m[0] \div 8 = 0 /\ m[4] % 2 = 1
    BY <1>1, <1>6, <1>7
  <2>2. m[3] % 2 = 1 /\ m[3] \notin {PN + 1, PN + 3} /\ m[3] # MSC + 3 /\ m[3] # RPN + 3
    BY <1>7 DEF PN, MSC, RPN
  <2>3. len \in 2..10
    BY <1>4
  <2>. QED  BY <1>8, <2>1, <2>2, <2>3, Zenon DEF GoodMessage
<1>10. MSG_RESP \in {0, 1} /\ response = uih(m, len, MSG_RESP)
  BY <1>5 DEF MSG_RESP
<1>11. /\ e \in Outgoing /\ Type(e) = UIH
       /\ response \in Buffer /\ response[0] \div 8 = 0 /\ response[2] % 2 = 1
  BY <1>9, <1>10, UihSent
<1>12. len \in 4..10
  BY <1>4
<1>13. f \in Outgoing /\ Type(f) = UIH
  BY <1>11, <1>12, OurMscSent
<1>. QED  BY <1>11, <1>13

-----------------------------------------------------------------------------
(* Frames of the peer                                                        *)

\* The parts of a frame of the peer, and the frame.
IsParts(dlci, cmdresp, type, credits, info) ==
    /\ dlci \in {MSG_DLCI, DataDlci} /\ cmdresp \in {0, 1} /\ type \in FrameTypes
    /\ credits \in Seq(Octet) /\ Len(credits) \in {0, 1}
    /\ type # UIH => Len(credits) = 0
    /\ info \in Seq(Octet) /\ Len(info) \in 0..127

IsMade(f, dlci, type, credits, info) ==
    /\ f \in Frame /\ Type(f) = type /\ Dlci(f) = dlci
    /\ Len(f) = 4 + Len(credits) + Len(info)
    /\ type = UIH => (Len(credits) = 0 => f[2] = type)
    /\ \A i \in 1..Len(info) : f[3 + Len(credits) + i] = info[i]

\* The octets of a header of the peer: the address,
LEMMA AddressValues ==
    ASSUME NEW dlci \in {MSG_DLCI, DataDlci}, NEW cmdresp \in {0, 1}
    PROVE  /\ 4 * dlci + 2 * CommandBit(cmdresp) + 1 \in Octet
           /\ (4 * dlci + 2 * CommandBit(cmdresp) + 1) \div 4 = dlci
           /\ (4 * dlci + 2 * CommandBit(cmdresp) + 1) % 2 = 1
<1>1. CommandBit(cmdresp) \in {0, 1}
  BY DEF CommandBit
<1>2. PICK channel \in 1..30 : DataDlci = 2 * channel
  BY SessionAssumption
<1>3. dlci \in 0..60
  BY <1>2 DEF MSG_DLCI
<1>. QED  BY <1>1, <1>3 DEF Octet

\* the control field,
LEMMA ControlValues ==
    \A type \in FrameTypes, pf \in {0, 1} : type + 16 * pf \in Octet
BY DEF FrameTypes, SABM, UA, DM, DISC, UIH, Octet

\* and the length.
LEMMA LengthValues ==
    \A n \in 0..127 : /\ 2 * n + 1 \in Octet
                      /\ (2 * n + 1) % 2 = 1 /\ (2 * n + 1) \div 2 = n
BY DEF Octet

\* A frame of the peer, octet by octet.
LEMMA PeerFrameMade ==
    ASSUME NEW dlci, NEW cmdresp, NEW type, NEW credits, NEW info,
           IsParts(dlci, cmdresp, type, credits, info),
           NEW f, f = PeerFrame(dlci, cmdresp, type, credits, info)
    PROVE  IsMade(f, dlci, type, credits, info)
<1>1. /\ dlci \in {MSG_DLCI, DataDlci} /\ cmdresp \in {0, 1} /\ type \in FrameTypes
      /\ type # UIH => Len(credits) = 0
  BY DEF IsParts
<1>2. credits \in Seq(Octet) /\ info \in Seq(Octet)
  BY DEF IsParts
<1>3. PICK nc \in {0, 1}, ni \in 0..127 : nc = Len(credits) /\ ni = Len(info)
  BY DEF IsParts
<1>4. PICK pf \in {0, 1} : pf = IF type = UIH THEN Len(credits) ELSE 1
  BY <1>3, SMTT(30)
<1>5. PICK a \in Octet : a = 4 * dlci + 2 * CommandBit(cmdresp) + 1
  <2>1. 4 * dlci + 2 * CommandBit(cmdresp) + 1 \in Octet
    BY <1>1, AddressValues, Zenon
  <2>. QED  BY <2>1, Zenon
<1>6. a \div 4 = dlci /\ a % 2 = 1
  <2>1. /\ (4 * dlci + 2 * CommandBit(cmdresp) + 1) \div 4 = dlci
        /\ (4 * dlci + 2 * CommandBit(cmdresp) + 1) % 2 = 1
    BY <1>1, AddressValues, Zenon
  <2>. QED  BY <1>5, <2>1, Zenon
<1>7. PICK t \in Octet : t = type + 16 * pf
  <2>1. type + 16 * pf \in Octet
    BY <1>1, ControlValues, Zenon
  <2>. QED  BY <2>1, Zenon
<1>8. PICK l \in Octet : l = 2 * ni + 1
  <2>1. 2 * ni + 1 \in Octet
    BY <1>3, LengthValues, Zenon
  <2>. QED  BY <2>1, Zenon
<1>9. l % 2 = 1 /\ l \div 2 = ni
  <2>1. (2 * ni + 1) % 2 = 1 /\ (2 * ni + 1) \div 2 = ni
    BY <1>3, LengthValues, Zenon
  <2>. QED  BY <1>8, <2>1, Zenon
<1>10. PICK head : head = <<a, t, l>>
  OBVIOUS
<1>11. head \in Seq(Octet) /\ Len(head) = 3 /\ head[1] = a /\ head[2] = t /\ head[3] = l
  BY <1>10
<1>12. PICK sum \in Octet : sum = ReferenceFcs(IF type = UIH THEN SubSeq(head, 1, 2) ELSE head)
  <2>1. PICK s : s = IF type = UIH THEN SubSeq(head, 1, 2) ELSE head
    OBVIOUS
  <2>2. s \in Seq(Octet)
    <3>1. SubSeq(head, 1, 2) \in Seq(Octet)
      BY <1>11, SubSeqProperties
    <3>. QED  BY <1>11, <2>1, <3>1
  <2>3. ReferenceFcs(s) \in Octet
    BY <2>2, SumIsOctet
  <2>. QED  BY <2>1, <2>3
<1>13. f = head \o credits \o info \o <<sum>>
  BY <1>3, <1>4, <1>5, <1>7, <1>8, <1>10, <1>12 DEF PeerFrame
<1>14. PICK first : first = head \o credits
  OBVIOUS
<1>15. /\ first \in Seq(Octet) /\ Len(first) = 3 + nc
       /\ first[1] = a /\ first[2] = t /\ first[3] = l
  <2>1. /\ first \in Seq(Octet) /\ Len(first) = Len(head) + Len(credits)
        /\ \A i \in 1..Len(head) + Len(credits) :
              first[i] = IF i <= Len(head) THEN head[i] ELSE credits[i - Len(head)]
    BY <1>2, <1>11, <1>14, ConcatProperties
  <2>. QED  BY <1>3, <1>11, <2>1
<1>16. PICK second : second = first \o info
  OBVIOUS
<1>17. /\ second \in Seq(Octet) /\ Len(second) = Len(first) + Len(info)
       /\ \A i \in 1..Len(first) + Len(info) :
              second[i] = IF i <= Len(first) THEN first[i] ELSE info[i - Len(first)]
  <2>1. first \in Seq(Octet)
    BY <1>15
  <2>. QED  BY <1>2, <1>16, <2>1, ConcatProperties
<1>18. second[1] = a /\ second[2] = t /\ second[3] = l /\ Len(second) = 3 + nc + ni
  BY <1>3, <1>15, <1>17
<1>19. \A i \in 1..ni : second[3 + nc + i] = info[i]
  <2>1. Len(first) = 3 + nc /\ Len(info) = ni
    BY <1>3, <1>15
  <2>2. \A i \in 1..3 + nc + ni :
           second[i] = IF i <= 3 + nc THEN first[i] ELSE info[i - (3 + nc)]
    BY <1>17, <2>1
  <2>3. ASSUME NEW i \in 1..ni PROVE second[3 + nc + i] = info[i]
    <3>1. PICK j \in 1..3 + nc + ni : j = 3 + nc + i /\ ~(j <= 3 + nc) /\ j - (3 + nc) = i
      BY <1>3
    <3>. QED  BY <2>2, <3>1
  <2>. QED  BY <2>3
<1>20. f = second \o <<sum>>
  BY <1>13, <1>14, <1>16
<1>21. /\ f \in Seq(Octet) /\ Len(f) = Len(second) + 1
       /\ \A i \in 1..Len(second) + 1 :
             f[i] = IF i <= Len(second) THEN second[i] ELSE <<sum>>[i - Len(second)]
  <2>1. <<sum>> \in Seq(Octet) /\ Len(<<sum>>) = 1
    BY <1>12
  <2>2. second \in Seq(Octet)
    BY <1>17
  <2>. QED  BY <1>20, <2>1, <2>2, ConcatProperties
<1>22. f[1] = a /\ f[2] = t /\ f[3] = l /\ Len(f) = 4 + nc + ni
  BY <1>3, <1>18, <1>21
<1>23. \A i \in 1..ni : f[3 + nc + i] = info[i]
  <2>1. Len(second) = 3 + nc + ni
    BY <1>18
  <2>. QED  BY <1>3, <1>19, <1>21, <2>1
<1>24. /\ f[2] \in FrameTypes \cup {x + 16 : x \in FrameTypes}
       /\ Type(f) = type
       /\ CreditOctets(f) = IF type = UIH THEN pf ELSE 0
  BY <1>1, <1>7, <1>22, TypeWithBit
<1>25. CreditOctets(f) = nc
  BY <1>1, <1>3, <1>4, <1>24
<1>26. f[1] % 2 = 1 /\ Dlci(f) = dlci /\ f[3] % 2 = 1 /\ f[3] \div 2 = ni
  BY <1>6, <1>9, <1>22 DEF Dlci
<1>27. f \in Frame
  <2>1. Len(f) >= 4 /\ Len(f) = 4 + CreditOctets(f) + f[3] \div 2
    <3>1. Len(f) = 4 + nc + ni /\ CreditOctets(f) = nc /\ f[3] \div 2 = ni
      BY <1>22, <1>25, <1>26, Zenon
    <3>. QED  BY <1>3, <3>1
  <2>2. f \in Seq(Octet)
    BY <1>21
  <2>3. Dlci(f) \in {MSG_DLCI, DataDlci}
    BY <1>1, <1>26
  <2>. QED  BY <1>24, <1>26, <2>1, <2>2, <2>3, Zenon DEF Frame
<1>28. type = UIH => (nc = 0 => f[2] = type)
  BY <1>3, <1>4, <1>7, <1>22 DEF UIH
<1>29. Len(f) = 4 + Len(credits) + Len(info) /\ (type = UIH => (Len(credits) = 0 => f[2] = type))
  BY <1>3, <1>22, <1>28
<1>30. \A i \in 1..Len(info) : f[3 + Len(credits) + i] = info[i]
  BY <1>3, <1>23
<1>31. Type(f) = type /\ Dlci(f) = dlci
  BY <1>24, <1>26
<1>. QED  BY <1>27, <1>29, <1>30, <1>31, Zenon DEF IsMade

\* Its frames without information.
LEMMA PeerSends ==
    ASSUME NEW dlci \in {MSG_DLCI, DataDlci}, NEW cmdresp \in {0, 1},
           NEW type \in FrameTypes, type # UIH, type = UA => dlci = MSG_DLCI,
           NEW f, f = PeerFrame(dlci, cmdresp, type, <<>>, <<>>)
    PROVE  f \in Incoming /\ Type(f) = type /\ Dlci(f) = dlci
<1>1. IsParts(dlci, cmdresp, type, <<>>, <<>>)
  BY EmptySeq DEF IsParts
<1>2. IsMade(f, dlci, type, <<>>, <<>>)
  BY <1>1, PeerFrameMade
<1>3. f \in Frame /\ Type(f) = type /\ Dlci(f) = dlci /\ Len(f) = 4
  BY <1>2 DEF IsMade
<1>4. ~ForMux(f)
  BY <1>3 DEF ForMux
<1>. QED  BY <1>3, <1>4, Zenon DEF Incoming

\* No credits, or an octet of them, and an octet of data.
CreditsSent == {<<>>, <<5>>}
DataSent == <<65>>

\* Its data frames.
LEMMA PeerSendsOctet ==
    ASSUME NEW credits \in CreditsSent,
           NEW f, f = PeerFrame(DataDlci, MSG_CMD, UIH, credits, DataSent)
    PROVE  f \in Incoming /\ Type(f) = UIH
<1>. USE DEF DataSent
<1>1. IsParts(DataDlci, MSG_CMD, UIH, credits, <<65>>)
  <2>1. 5 \in Octet /\ 65 \in Octet
    BY DEF Octet
  <2>2. credits \in Seq(Octet) /\ Len(credits) \in {0, 1}
    <3>1. CASE credits = <<>>
      BY <3>1, EmptySeq
    <3>2. CASE credits = <<5>>
      <4>1. <<5>> \in Seq(Octet) /\ Len(<<5>>) = 1
        BY <2>1
      <4>. QED  BY <3>2, <4>1
    <3>. QED  BY <3>1, <3>2 DEF CreditsSent
  <2>3. <<65>> \in Seq(Octet) /\ Len(<<65>>) = 1
    BY <2>1
  <2>4. MSG_CMD \in {0, 1} /\ UIH \in FrameTypes
    BY DEF MSG_CMD, FrameTypes
  <2>. QED  BY <2>2, <2>3, <2>4 DEF IsParts
<1>2. IsMade(f, DataDlci, UIH, credits, <<65>>)
  BY <1>1, PeerFrameMade
<1>3. f \in Frame /\ Type(f) = UIH /\ Dlci(f) = DataDlci
  BY <1>2 DEF IsMade
<1>4. ~ForMux(f) /\ Type(f) # UA
  <2>1. DataDlci # MSG_DLCI
    <3>1. PICK channel \in 1..30 : DataDlci = 2 * channel
      BY SessionAssumption
    <3>. QED  BY <3>1 DEF MSG_DLCI
  <2>. QED  BY <1>3, <2>1 DEF ForMux, UIH, UA
<1>. QED  BY <1>3, <1>4, Zenon DEF Incoming

\* A message of the peer, its parameters as they follow type and length.
IsContent(type, cmdresp, params) ==
    /\ type \in 0..255 /\ type % 4 = 0 /\ cmdresp \in {0, 1}
    /\ params \in Seq(Octet) /\ Len(params) \in 0..125
    /\ type = PN => Len(params) = 8 /\ (cmdresp = 1 => params[4] = 0)
    /\ type = MSC => Len(params) \in {2, 3}

\* The type of a message is an octet.
LEMMA TypeValues ==
    ASSUME NEW type \in 0..255, type % 4 = 0, NEW cmdresp \in {0, 1}
    PROVE  /\ type + 2 * cmdresp + 1 \in Octet
           /\ (type + 2 * cmdresp + 1) % 2 = 1
           /\ (type + 2 * cmdresp + 1) - ((type + 2 * cmdresp + 1) % 4) = type
<1>1. type <= 252
  OBVIOUS
<1>. QED  BY <1>1 DEF Octet

\* Its messages.
LEMMA PeerMessage ==
    ASSUME NEW type, NEW cmdresp, NEW params, IsContent(type, cmdresp, params),
           NEW f, f = Message(type, cmdresp, params)
    PROVE  f \in Incoming /\ Type(f) = UIH
<1>1. PICK ty \in 0..255, cr \in {0, 1} : ty = type /\ cr = cmdresp /\ ty % 4 = 0
  BY DEF IsContent
<1>2. params \in Seq(Octet)
  BY DEF IsContent
<1>3. PICK n \in 0..125 : n = Len(params)
  BY DEF IsContent
<1>4. PICK t \in Octet : t = ty + 2 * cr + 1
  <2>1. ty + 2 * cr + 1 \in Octet
    BY <1>1, TypeValues, Zenon
  <2>. QED  BY <2>1, Zenon
<1>5. PICK l \in Octet : l = 2 * n + 1 /\ l % 2 = 1 /\ l \div 2 = n
  <2>1. 2 * n + 1 \in Octet /\ (2 * n + 1) % 2 = 1 /\ (2 * n + 1) \div 2 = n
    <3>1. n \in 0..127
      OBVIOUS
    <3>. QED  BY <3>1, LengthValues, Zenon
  <2>. QED  BY <2>1, Zenon
<1>6. t % 2 = 1 /\ l % 2 = 1 /\ l \div 2 = n /\ t - (t % 4) = ty
  <2>1. /\ (ty + 2 * cr + 1) % 2 = 1
        /\ (ty + 2 * cr + 1) - ((ty + 2 * cr + 1) % 4) = ty
    BY <1>1, TypeValues, Zenon
  <2>2. l % 2 = 1 /\ l \div 2 = n
    BY <1>5, Zenon
  <2>. QED  BY <1>4, <2>1, <2>2, Zenon
<1>7. PICK info : info = <<t, l>> \o params
  OBVIOUS
<1>8. <<t, l>> \in Seq(Octet) /\ Len(<<t, l>>) = 2
  BY <1>4, <1>5
<1>9. /\ info \in Seq(Octet) /\ Len(info) = Len(<<t, l>>) + Len(params)
      /\ \A i \in 1..Len(<<t, l>>) + Len(params) :
             info[i] = IF i <= Len(<<t, l>>) THEN <<t, l>>[i] ELSE params[i - Len(<<t, l>>)]
  BY <1>2, <1>7, <1>8, ConcatProperties
<1>10. Len(info) = 2 + n /\ info[1] = t /\ info[2] = l
  BY <1>3, <1>8, <1>9
<1>11. n = 8 => info[6] = params[4]
  BY <1>3, <1>8, <1>9
<1>12. f = PeerFrame(MSG_DLCI, cmdresp, UIH, <<>>, info)
  BY <1>1, <1>3, <1>4, <1>5, <1>7 DEF Message
<1>13. IsParts(MSG_DLCI, cmdresp, UIH, <<>>, info)
  <2>1. <<>> \in Seq(Octet) /\ Len(<<>>) = 0
    BY EmptySeq
  <2>2. 2 + n \in 0..127
    OBVIOUS
  <2>3. Len(info) \in 0..127
    BY <1>10, <2>2
  <2>4. cmdresp \in {0, 1} /\ UIH \in FrameTypes
    BY <1>1 DEF FrameTypes
  <2>. QED  BY <1>9, <2>1, <2>3, <2>4 DEF IsParts
<1>14. IsMade(f, MSG_DLCI, UIH, <<>>, info)
  BY <1>12, <1>13, PeerFrameMade
<1>15. f \in Frame /\ Type(f) = UIH /\ Dlci(f) = MSG_DLCI /\ f[2] = UIH
  BY <1>14 DEF IsMade
<1>16. Len(f) = 6 + n
  BY <1>3, <1>10, <1>14 DEF IsMade
<1>17. \A i \in 1..2 + n : f[3 + i] = info[i]
  BY <1>10, <1>14 DEF IsMade
<1>18. f[4] = t /\ f[5] = l /\ (n = 8 => f[9] = params[4])
  <2>1. 1 \in 1..2 + n /\ 2 \in 1..2 + n
    BY <1>3
  <2>2. f[3 + 1] = info[1] /\ f[3 + 2] = info[2]
    BY <1>17, <2>1, Zenon
  <2>3. ASSUME n = 8 PROVE f[9] = params[4]
    <3>1. 6 \in 1..2 + n
      BY <2>3
    <3>2. f[3 + 6] = info[6]
      BY <1>17, <3>1, Zenon
    <3>. QED  BY <1>11, <2>3, <3>2
  <2>4. f[4] = t /\ f[5] = l
    BY <1>10, <2>2
  <2>. QED  BY <2>3, <2>4
<1>19. MessageStart(f) /\ 6 + f[5] \div 2 = Len(f)
  BY <1>3, <1>6, <1>15, <1>16, <1>18 DEF MessageStart
<1>20. f[4] - (f[4] % 4) = type
  BY <1>1, <1>6, <1>18
<1>21. type = PN => PnGood(f)
  <2>1. SUFFICES ASSUME type = PN PROVE PnGood(f)
    OBVIOUS
  <2>2. n = 8 /\ (cmdresp = 1 => params[4] = 0)
    BY <1>3, <2>1 DEF IsContent
  <2>3. Len(f) = 14 /\ f[5] = 17 /\ f[9] = params[4]
    BY <1>5, <1>16, <1>18, <2>2
  <2>4. f[4] = PN + 3 => cmdresp = 1
    BY <1>1, <1>4, <1>18, <2>1 DEF PN
  <2>. QED  BY <2>2, <2>3, <2>4 DEF PnGood
<1>22. type = MSC => Len(f) \in {8, 9}
  <2>1. SUFFICES ASSUME type = MSC PROVE Len(f) \in {8, 9}
    OBVIOUS
  <2>2. n \in {2, 3}
    BY <1>3, <2>1 DEF IsContent
  <2>. QED  BY <1>16, <2>2
<1>23. Type(f) # UA
  BY <1>15 DEF UA, UIH
<1>. QED  BY <1>15, <1>19, <1>20, <1>21, <1>22, <1>23, Zenon DEF Incoming

-----------------------------------------------------------------------------
(* What the peer reads                                                       *)

\* The information of a frame on DLCI 0.
LEMMA InfoRead ==
    ASSUME NEW f \in Outgoing, ForMux(f)
    PROVE  /\ Info(f) \in Seq(Octet) /\ Len(Info(f)) = Len(f) - 4
           /\ Len(f) \in 6..131
           /\ \A i \in 1..Len(f) - 4 : Info(f)[i] = f[3 + i]
<1>1. f \in Frame /\ MessageStart(f)
  BY DEF Outgoing
<1>2. f \in Seq(Octet) /\ f[2] = UIH /\ Type(f) = UIH
  BY <1>1 DEF Frame, MessageStart, ForMux
<1>3. PICK n \in Nat : n = Len(f) /\ n >= 6
  <2>1. Len(f) \in Nat /\ Len(f) >= 6
    BY <1>1, <1>2, LenProperties DEF MessageStart
  <2>. QED  BY <2>1
<1>4. CreditOctets(f) = 0
  BY <1>2 DEF CreditOctets, UIH
<1>5. n <= 131
  <2>1. Len(f) = 4 + CreditOctets(f) + f[3] \div 2 /\ Len(f) >= 4
    BY <1>1 DEF Frame
  <2>2. f[3] \in 0..255
    BY <1>2, <1>3, <2>1, FrameOctets
  <2>3. PICK k \in 0..127 : k = f[3] \div 2
    BY <2>2
  <2>4. n = 4 + k
    BY <1>3, <1>4, <2>1, <2>3
  <2>. QED  BY <2>4
<1>6. PICK info : info = SubSeq(f, 4, n - 1)
  OBVIOUS
<1>7. /\ info \in Seq(Octet)
      /\ Len(info) = IF 4 <= n - 1 THEN (n - 1) - 4 + 1 ELSE 0
      /\ \A i \in 1..(n - 1) - 4 + 1 : info[i] = f[4 + i - 1]
  <2>1. \A i \in 1..n : f[i] \in Octet
    BY <1>2, <1>3, ElementOfSeq
  <2>2. 4 \in Int /\ n - 1 \in Int /\ \A i \in 4..(n - 1) : f[i] \in Octet
    BY <2>1
  <2>. QED  BY <1>6, <2>2, SubSeqProperties
<1>8. Info(f) = info
  BY <1>3, <1>4, <1>6 DEF Info
<1>9. Len(info) = n - 4
  BY <1>3, <1>7
<1>10. ASSUME NEW i \in 1..n - 4 PROVE info[i] = f[3 + i]
  <2>1. i \in 1..(n - 1) - 4 + 1 /\ 4 + i - 1 = 3 + i
    OBVIOUS
  <2>. QED  BY <1>7, <2>1
<1>11. n \in 6..131 /\ n = Len(f)
  <2>1. n >= 6 /\ n = Len(f)
    BY <1>3, Zenon
  <2>2. n >= 6
    BY <2>1, Zenon
  <2>3. n \in 6..131
    BY <1>5, <2>2
  <2>. QED  BY <2>1, <2>3
<1>12. info \in Seq(Octet) /\ info = Info(f)
  BY <1>7, <1>8
<1>. QED  BY <1>9, <1>10, <1>11, <1>12

\* The parameters of a message.
LEMMA ParamsRead ==
    ASSUME NEW f \in Outgoing, NEW type, NEW cmdresp, Holds(f, type, cmdresp)
    PROVE  /\ ForMux(f) /\ f[4] = type + 2 * cmdresp + 1
           /\ Params(f) \in Seq(Octet)
           /\ Len(Params(f)) = f[5] \div 2 /\ f[5] \div 2 \in 0..125
           /\ \A k \in 1..f[5] \div 2 : Params(f)[k] = f[5 + k]
<1>1. ForMux(f) /\ Info(f)[1] = type + 2 * cmdresp + 1
  BY DEF Holds, ForMux
<1>2. f \in Seq(Octet) /\ MessageStart(f) /\ 6 + f[5] \div 2 <= Len(f)
  BY <1>1, SMTT(30) DEF Outgoing, Frame
<1>3. PICK info \in Seq(Octet), n \in 6..131 :
           /\ info = Info(f) /\ n = Len(f) /\ Len(info) = n - 4
           /\ \A i \in 1..n - 4 : info[i] = f[3 + i]
  BY <1>1, InfoRead
<1>4. info[1] = f[4] /\ info[2] = f[5]
  <2>1. 1 \in 1..n - 4 /\ 2 \in 1..n - 4
    OBVIOUS
  <2>2. info[1] = f[3 + 1] /\ info[2] = f[3 + 2]
    BY <1>3, <2>1, Zenon
  <2>. QED  BY <2>2
<1>5. PICK k \in 0..125 : k = f[5] \div 2 /\ 6 + k <= n
  <2>1. Len(f) = n /\ Len(f) >= 4 /\ 5 \in 1..Len(f)
    BY <1>3
  <2>2. \A i \in 1..Len(f) : f[i] \in 0..255
    BY <1>2, <2>1, FrameOctets
  <2>3. f[5] \in 0..255
    BY <2>1, <2>2, Zenon
  <2>4. PICK o \in 0..255 : o = f[5]
    BY <2>3, Zenon
  <2>5. PICK j \in 0..127 : j = o \div 2
    OBVIOUS
  <2>6. 6 + j <= n
    BY <1>2, <2>1, <2>4, <2>5
  <2>7. j \in 0..125
    BY <2>6
  <2>. QED  BY <2>4, <2>5, <2>6, <2>7, Zenon
<1>6. PICK p : p = SubSeq(info, 3, 2 + k)
  OBVIOUS
<1>7. /\ p \in Seq(Octet)
      /\ Len(p) = IF 3 <= 2 + k THEN (2 + k) - 3 + 1 ELSE 0
      /\ \A i \in 1..(2 + k) - 3 + 1 : p[i] = info[3 + i - 1]
  <2>1. \A i \in 1..n - 4 : info[i] \in Octet
    BY <1>3, ElementOfSeq
  <2>2. 3 \in Int /\ 2 + k \in Int /\ \A i \in 3..(2 + k) : info[i] \in Octet
    BY <1>5, <2>1
  <2>. QED  BY <1>6, <2>2, SubSeqProperties
<1>8. Params(f) = p
  BY <1>3, <1>4, <1>5, <1>6 DEF Params
<1>9. Len(p) = k
  BY <1>7
<1>10. ASSUME NEW i \in 1..k PROVE p[i] = f[5 + i]
  <2>1. i \in 1..(2 + k) - 3 + 1 /\ 3 + i - 1 = 2 + i /\ 2 + i \in 1..n - 4 /\ 3 + (2 + i) = 5 + i
    BY <1>5
  <2>2. p[i] = info[2 + i]
    BY <1>7, <2>1
  <2>3. info[2 + i] = f[3 + (2 + i)]
    BY <1>3, <2>1, Zenon
  <2>. QED  BY <2>1, <2>2, <2>3
<1>11. f[4] = type + 2 * cmdresp + 1
  BY <1>1, <1>3, <1>4
<1>. QED  BY <1>1, <1>5, <1>7, <1>8, <1>9, <1>10, <1>11

-----------------------------------------------------------------------------
(* The channels of the frames of a queue                                     *)

Channels == {MSG_DLCI, DataDlci}

\* One frame more.
One(x, types, s) == IF Type(x) \in types THEN Append(s, Dlci(x)) ELSE s

IsUpto(f, q, types) ==
    f = [n \in 0..Len(q) |->
            IF n = 0 THEN <<>>
            ELSE IF Type(q[n]) \in types THEN Append(f[n - 1], Dlci(q[n]))
            ELSE f[n - 1]]

\* The channels of the first frames of q, up to number n.
Reads(f, q, types, n) ==
    /\ f[0] = <<>>
    /\ \A k \in 1..n : f[k] = One(q[k], types, f[k - 1])

Run(f, q, types, n) == f \in [0..n -> Seq(Channels)] /\ Reads(f, q, types, n)

LEMMA OneTyped ==
    ASSUME NEW x \in Frame, NEW types, NEW s \in Seq(Channels)
    PROVE  One(x, types, s) \in Seq(Channels)
<1>1. Dlci(x) \in Channels
  BY DEF Frame, Channels
<1>2. Append(s, Dlci(x)) \in Seq(Channels)
  BY <1>1, AppendProperties
<1>. QED  BY <1>2 DEF One

\* The definition of Dlcis has a value.
LEMMA RunExists ==
    ASSUME NEW q \in Seq(Frame), NEW types
    PROVE  \E f : Run(f, q, types, Len(q)) /\ IsUpto(f, q, types)
<1>. DEFINE V == Seq(Channels)
            next(k, s) == IF k \in 1..Len(q) THEN One(q[k], types, s) ELSE <<>>
            step == [k \in Nat |-> [s \in V |-> next(k, s)]]
<1>1. Len(q) \in Nat /\ \A k \in 1..Len(q) : q[k] \in Frame
  BY LenProperties, ElementOfSeq
<1>2. <<>> \in V
  BY EmptySeq
<1>3. ASSUME NEW k \in Nat, NEW s \in V
      PROVE  /\ next(k, s) \in V
             /\ k \in 1..Len(q) => next(k, s) = One(q[k], types, s)
  <2>1. CASE k \in 1..Len(q)
    BY <1>1, <2>1, OneTyped
  <2>2. CASE k \notin 1..Len(q)
    BY <1>2, <2>2
  <2>. QED  BY <2>1, <2>2
<1>. HIDE DEF next, V
<1>4. step \in [Nat -> [V -> V]]
  BY <1>3
<1>5. \A k \in Nat, s \in V : step[k][s] = next(k, s)
  OBVIOUS
<1>. HIDE DEF step
<1>6. PICK f : Computes(f, Len(q), V, <<>>, step)
  BY <1>1, <1>2, <1>4, RecursionExists
<1>7. /\ f \in [0..Len(q) -> V]
      /\ f[0] = <<>>
      /\ \A k \in 1..Len(q) : f[k] = step[k][f[k - 1]]
  BY <1>6 DEF Computes
<1>8. ASSUME NEW k \in 1..Len(q) PROVE f[k] = One(q[k], types, f[k - 1])
  <2>1. k \in Nat /\ f[k - 1] \in V
    BY <1>1, <1>7
  <2>2. step[k][f[k - 1]] = next(k, f[k - 1])
    BY <1>5, <2>1
  <2>. QED  BY <1>3, <1>7, <2>1, <2>2
<1>9. Run(f, q, types, Len(q))
  BY <1>7, <1>8, Zenon DEF Run, Reads, V
<1>10. IsUpto(f, q, types)
  <2>1. ASSUME NEW k \in 0..Len(q)
        PROVE  f[k] = IF k = 0 THEN <<>>
                      ELSE IF Type(q[k]) \in types THEN Append(f[k - 1], Dlci(q[k]))
                      ELSE f[k - 1]
    <3>1. k = 0 \/ k \in 1..Len(q)
      BY <1>1
    <3>2. CASE k = 0
      BY <1>7, <3>2
    <3>3. CASE k \in 1..Len(q)
      <4>1. k # 0
        BY <3>3
      <4>2. f[k] = One(q[k], types, f[k - 1])
        BY <1>8, <3>3
      <4>. QED  BY <4>1, <4>2, Zenon DEF One
    <3>. QED  BY <3>1, <3>2, <3>3
  <2>. QED  BY <1>7, <2>1, Zenon DEF IsUpto
<1>. QED  BY <1>9, <1>10

\* A run is determined by the frames it reads.
Alike(q, r, n) == \A k \in 1..n : q[k] = r[k]

LEMMA RunUnique ==
    ASSUME NEW n \in Nat, NEW q, NEW r, Alike(q, r, n), NEW types,
           NEW f, Reads(f, q, types, n), NEW g, Reads(g, r, types, n)
    PROVE  f[n] = g[n]
<1>. DEFINE S == {k \in Nat : k <= n => f[k] = g[k]}
<1>1. 0 \in S
  BY DEF Reads
<1>2. ASSUME NEW k \in Nat, k \in S PROVE k + 1 \in S
  <2>1. CASE k + 1 <= n
    <3>1. f[k] = g[k]
      BY <1>2, <2>1
    <3>2. PICK j \in 1..n : j = k + 1 /\ j - 1 = k
      BY <2>1
    <3>3. f[j] = One(q[j], types, f[j - 1]) /\ g[j] = One(r[j], types, g[j - 1]) /\ q[j] = r[j]
      BY Zenon DEF Reads, Alike
    <3>4. f[j] = g[j]
      BY <3>1, <3>2, <3>3, Zenon
    <3>. QED  BY <3>2, <3>4
  <2>2. CASE ~(k + 1 <= n)
    BY <2>2
  <2>. QED  BY <2>1, <2>2
<1>3. Nat \subseteq S
  <2>. HIDE DEF S
  <2>. QED  BY <1>1, <1>2, SetInduction
<1>. QED  BY <1>3

LEMMA UptoRuns ==
    ASSUME NEW q \in Seq(Frame), NEW types, NEW f, IsUpto(f, q, types)
    PROVE  Reads(f, q, types, Len(q))
<1>1. 0 \in 0..Len(q) /\ \A k \in 1..Len(q) : k \in 0..Len(q) /\ k # 0
  BY LenProperties
<1>. QED  BY <1>1 DEF IsUpto, One, Reads

\* It is the end of a run.
LEMMA DlcisRun ==
    ASSUME NEW q \in Seq(Frame), NEW types
    PROVE  \E f : Run(f, q, types, Len(q)) /\ Dlcis(q, types) = f[Len(q)]
<1>. DEFINE c == CHOOSE f : IsUpto(f, q, types)
<1>1. PICK f : Run(f, q, types, Len(q)) /\ IsUpto(f, q, types)
  BY RunExists
<1>2. IsUpto(c, q, types)
  BY <1>1, Zenon
<1>3. Dlcis(q, types) = c[Len(q)]
  BY Zenon DEF Dlcis, IsUpto
<1>. HIDE DEF c
<1>4. Reads(f, q, types, Len(q)) /\ Reads(c, q, types, Len(q))
  BY <1>1, <1>2, UptoRuns
<1>5. f[Len(q)] = c[Len(q)]
  <2>1. Len(q) \in Nat
    BY LenProperties
  <2>2. Alike(q, q, Len(q))
    BY DEF Alike
  <2>. QED  BY <1>4, <2>1, <2>2, RunUnique
<1>. QED  BY <1>1, <1>3, <1>5

LEMMA DlcisTyped ==
    ASSUME NEW q \in Seq(Frame), NEW types
    PROVE  Dlcis(q, types) \in Seq(Channels)
<1>1. Len(q) \in Nat /\ Len(q) \in 0..Len(q)
  BY LenProperties
<1>. QED  BY <1>1, DlcisRun DEF Run

\* Frames of other types count for nothing.
LEMMA DlcisNone ==
    ASSUME NEW q \in Seq(Frame), NEW types, \A k \in 1..Len(q) : Type(q[k]) \notin types
    PROVE  Dlcis(q, types) = <<>>
<1>1. PICK n \in Nat : n = Len(q)
  BY LenProperties
<1>2. PICK f : Reads(f, q, types, n) /\ Dlcis(q, types) = f[n]
  BY <1>1, DlcisRun DEF Run
<1>3. Reads([k \in 0..n |-> <<>>], q, types, n)
  <2>1. \A k \in 1..n : One(q[k], types, <<>>) = <<>>
    BY <1>1 DEF One
  <2>2. \A k \in 1..n : k \in 0..n /\ k - 1 \in 0..n
    OBVIOUS
  <2>. QED  BY <2>1, <2>2 DEF Reads
<1>4. f[n] = [k \in 0..n |-> <<>>][n]
  <2>1. Alike(q, q, n)
    BY DEF Alike
  <2>. QED  BY <1>2, <1>3, <2>1, RunUnique
<1>. QED  BY <1>2, <1>4

LEMMA OneAfter ==
    ASSUME NEW x \in Frame, NEW types, NEW s \in Seq(Channels), NEW t \in Seq(Channels)
    PROVE  One(x, types, s \o t) = s \o One(x, types, t)
<1>1. PICK d \in Channels : d = Dlci(x)
  BY DEF Frame, Channels
<1>2. Append(s \o t, d) = s \o Append(t, d)
  <2>1. s \o t \in Seq(Channels) /\ <<d>> \in Seq(Channels)
    BY ConcatProperties
  <2>2. Append(s \o t, d) = (s \o t) \o <<d>> /\ Append(t, d) = t \o <<d>>
    BY <2>1, AppendIsConcat
  <2>3. (s \o t) \o <<d>> = s \o (t \o <<d>>)
    BY <2>1, ConcatAssociative
  <2>. QED  BY <2>2, <2>3
<1>. QED  BY <1>1, <1>2 DEF One

\* The channels of two queues in a row.
LEMMA DlcisConcat ==
    ASSUME NEW q \in Seq(Frame), NEW r \in Seq(Frame), NEW types
    PROVE  Dlcis(q \o r, types) = Dlcis(q, types) \o Dlcis(r, types)
<1>1. PICK n \in Nat, m \in Nat : n = Len(q) /\ m = Len(r)
  BY LenProperties
<1>2. PICK z : z = q \o r
  OBVIOUS
<1>3. /\ z \in Seq(Frame) /\ Len(z) = n + m
      /\ \A k \in 1..n + m : z[k] = IF k <= n THEN q[k] ELSE r[k - n]
  BY <1>1, <1>2, ConcatProperties
<1>4. PICK f : Run(f, q, types, n) /\ Dlcis(q, types) = f[n]
  BY <1>1, DlcisRun
<1>5. PICK g : Run(g, r, types, m) /\ Dlcis(r, types) = g[m]
  BY <1>1, DlcisRun
<1>6. PICK h : Run(h, z, types, n + m) /\ Dlcis(z, types) = h[n + m]
  BY <1>3, DlcisRun
<1>7. h[n] = f[n] /\ f[n] \in Seq(Channels)
  <2>1. Alike(z, q, n)
    BY <1>3 DEF Alike
  <2>2. Reads(h, z, types, n)
    <3>1. \A k \in 1..n : k \in 1..n + m
      OBVIOUS
    <3>. QED  BY <1>6, <3>1, Zenon DEF Run, Reads
  <2>3. Reads(f, q, types, n)
    BY <1>4 DEF Run
  <2>4. h[n] = f[n]
    BY <2>1, <2>2, <2>3, RunUnique
  <2>5. n \in 0..n
    OBVIOUS
  <2>. QED  BY <1>4, <2>4, <2>5 DEF Run
<1>. DEFINE Good(k) == h[n + k] = f[n] \o g[k]
            S == {k \in Nat : k <= m => Good(k)}
<1>8. Good(0)
  <2>1. g[0] = <<>> /\ n + 0 = n
    BY <1>5 DEF Run, Reads
  <2>2. f[n] \o <<>> = f[n]
    BY <1>7, ConcatEmptySeq
  <2>. QED  BY <1>7, <2>1, <2>2, Zenon
<1>9. ASSUME NEW k \in Nat, k + 1 <= m, Good(k) PROVE Good(k + 1)
  <2>1. h[n + k] = f[n] \o g[k] /\ k \in 0..m
    <3>1. k \in 0..m
      BY <1>9
    <3>. QED  BY <1>9, <3>1, Zenon
  <2>2. PICK j \in 1..m : j = k + 1 /\ j - 1 = k
    BY <1>9
  <2>3. PICK i \in 1..n + m : i = n + (k + 1) /\ i - 1 = n + k /\ i - n = j /\ ~(i <= n)
    BY <1>9, <2>2
  <2>4. g[j] = One(r[j], types, g[j - 1])
    BY <1>5, Zenon DEF Run, Reads
  <2>5. h[i] = One(z[i], types, h[i - 1])
    BY <1>6, Zenon DEF Run, Reads
  <2>6. z[i] = r[j]
    BY <1>3, <2>3
  <2>7. g[k] \in Seq(Channels) /\ r[j] \in Frame
    BY <1>1, <1>5, <2>1, ElementOfSeq DEF Run
  <2>8. One(r[j], types, f[n] \o g[k]) = f[n] \o One(r[j], types, g[k])
    BY <1>7, <2>7, OneAfter
  <2>9. h[i] = f[n] \o g[j]
    BY <2>1, <2>2, <2>3, <2>4, <2>5, <2>6, <2>8, Zenon
  <2>. QED  BY <2>2, <2>3, <2>9, Zenon
<1>10. Good(m)
  <2>. HIDE DEF Good
  <2>1. 0 \in S
    BY <1>8
  <2>2. ASSUME NEW k \in Nat, k \in S PROVE k + 1 \in S
    BY <1>9, <2>2
  <2>3. Nat \subseteq S
    <3>. HIDE DEF S
    <3>. QED  BY <2>1, <2>2, SetInduction
  <2>. QED  BY <2>3
<1>. QED  BY <1>2, <1>4, <1>5, <1>6, <1>10, Zenon

\* The channel of one frame.
LEMMA DlcisSingle ==
    ASSUME NEW x \in Frame, NEW types
    PROVE  Dlcis(<<x>>, types) = IF Type(x) \in types THEN <<Dlci(x)>> ELSE <<>>
<1>1. PICK q : q = <<x>>
  OBVIOUS
<1>2. q \in Seq(Frame) /\ Len(q) = 1 /\ q[1] = x
  BY <1>1
<1>3. PICK f : Reads(f, q, types, 1) /\ Dlcis(q, types) = f[1]
  BY <1>2, DlcisRun DEF Run
<1>4. f[1] = One(x, types, <<>>)
  <2>1. 1 \in 1..1 /\ 1 - 1 = 0
    OBVIOUS
  <2>2. f[0] = <<>> /\ f[1] = One(q[1], types, f[1 - 1])
    BY <1>3, <2>1, Zenon DEF Reads
  <2>. QED  BY <1>2, <2>1, <2>2
<1>5. Append(<<>>, Dlci(x)) = <<Dlci(x)>>
  <2>1. PICK d : d = Dlci(x)
    OBVIOUS
  <2>2. Append(<<>>, d) = <<d>>
    OBVIOUS
  <2>. QED  BY <2>1, <2>2
<1>. QED  BY <1>1, <1>3, <1>4, <1>5 DEF One

\* The head of a queue comes first.
LEMMA DlcisHead ==
    ASSUME NEW q \in Seq(Frame), q # <<>>, NEW types
    PROVE  /\ Dlcis(q, types) = Dlcis(<<Head(q)>>, types) \o Dlcis(Tail(q), types)
           /\ Head(q) \in Frame /\ Tail(q) \in Seq(Frame) /\ <<Head(q)>> \in Seq(Frame)
<1>1. Head(q) \in Frame /\ Tail(q) \in Seq(Frame)
  BY HeadTailProperties
<1>2. <<Head(q)>> \in Seq(Frame)
  BY <1>1
<1>3. q = <<Head(q)>> \o Tail(q)
  <2>1. /\ Len(Tail(q)) = Len(q) - 1 /\ \A i \in 1..Len(Tail(q)) : Tail(q)[i] = q[i + 1]
        /\ Len(q) \in Nat /\ Len(q) >= 1
    BY HeadTailProperties, EmptySeq, LenProperties
  <2>2. Head(q) = q[1]
    OBVIOUS
  <2>3. PICK z : z = <<Head(q)>> \o Tail(q)
    OBVIOUS
  <2>4. /\ z \in Seq(Frame) /\ Len(z) = Len(<<Head(q)>>) + Len(Tail(q))
        /\ \A i \in 1..Len(<<Head(q)>>) + Len(Tail(q)) :
              z[i] = IF i <= Len(<<Head(q)>>) THEN <<Head(q)>>[i] ELSE Tail(q)[i - Len(<<Head(q)>>)]
    BY <1>1, <1>2, <2>3, ConcatProperties
  <2>5. Len(<<Head(q)>>) = 1 /\ <<Head(q)>>[1] = q[1]
    BY <2>2
  <2>6. Len(z) = Len(q)
    BY <2>1, <2>4, <2>5
  <2>7. ASSUME NEW i \in 1..Len(q) PROVE q[i] = z[i]
    BY <2>1, <2>4, <2>5, <2>7
  <2>. QED  BY <2>3, <2>4, <2>6, <2>7, SeqEqual
<1>4. Dlcis(<<Head(q)>> \o Tail(q), types) = Dlcis(<<Head(q)>>, types) \o Dlcis(Tail(q), types)
  BY <1>1, <1>2, DlcisConcat
<1>. QED  BY <1>1, <1>2, <1>3, <1>4, Zenon

\* What a queue counts is counted whatever order its parts are taken in.
LEMMA DlcisMove ==
    ASSUME NEW p \in Seq(Frame), NEW fs \in Seq(Frame), NEW q \in Seq(Frame), q # <<>>,
           NEW types, NEW kinds, Dlcis(fs, types) = Dlcis(<<Head(q)>>, kinds)
    PROVE  Dlcis(p, types) \o Dlcis(q, kinds)
             = Dlcis(p \o fs, types) \o Dlcis(Tail(q), kinds)
<1>1. /\ Dlcis(q, kinds) = Dlcis(<<Head(q)>>, kinds) \o Dlcis(Tail(q), kinds)
      /\ Tail(q) \in Seq(Frame)
  BY DlcisHead
<1>2. Dlcis(p \o fs, types) = Dlcis(p, types) \o Dlcis(fs, types)
  BY DlcisConcat
<1>3. /\ Dlcis(p, types) \in Seq(Channels) /\ Dlcis(fs, types) \in Seq(Channels)
      /\ Dlcis(Tail(q), kinds) \in Seq(Channels)
  BY <1>1, DlcisTyped
<1>4. Dlcis(p, types) \o (Dlcis(fs, types) \o Dlcis(Tail(q), kinds))
      = (Dlcis(p, types) \o Dlcis(fs, types)) \o Dlcis(Tail(q), kinds)
  BY <1>3, ConcatAssociative, SMTT(30)
<1>. QED  BY <1>1, <1>2, <1>4, Zenon

LEMMA TailOfOne ==
    ASSUME NEW d \in Channels, NEW s \in Seq(Channels)
    PROVE  Tail(<<d>> \o s) = s
<1>1. PICK z : z = <<d>> \o s
  OBVIOUS
<1>2. <<d>> \in Seq(Channels) /\ Len(<<d>>) = 1
  OBVIOUS
<1>3. PICK n \in Nat : n = Len(s)
  BY LenProperties
<1>4. /\ z \in Seq(Channels) /\ Len(z) = Len(<<d>>) + Len(s)
      /\ \A i \in 1..Len(<<d>>) + Len(s) :
            z[i] = IF i <= Len(<<d>>) THEN <<d>>[i] ELSE s[i - Len(<<d>>)]
  BY <1>1, <1>2, ConcatProperties
<1>5. Len(z) = n + 1 /\ \A i \in 2..n + 1 : z[i] = s[i - 1]
  BY <1>2, <1>3, <1>4
<1>6. z # <<>>
  BY <1>3, <1>5, EmptySeq
<1>7. /\ Tail(z) \in Seq(Channels) /\ Len(Tail(z)) = Len(z) - 1
      /\ \A i \in 1..Len(Tail(z)) : Tail(z)[i] = z[i + 1]
  BY <1>4, <1>6, HeadTailProperties
<1>8. Len(Tail(z)) = n
  BY <1>5, <1>7
<1>9. ASSUME NEW i \in 1..n PROVE Tail(z)[i] = s[i]
  <2>1. i + 1 \in 2..n + 1 /\ (i + 1) - 1 = i
    OBVIOUS
  <2>. QED  BY <1>5, <1>7, <1>8, <2>1
<1>. QED  BY <1>1, <1>3, <1>7, <1>8, <1>9, SeqEqual

-----------------------------------------------------------------------------
(* The invariant, part by part                                               *)

DeviceOK ==
    /\ pn_config \in [0..7 -> Octet]
    /\ rfcomm_state \in {"RFCOMM_NONE", "RFCOMM_CONNECT", "RFCOMM_PN_REQUEST",
                         "RFCOMM_PN_CONFIRM", "RFCOMM_RPN_REQUEST"}
    /\ rfcomm_state_transition \in {"RFCOMM_ACTIVE", "RFCOMM_IDLE"}
    /\ credit_cnt \in 1..MAX_CREDIT_CNT

PeerStates ==
    [mux : {"closed", "asked", "open", "leaving"},
     dlc : {"closed", "asked", "open", "leaving"},
     pn : {"none", "asked", "confirmed"},
     ours : {"none", "accepted", "refused"},
     rpn : BOOLEAN]

OthersOK ==
    /\ connect_initiate \in {"LOCAL", "REMOTE"}
    /\ peer \in PeerStates
    /\ awaiting \in Seq({MSG_DLCI, DataDlci})

\* A frame is of one of the five types.
LEMMA FrameType ==
    ASSUME NEW g \in Frame
    PROVE  Type(g) \in FrameTypes
<1>1. g[2] \in FrameTypes \cup {t + 16 : t \in FrameTypes}
  BY DEF Frame
<1>2. CASE g[2] \in FrameTypes
  BY <1>2 DEF Type
<1>3. CASE \E t \in FrameTypes : g[2] = t + 16
  <2>1. PICK t \in FrameTypes : g[2] = t + 16
    BY <1>3
  <2>2. g[2] = t + 16 * 1
    BY <2>1
  <2>. QED  BY <2>2, TypeWithBit
<1>. QED  BY <1>1, <1>2, <1>3

LEMMA QueuesTyped ==
    ASSUME NEW q \in Seq(Incoming), NEW r \in Seq(Outgoing)
    PROVE  /\ q \in Seq(Seq(Octet)) /\ r \in Seq(Seq(Octet))
           /\ \A n \in DOMAIN q : Type(q[n]) \in FrameTypes
<1>1. Incoming \subseteq Seq(Octet) /\ Outgoing \subseteq Seq(Octet)
  BY DEF Incoming, Outgoing, Frame
<1>2. q \in Seq(Seq(Octet)) /\ r \in Seq(Seq(Octet))
  BY <1>1, SeqMonotonic
<1>3. ASSUME NEW n \in DOMAIN q PROVE Type(q[n]) \in FrameTypes
  <2>1. q[n] \in Incoming
    BY ElementOfSeq, LenProperties
  <2>. QED  BY <2>1, FrameType DEF Incoming
<1>. QED  BY <1>2, <1>3

LEMMA QueuesOfFrames ==
    ASSUME NEW q \in Seq(Incoming), NEW r \in Seq(Outgoing)
    PROVE  q \in Seq(Frame) /\ r \in Seq(Frame)
<1>1. Incoming \subseteq Frame /\ Outgoing \subseteq Frame
  BY DEF Incoming, Outgoing
<1>. QED  BY <1>1, SeqMonotonic

\* The parts follow from the invariant, before and after a step, and give it.
LEMMA InvariantParts ==
    IInv => OthersOK /\ DeviceOK /\ buf \in Buffer /\ BufferQuiet
            /\ toDev \in Seq(Incoming) /\ toPeer \in Seq(Outgoing) /\ UaInOrder
BY DEF IInv, TypeOK, OthersOK, DeviceOK, FramesGood, PeerStates

LEMMA InvariantNow ==
    ASSUME OthersOK, DeviceOK, buf \in Buffer, BufferQuiet,
           toDev \in Seq(Incoming), toPeer \in Seq(Outgoing), UaInOrder
    PROVE  IInv
<1>1. /\ toDev \in Seq(Seq(Octet)) /\ toPeer \in Seq(Seq(Octet))
      /\ \A n \in DOMAIN toDev : Type(toDev[n]) \in FrameTypes
  BY QueuesTyped
<1>. QED  BY <1>1, Zenon DEF IInv, TypeOK, OthersOK, DeviceOK, FramesGood, PeerStates

LEMMA InvariantNext ==
    ASSUME OthersOK', DeviceOK', buf' \in Buffer, BufferQuiet',
           toDev' \in Seq(Incoming), toPeer' \in Seq(Outgoing), UaInOrder'
    PROVE  IInv'
<1>1. /\ toDev' \in Seq(Seq(Octet)) /\ toPeer' \in Seq(Seq(Octet))
      /\ \A n \in DOMAIN toDev' : Type(toDev'[n]) \in FrameTypes
  BY QueuesTyped
<1>. QED  BY <1>1, Zenon DEF IInv, TypeOK, OthersOK, DeviceOK, FramesGood, PeerStates

\* Init starts it.
LEMMA InvariantStarts == Init => IInv
<1>. SUFFICES ASSUME Init PROVE IInv
  OBVIOUS
<1>1. OthersOK
  BY EmptySeq DEF Init, OthersOK, PeerStates
<1>2. DeviceOK
  <2>1. initial_pn_config \in [0..7 -> 0..255]
    BY DEF initial_pn_config, PN_CREDIT_SUPPORT_REQ
  <2>. QED  BY <2>1, SessionAssumption DEF Init, DeviceOK, Octet
<1>3. buf \in Buffer /\ BufferQuiet
  BY BufferType DEF Init, Index, BufSize, BufferQuiet
<1>4. toDev \in Seq(Incoming) /\ toPeer \in Seq(Outgoing)
  BY EmptySeq DEF Init
<1>5. UaInOrder
  <2>1. /\ <<>> \in Seq(Frame) /\ <<>> \in Seq(Channels) /\ Len(<<>>) = 0
    BY EmptySeq
  <2>2. Dlcis(<<>>, {UA}) = <<>> /\ Dlcis(<<>>, {SABM, DISC}) = <<>>
    <3>1. PICK q \in Seq(Frame) : q = <<>> /\ \A k \in 1..Len(q) : FALSE
      <4>1. \A k \in 1..Len(<<>>) : FALSE
        BY <2>1
      <4>. QED  BY <2>1, <4>1, Zenon
    <3>2. Dlcis(q, {UA}) = <<>> /\ Dlcis(q, {SABM, DISC}) = <<>>
      BY <3>1, DlcisNone
    <3>. QED  BY <3>1, <3>2, Zenon
  <2>3. <<>> \o <<>> = <<>>
    BY <2>1, ConcatEmptySeq
  <2>. QED  BY <2>2, <2>3 DEF Init, UaInOrder
<1>. QED  BY <1>1, <1>2, <1>3, <1>4, <1>5, InvariantNow

-----------------------------------------------------------------------------
(* The handlers                                                              *)

LEMMA Cleared ==
    ASSUME NEW b, buf' = processed(b)
    PROVE  buf' \in Buffer /\ BufferQuiet'
<1>1. buf' = [i \in 0..13 |-> 0]
  BY DEF processed, Index, BufSize
<1>. QED  BY <1>1, BufferType DEF BufferQuiet

\* The frames a handler sends, one or two.
LEMMA AnswerOne ==
    ASSUME NEW x, Answer(<<x>>)
    PROVE  /\ toDev' = Tail(toDev)
           /\ toPeer' = toPeer \o <<create_l2cap_bframe_rfcomm_pkt(x)>>
           /\ buf' \in Buffer /\ BufferQuiet'
<1>1. [i \in DOMAIN <<x>> |-> create_l2cap_bframe_rfcomm_pkt(<<x>>[i])]
      = <<create_l2cap_bframe_rfcomm_pkt(x)>>
  OBVIOUS
<1>2. buf' = processed(Last(<<x>>))
  BY DEF Answer
<1>. QED  BY <1>1, <1>2, Cleared DEF Answer

LEMMA AnswerTwo ==
    ASSUME NEW x, NEW y, Answer(<<x, y>>)
    PROVE  /\ toDev' = Tail(toDev)
           /\ toPeer' = toPeer \o <<create_l2cap_bframe_rfcomm_pkt(x),
                                    create_l2cap_bframe_rfcomm_pkt(y)>>
           /\ buf' \in Buffer /\ BufferQuiet'
<1>1. [i \in DOMAIN <<x, y>> |-> create_l2cap_bframe_rfcomm_pkt(<<x, y>>[i])]
      = <<create_l2cap_bframe_rfcomm_pkt(x), create_l2cap_bframe_rfcomm_pkt(y)>>
  OBVIOUS
<1>2. buf' = processed(Last(<<x, y>>))
  BY DEF Answer
<1>. QED  BY <1>1, <1>2, Cleared DEF Answer

\* The frames fs answer the frame g: SABM and DISC are acknowledged, and nothing
\* else is.
Answers(fs, g) ==
    IF Type(g) \in {SABM, DISC}
      THEN \E f \in Outgoing : fs = <<f>> /\ Type(f) = UA /\ Dlci(f) = Dlci(g)
      ELSE \A i \in 1..Len(fs) : Type(fs[i]) # UA

Handled(g) ==
    /\ OthersOK' /\ DeviceOK' /\ buf' \in Buffer /\ BufferQuiet'
    /\ awaiting' = awaiting /\ toDev' = Tail(toDev)
    /\ \E fs \in Seq(Outgoing) : toPeer' = toPeer \o fs /\ Answers(fs, g)

\* What a handler starts from.
Received(b, g) ==
    /\ OthersOK /\ DeviceOK /\ toPeer \in Seq(Outgoing) /\ g \in Incoming
    /\ \E ch \in 0..31 : Loaded(b, g, ch)
    /\ get_rfcomm_control_field(b) = Type(g)

\* A handler starts with the oldest frame in the cleared buffer.
LEMMA HandlerStarts ==
    ASSUME IInv, toDev # <<>>, NEW b, b = Load(buf, Head(toDev))
    PROVE  Received(b, Head(toDev))
<1>1. /\ OthersOK /\ DeviceOK /\ buf \in Buffer /\ BufferQuiet
      /\ toDev \in Seq(Incoming) /\ toPeer \in Seq(Outgoing)
  BY InvariantParts
<1>2. PICK g : g = Head(toDev)
  OBVIOUS
<1>3. g \in Incoming
  BY <1>1, <1>2, HeadTailProperties
<1>4. g \in Frame
  BY <1>3 DEF Incoming
<1>5. \A i \in 4..13 : buf[i] = 0
  BY <1>1 DEF BufferQuiet
<1>6. PICK ch \in 0..31 : Loaded(b, g, ch)
  BY <1>1, <1>2, <1>4, <1>5, FrameLoaded
<1>7. get_rfcomm_control_field(b) = Type(g)
  BY <1>4, <1>6, FrameRead
<1>. QED  BY <1>1, <1>2, <1>3, <1>6, <1>7 DEF Received

\* A handler sends nothing, one UIH frame, or a UA.
LEMMA NoAnswer ==
    ASSUME NEW g, Type(g) \notin {SABM, DISC}, toPeer \in Seq(Outgoing),
           NEW b, Ignore(b)
    PROVE  /\ toDev' = Tail(toDev) /\ buf' \in Buffer /\ BufferQuiet'
           /\ \E fs \in Seq(Outgoing) : toPeer' = toPeer \o fs /\ Answers(fs, g)
<1>1. /\ <<>> \in Seq(Outgoing) /\ Len(<<>>) = 0 /\ toPeer' = toPeer \o <<>>
  BY EmptySeq, ConcatEmptySeq DEF Ignore
<1>2. Answers(<<>>, g)
  BY <1>1 DEF Answers
<1>3. toDev' = Tail(toDev) /\ buf' = processed(b)
  BY DEF Ignore
<1>. QED  BY <1>1, <1>2, <1>3, Cleared

LEMMA UihAnswer ==
    ASSUME NEW g, Type(g) \notin {SABM, DISC}, NEW x, Answer(<<x>>),
           create_l2cap_bframe_rfcomm_pkt(x) \in Outgoing,
           Type(create_l2cap_bframe_rfcomm_pkt(x)) = UIH
    PROVE  /\ toDev' = Tail(toDev) /\ buf' \in Buffer /\ BufferQuiet'
           /\ \E fs \in Seq(Outgoing) : toPeer' = toPeer \o fs /\ Answers(fs, g)
<1>1. PICK f \in Outgoing : f = create_l2cap_bframe_rfcomm_pkt(x) /\ Type(f) = UIH
  OBVIOUS
<1>2. /\ toDev' = Tail(toDev) /\ toPeer' = toPeer \o <<f>>
      /\ buf' \in Buffer /\ BufferQuiet'
  BY <1>1, AnswerOne
<1>3. <<f>> \in Seq(Outgoing)
  OBVIOUS
<1>4. Answers(<<f>>, g)
  <2>1. \A i \in 1..Len(<<f>>) : <<f>>[i] = f
    OBVIOUS
  <2>. QED  BY <1>1, <2>1 DEF Answers, UA, UIH
<1>. QED  BY <1>2, <1>3, <1>4

LEMMA UaAnswer ==
    ASSUME NEW g, NEW b, Received(b, g), Type(g) \in {SABM, DISC}, Answer(<<ua(b)>>)
    PROVE  /\ toDev' = Tail(toDev) /\ buf' \in Buffer /\ BufferQuiet'
           /\ \E fs \in Seq(Outgoing) : toPeer' = toPeer \o fs /\ Answers(fs, g)
<1>1. PICK f : f = create_l2cap_bframe_rfcomm_pkt(ua(b))
  OBVIOUS
<1>2. f \in Outgoing /\ Type(f) = UA /\ Dlci(f) = Dlci(g)
  <2>1. g \in Frame
    BY DEF Received, Incoming
  <2>2. PICK ch \in 0..31 : Loaded(b, g, ch)
    BY DEF Received
  <2>. QED  BY <1>1, <2>1, <2>2, UaSent
<1>3. /\ toDev' = Tail(toDev) /\ toPeer' = toPeer \o <<f>>
      /\ buf' \in Buffer /\ BufferQuiet'
  BY <1>1, AnswerOne
<1>4. <<f>> \in Seq(Outgoing)
  BY <1>2
<1>5. Answers(<<f>>, g)
  BY <1>2 DEF Answers
<1>. QED  BY <1>3, <1>4, <1>5

\* None of the types is another.
LEMMA TypesDiffer ==
    /\ UA \notin {SABM, DISC} /\ DM \notin {SABM, DISC} /\ UIH \notin {SABM, DISC}
    /\ UA # UIH /\ UA # DM
BY DEF SABM, UA, DM, DISC, UIH

\* One lemma per handler.
LEMMA SabmHandled ==
    ASSUME NEW g, NEW b, Received(b, g), ReceiveSabm(b)
    PROVE  Handled(g)
<1>1. Type(g) \in {SABM, DISC} /\ Answer(<<ua(b)>>)
  BY DEF Received, ReceiveSabm, IsFrame
<1>2. OthersOK' /\ DeviceOK' /\ awaiting' = awaiting
  BY DEF Received, ReceiveSabm, SetState, others, OthersOK, DeviceOK
<1>. QED  BY <1>1, <1>2, UaAnswer DEF Handled

LEMMA DiscHandled ==
    ASSUME NEW g, NEW b, Received(b, g), ReceiveDisc(b)
    PROVE  Handled(g)
<1>1. Type(g) \in {SABM, DISC} /\ Answer(<<ua(b)>>)
  BY DEF Received, ReceiveDisc, IsFrame
<1>2. OthersOK' /\ DeviceOK' /\ awaiting' = awaiting
  BY DEF Received, ReceiveDisc, NewState, others, OthersOK, DeviceOK
<1>. QED  BY <1>1, <1>2, UaAnswer DEF Handled

LEMMA UaHandled ==
    ASSUME NEW g, NEW b, Received(b, g), ReceiveUa(b)
    PROVE  Handled(g)
<1>1. Type(g) \notin {SABM, DISC} /\ IsFrame(b, UA)
  BY TypesDiffer DEF Received, ReceiveUa, IsFrame
<1>2. OthersOK' /\ DeviceOK' /\ awaiting' = awaiting
  BY DEF Received, ReceiveUa, SetState, others, OthersOK, DeviceOK
<1>3. CASE connect_initiate = "LOCAL"
  <2>1. Answer(<<our_pn(b)>>)
    BY <1>3 DEF ReceiveUa
  <2>2. PICK f : f = create_l2cap_bframe_rfcomm_pkt(our_pn(b))
    OBVIOUS
  <2>3. f \in Outgoing /\ Type(f) = UIH
    <3>1. PICK ch \in 0..31 : Loaded(b, g, ch)
      BY DEF Received
    <3>2. g \in Incoming /\ pn_config \in [0..7 -> Octet]
      BY DEF Received, DeviceOK
    <3>. QED  BY <1>1, <2>2, <3>1, <3>2, OurPnSent
  <2>. QED  BY <1>1, <1>2, <2>1, <2>2, <2>3, UihAnswer DEF Handled
<1>4. CASE connect_initiate # "LOCAL"
  <2>1. Ignore(b) /\ toPeer \in Seq(Outgoing)
    BY <1>4 DEF ReceiveUa, Received
  <2>. QED  BY <1>1, <1>2, <2>1, NoAnswer DEF Handled
<1>. QED  BY <1>3, <1>4

LEMMA DmHandled ==
    ASSUME NEW g, NEW b, Received(b, g), ReceiveDm(b)
    PROVE  Handled(g)
<1>1. /\ Type(g) \notin {SABM, DISC} /\ Ignore(b) /\ toPeer \in Seq(Outgoing)
  BY TypesDiffer DEF Received, ReceiveDm, IsFrame
<1>2. OthersOK' /\ DeviceOK' /\ awaiting' = awaiting
  BY DEF Received, ReceiveDm, NewState, others, OthersOK, DeviceOK
<1>. QED  BY <1>1, <1>2, NoAnswer DEF Handled

LEMMA CreditsHandled ==
    ASSUME NEW g, NEW b, Received(b, g), ReceiveCredits(b)
    PROVE  Handled(g)
<1>1. /\ Type(g) \notin {SABM, DISC} /\ Ignore(b) /\ toPeer \in Seq(Outgoing)
  BY TypesDiffer DEF Received, ReceiveCredits, IsData, IsFrame
<1>2. OthersOK' /\ DeviceOK' /\ awaiting' = awaiting
  BY DEF Received, ReceiveCredits, NewState, others, OthersOK, DeviceOK
<1>. QED  BY <1>1, <1>2, NoAnswer DEF Handled

LEMMA DataHandled ==
    ASSUME NEW g, NEW b, Received(b, g), ReceiveData(b)
    PROVE  Handled(g)
<1>1. Type(g) \notin {SABM, DISC} /\ IsFrame(b, UIH) /\ toPeer \in Seq(Outgoing)
  BY TypesDiffer DEF Received, ReceiveData, IsData, IsFrame
<1>2. OthersOK' /\ awaiting' = awaiting
  BY DEF Received, ReceiveData, others, OthersOK
<1>3. /\ pn_config' = pn_config /\ rfcomm_state' = rfcomm_state
      /\ rfcomm_state_transition' = rfcomm_state_transition
      /\ DeviceOK
  BY DEF ReceiveData, NewState, Received
<1>4. CASE credit_cnt = MAX_CREDIT_CNT
  <2>1. PICK x : x = create_credit_pkt(b, get_rfcomm_server_ch_addr(b), 0, MSG_CMD, MAX_CREDIT_CNT)
    OBVIOUS
  <2>2. Answer(<<x>>) /\ credit_cnt' = 1
    BY <1>4, <2>1 DEF ReceiveData
  <2>3. PICK f : f = create_l2cap_bframe_rfcomm_pkt(x)
    OBVIOUS
  <2>4. f \in Outgoing /\ Type(f) = UIH
    <3>1. PICK ch \in 0..31 : Loaded(b, g, ch)
      BY DEF Received
    <3>2. g \in Frame
      BY DEF Received, Incoming
    <3>3. get_rfcomm_server_ch_addr(b) = ch
      BY <3>1, <3>2, FrameRead
    <3>4. ch # 0
      BY <3>3 DEF ReceiveData, IsData, MSG_DLCI
    <3>. QED  BY <2>1, <2>3, <3>1, <3>2, <3>3, <3>4, CreditSent
  <2>5. DeviceOK'
    <3>1. credit_cnt' \in 1..MAX_CREDIT_CNT
      BY <2>2, SessionAssumption
    <3>. QED  BY <1>3, <3>1 DEF DeviceOK
  <2>. QED  BY <1>1, <1>2, <2>2, <2>3, <2>4, <2>5, UihAnswer DEF Handled
<1>5. CASE credit_cnt # MAX_CREDIT_CNT
  <2>1. Ignore(b) /\ credit_cnt' = credit_cnt + 1
    BY <1>5 DEF ReceiveData
  <2>2. DeviceOK'
    <3>1. credit_cnt' \in 1..MAX_CREDIT_CNT
      BY <1>3, <1>5, <2>1, SessionAssumption DEF DeviceOK
    <3>. QED  BY <1>3, <3>1 DEF DeviceOK
  <2>. QED  BY <1>1, <1>2, <2>1, <2>2, NoAnswer DEF Handled
<1>. QED  BY <1>4, <1>5

LEMMA PnLocalHandled ==
    ASSUME NEW g, NEW b, Received(b, g), ReceivePnLocal(b)
    PROVE  Handled(g)
<1>1. Type(g) \notin {SABM, DISC} /\ IsMessage(b, PN)
  BY TypesDiffer DEF Received, ReceivePnLocal, IsMessage, IsFrame
<1>2. OthersOK' /\ DeviceOK' /\ awaiting' = awaiting
  BY DEF Received, ReceivePnLocal, SetState, others, OthersOK, DeviceOK
<1>3. PICK f : f = create_l2cap_bframe_rfcomm_pkt(our_msc(b, 4))
  OBVIOUS
<1>4. f \in Outgoing /\ Type(f) = UIH
  <2>1. PICK ch \in 0..31 : Loaded(b, g, ch)
    BY DEF Received
  <2>2. g \in Incoming
    BY DEF Received
  <2>3. b \in Buffer /\ b[0] \div 8 = 0 /\ b[2] % 2 = 1
    BY <1>1, <2>1, <2>2, PnRead
  <2>4. 4 \in 4..10
    OBVIOUS
  <2>. QED  BY <1>3, <2>3, <2>4, OurMscSent
<1>5. Answer(<<our_msc(b, 4)>>)
  BY DEF ReceivePnLocal
<1>. QED  BY <1>1, <1>2, <1>3, <1>4, <1>5, UihAnswer DEF Handled

LEMMA PnRemoteHandled ==
    ASSUME NEW g, NEW b, Received(b, g), ReceivePnRemote(b)
    PROVE  Handled(g)
<1>1. Type(g) \notin {SABM, DISC} /\ IsMessage(b, PN)
  BY TypesDiffer DEF Received, ReceivePnRemote, IsMessage, IsFrame
<1>2. OthersOK' /\ awaiting' = awaiting
  BY DEF Received, ReceivePnRemote, others, OthersOK
<1>3. PICK ch \in 0..31 : Loaded(b, g, ch)
  BY DEF Received
<1>4. g \in Incoming
  BY DEF Received
<1>5. PICK x : x = create_uih_pkt(b, get_rfcomm_server_ch_addr(b),
                                  get_rfcomm_payload_len(b), 0, MSG_RESP)
  OBVIOUS
<1>6. PICK f : f = create_l2cap_bframe_rfcomm_pkt(x)
  OBVIOUS
<1>7. f \in Outgoing /\ Type(f) = UIH
  BY <1>1, <1>3, <1>4, <1>5, <1>6, PnRemoteSent
<1>8. Answer(<<x>>)
  BY <1>5 DEF ReceivePnRemote
<1>9. DeviceOK'
  <2>1. b \in Buffer /\ b[2] % 2 = 1
    BY <1>1, <1>3, <1>4, PnRead
  <2>2. \A i \in 0..13 : b[i] \in 0..255
    BY <2>1, BufferOctets
  <2>3. pn_config' = [n \in 0..7 |-> b[5 + n]]
    BY <2>1, MessagePlace DEF ReceivePnRemote, get_rfcomm_msg_payload_uih_param
  <2>4. pn_config' \in [0..7 -> 0..255]
    BY <2>2, <2>3
  <2>. QED  BY <2>4 DEF Received, ReceivePnRemote, NewState, DeviceOK, Octet
<1>. QED  BY <1>1, <1>2, <1>6, <1>7, <1>8, <1>9, UihAnswer DEF Handled

LEMMA PnOtherHandled ==
    ASSUME NEW g, NEW b, Received(b, g), ReceivePnOther(b)
    PROVE  Handled(g)
<1>1. Type(g) \notin {SABM, DISC} /\ IsMessage(b, PN)
  BY TypesDiffer DEF Received, ReceivePnOther, IsMessage, IsFrame
<1>2. OthersOK' /\ DeviceOK' /\ awaiting' = awaiting
  BY DEF Received, ReceivePnOther, NewState, others, OthersOK, DeviceOK
<1>3. PICK x : x = uih(set_rpn_pm(b), get_rfcomm_payload_len(b), MSG_RESP)
  OBVIOUS
<1>4. PICK f : f = create_l2cap_bframe_rfcomm_pkt(x)
  OBVIOUS
<1>5. f \in Outgoing /\ Type(f) = UIH
  <2>1. PICK ch \in 0..31 : Loaded(b, g, ch)
    BY DEF Received
  <2>2. g \in Incoming
    BY DEF Received
  <2>. QED  BY <1>1, <1>3, <1>4, <2>1, <2>2, PnOtherSent
<1>6. Answer(<<x>>)
  BY <1>3 DEF ReceivePnOther
<1>. QED  BY <1>1, <1>2, <1>4, <1>5, <1>6, UihAnswer DEF Handled

LEMMA MscResponseHandled ==
    ASSUME NEW g, NEW b, Received(b, g), ReceiveMscResponse(b)
    PROVE  Handled(g)
<1>1. /\ Type(g) \notin {SABM, DISC} /\ IsFrame(b, UIH)
      /\ get_rfcomm_server_ch_addr(b) = MSG_DLCI
  BY TypesDiffer DEF Received, ReceiveMscResponse, IsMessage, IsFrame
<1>2. OthersOK' /\ DeviceOK' /\ awaiting' = awaiting
  BY DEF Received, ReceiveMscResponse, SetState, others, OthersOK, DeviceOK
<1>3. CASE connect_initiate = "LOCAL"
  <2>1. PICK x : x = uih(create_rpn_msg(b, MSG_CMD, initial_rpn_config), 10, MSG_CMD)
    OBVIOUS
  <2>2. PICK f : f = create_l2cap_bframe_rfcomm_pkt(x)
    OBVIOUS
  <2>3. f \in Outgoing /\ Type(f) = UIH
    <3>1. PICK ch \in 0..31 : Loaded(b, g, ch)
      BY DEF Received
    <3>2. g \in Incoming
      BY DEF Received
    <3>3. b \in Buffer /\ b[0] \div 8 = 0 /\ b[2] % 2 = 1
      BY <1>1, <3>1, <3>2, MessageRead
    <3>. QED  BY <2>1, <2>2, <3>3, OurRpnSent
  <2>4. Answer(<<x>>)
    BY <1>3, <2>1 DEF ReceiveMscResponse
  <2>. QED  BY <1>1, <1>2, <2>2, <2>3, <2>4, UihAnswer DEF Handled
<1>4. CASE connect_initiate # "LOCAL"
  <2>1. Ignore(b) /\ toPeer \in Seq(Outgoing)
    BY <1>4 DEF ReceiveMscResponse, Received
  <2>. QED  BY <1>1, <1>2, <2>1, NoAnswer DEF Handled
<1>. QED  BY <1>3, <1>4

LEMMA MscCommandHandled ==
    ASSUME NEW g, NEW b, Received(b, g), ReceiveMscCommand(b)
    PROVE  Handled(g)
<1>1. Type(g) \notin {SABM, DISC} /\ IsMessage(b, MSC)
  BY TypesDiffer DEF Received, ReceiveMscCommand, IsMessage, IsFrame
<1>2. OthersOK' /\ DeviceOK' /\ awaiting' = awaiting
  BY DEF Received, ReceiveMscCommand, NewState, others, OthersOK, DeviceOK
<1>3. PICK len : len = get_rfcomm_payload_len(b)
  OBVIOUS
<1>4. PICK response : response = uih(set_rfcomm_msg_type_cr(b, MSG_RESP), len, MSG_RESP)
  OBVIOUS
<1>5. PICK e, f : /\ e = create_l2cap_bframe_rfcomm_pkt(response)
                  /\ f = create_l2cap_bframe_rfcomm_pkt(our_msc(response, len))
  OBVIOUS
<1>6. e \in Outgoing /\ Type(e) = UIH /\ f \in Outgoing /\ Type(f) = UIH
  <2>1. PICK ch \in 0..31 : Loaded(b, g, ch)
    BY DEF Received
  <2>2. g \in Incoming
    BY DEF Received
  <2>. QED  BY <1>1, <1>3, <1>4, <1>5, <2>1, <2>2, MscAnswersSent
<1>7. Answer(<<response, our_msc(response, len)>>)
  BY <1>3, <1>4 DEF ReceiveMscCommand
<1>8. /\ toDev' = Tail(toDev) /\ toPeer' = toPeer \o <<e, f>>
      /\ buf' \in Buffer /\ BufferQuiet'
  BY <1>5, <1>7, AnswerTwo
<1>9. <<e, f>> \in Seq(Outgoing)
  BY <1>6
<1>10. Answers(<<e, f>>, g)
  <2>1. \A i \in 1..Len(<<e, f>>) : <<e, f>>[i] \in {e, f}
    OBVIOUS
  <2>. QED  BY <1>1, <1>6, <2>1, TypesDiffer DEF Answers
<1>. QED  BY <1>2, <1>8, <1>9, <1>10 DEF Handled

LEMMA OtherMessageHandled ==
    ASSUME NEW g, NEW b, Received(b, g), ReceiveOtherMessage(b)
    PROVE  Handled(g)
<1>1. /\ Type(g) \notin {SABM, DISC} /\ Ignore(b) /\ toPeer \in Seq(Outgoing)
  BY TypesDiffer DEF Received, ReceiveOtherMessage, IsFrame
<1>2. OthersOK' /\ DeviceOK' /\ awaiting' = awaiting
  BY DEF Received, ReceiveOtherMessage, NewState, others, OthersOK, DeviceOK
<1>. QED  BY <1>1, <1>2, NoAnswer DEF Handled

\* The answers keep the count of what is not acknowledged yet.
LEMMA AnswersCount ==
    ASSUME NEW g \in Frame, NEW fs \in Seq(Outgoing), Answers(fs, g)
    PROVE  Dlcis(fs, {UA}) = Dlcis(<<g>>, {SABM, DISC})
<1>1. fs \in Seq(Frame)
  BY QueuesOfFrames, EmptySeq
<1>2. CASE Type(g) \in {SABM, DISC}
  <2>1. PICK f \in Outgoing : fs = <<f>> /\ Type(f) = UA /\ Dlci(f) = Dlci(g)
    BY <1>2 DEF Answers
  <2>2. f \in Frame
    BY DEF Outgoing
  <2>3. Dlcis(<<f>>, {UA}) = <<Dlci(f)>>
    BY <2>1, <2>2, DlcisSingle
  <2>4. Dlcis(<<g>>, {SABM, DISC}) = <<Dlci(g)>>
    BY <1>2, DlcisSingle
  <2>. QED  BY <2>1, <2>3, <2>4, Zenon
<1>3. CASE Type(g) \notin {SABM, DISC}
  <2>1. Dlcis(fs, {UA}) = <<>>
    BY <1>1, <1>3, DlcisNone DEF Answers
  <2>2. Dlcis(<<g>>, {SABM, DISC}) = <<>>
    BY <1>3, DlcisSingle
  <2>. QED  BY <2>1, <2>2
<1>. QED  BY <1>2, <1>3

\* The frame handled and its answers cancel out.
LEMMA HandledInOrder ==
    ASSUME IInv, toDev # <<>>, Handled(Head(toDev))
    PROVE  UaInOrder'
<1>1. PICK g : g = Head(toDev)
  OBVIOUS
<1>2. /\ toDev \in Seq(Incoming) /\ toPeer \in Seq(Outgoing) /\ UaInOrder
  BY InvariantParts
<1>3. toDev \in Seq(Frame) /\ toPeer \in Seq(Frame)
  BY <1>2, QueuesOfFrames
<1>4. PICK fs \in Seq(Outgoing) : toPeer' = toPeer \o fs /\ Answers(fs, g)
  BY <1>1 DEF Handled
<1>5. fs \in Seq(Frame)
  BY QueuesOfFrames, EmptySeq
<1>6. g \in Frame
  BY <1>1, <1>3, HeadTailProperties
<1>7. Dlcis(fs, {UA}) = Dlcis(<<Head(toDev)>>, {SABM, DISC})
  BY <1>1, <1>4, <1>6, AnswersCount
<1>8. Dlcis(toPeer, {UA}) \o Dlcis(toDev, {SABM, DISC})
      = Dlcis(toPeer \o fs, {UA}) \o Dlcis(Tail(toDev), {SABM, DISC})
  <2>1. PICK p \in Seq(Frame), q \in Seq(Frame) : p = toPeer /\ q = toDev
    BY <1>3
  <2>2. PICK types, kinds : types = {UA} /\ kinds = {SABM, DISC}
    OBVIOUS
  <2>3. q # <<>>
    BY <2>1
  <2>4. Dlcis(fs, types) = Dlcis(<<Head(q)>>, kinds)
    BY <1>7, <2>1, <2>2
  <2>5. Dlcis(p, types) \o Dlcis(q, kinds) = Dlcis(p \o fs, types) \o Dlcis(Tail(q), kinds)
    BY <1>5, <2>3, <2>4, DlcisMove, SMTT(30)
  <2>. QED  BY <2>1, <2>2, <2>5, Zenon
<1>9. awaiting' = awaiting /\ toDev' = Tail(toDev)
  BY DEF Handled
<1>. QED  BY <1>2, <1>4, <1>8, <1>9, Zenon DEF UaInOrder

\* Every handler answers its frame and leaves the invariant.
LEMMA HandlerAnswers ==
    ASSUME IInv, Handler
    PROVE  toDev # <<>> /\ Handled(Head(toDev)) /\ IInv'
<1>1. toDev # <<>>
  BY DEF Handler
<1>2. PICK b : /\ b = Load(buf, Head(toDev))
               /\ \/ ReceiveSabm(b) \/ ReceiveUa(b) \/ ReceiveDm(b) \/ ReceiveDisc(b)
                  \/ ReceiveCredits(b) \/ ReceiveData(b)
                  \/ ReceivePnLocal(b) \/ ReceivePnRemote(b) \/ ReceivePnOther(b)
                  \/ ReceiveMscResponse(b) \/ ReceiveMscCommand(b) \/ ReceiveOtherMessage(b)
  BY DEF Handler
<1>3. PICK g : g = Head(toDev)
  OBVIOUS
<1>4. Received(b, g)
  BY <1>1, <1>2, <1>3, HandlerStarts
<1>5. Handled(g)
  BY <1>2, <1>4, SabmHandled, UaHandled, DmHandled, DiscHandled, CreditsHandled,
     DataHandled, PnLocalHandled, PnRemoteHandled, PnOtherHandled, MscResponseHandled,
     MscCommandHandled, OtherMessageHandled
<1>6. toPeer' \in Seq(Outgoing)
  <2>1. PICK fs \in Seq(Outgoing) : toPeer' = toPeer \o fs
    BY <1>5 DEF Handled
  <2>2. toPeer \in Seq(Outgoing)
    BY <1>4 DEF Received
  <2>. QED  BY <2>1, <2>2, ConcatProperties
<1>7. toDev' \in Seq(Incoming)
  <2>1. toDev \in Seq(Incoming) /\ toDev' = Tail(toDev)
    BY <1>5, InvariantParts DEF Handled
  <2>. QED  BY <1>1, <2>1, HeadTailProperties
<1>8. UaInOrder'
  BY <1>1, <1>3, <1>5, HandledInOrder
<1>9. IInv'
  BY <1>5, <1>6, <1>7, <1>8, InvariantNext DEF Handled
<1>. QED  BY <1>1, <1>3, <1>5, <1>9

-----------------------------------------------------------------------------
(* The peer                                                                  *)

NoCommands(fs) == \A i \in 1..Len(fs) : Type(fs[i]) \notin {SABM, DISC}

\* The peer takes the head of its queue.
LEMMA RespondInOrder ==
    ASSUME IInv, toPeer # <<>>, NEW fs \in Seq(Incoming), NoCommands(fs), Respond(fs),
           awaiting' = IF Type(Head(toPeer)) = UA THEN Tail(awaiting) ELSE awaiting
    PROVE  UaInOrder' /\ awaiting' \in Seq(Channels)
<1>1. /\ toDev \in Seq(Incoming) /\ toPeer \in Seq(Outgoing) /\ UaInOrder
  BY InvariantParts
<1>2. PICK p \in Seq(Frame), q \in Seq(Frame) : p = toPeer /\ q = toDev /\ p # <<>>
  BY <1>1, QueuesOfFrames
<1>3. PICK types, kinds : types = {UA} /\ kinds = {SABM, DISC}
  OBVIOUS
<1>4. fs \in Seq(Frame)
  BY QueuesOfFrames, EmptySeq
<1>5. Dlcis(q \o fs, kinds) = Dlcis(q, kinds)
  <2>1. Dlcis(fs, kinds) = <<>>
    BY <1>3, <1>4, DlcisNone DEF NoCommands
  <2>2. Dlcis(q \o fs, kinds) = Dlcis(q, kinds) \o Dlcis(fs, kinds)
    BY <1>4, DlcisConcat
  <2>3. Dlcis(q, kinds) \o <<>> = Dlcis(q, kinds)
    BY DlcisTyped, ConcatEmptySeq
  <2>. QED  BY <2>1, <2>2, <2>3, Zenon
<1>6. PICK h \in Frame, t \in Seq(Frame) :
          /\ h = Head(p) /\ t = Tail(p) /\ <<h>> \in Seq(Frame)
          /\ Dlcis(p, types) = Dlcis(<<h>>, types) \o Dlcis(t, types)
  <2>1. Head(p) \in Frame /\ Tail(p) \in Seq(Frame) /\ <<Head(p)>> \in Seq(Frame)
    BY <1>2, DlcisHead
  <2>2. Dlcis(p, types) = Dlcis(<<Head(p)>>, types) \o Dlcis(Tail(p), types)
    BY <1>2, DlcisHead
  <2>. QED  BY <2>1, <2>2, Zenon
<1>7. PICK a \in Seq(Channels), c \in Seq(Channels) :
          a = Dlcis(t, types) /\ c = Dlcis(q, kinds)
  BY DlcisTyped
<1>8. awaiting = (Dlcis(<<h>>, types) \o a) \o c
  BY <1>1, <1>2, <1>3, <1>6, <1>7, Zenon DEF UaInOrder
<1>9. awaiting' = a \o c
  <2>1. CASE Type(h) = UA
    <3>1. PICK d \in Channels : d = Dlci(h)
      BY DEF Frame, Channels
    <3>2. Dlcis(<<h>>, types) = <<d>>
      BY <1>3, <2>1, <3>1, DlcisSingle
    <3>3. awaiting' = Tail(awaiting)
      BY <1>2, <1>6, <2>1
    <3>4. awaiting = (<<d>> \o a) \o c
      BY <1>8, <3>2
    <3>5. (<<d>> \o a) \o c = <<d>> \o (a \o c)
      <4>1. <<d>> \in Seq(Channels)
        OBVIOUS
      <4>. QED  BY <4>1, ConcatAssociative
    <3>6. Tail(<<d>> \o (a \o c)) = a \o c
      <4>1. a \o c \in Seq(Channels)
        BY ConcatProperties
      <4>. QED  BY <4>1, TailOfOne
    <3>. QED  BY <3>3, <3>4, <3>5, <3>6, Zenon
  <2>2. CASE Type(h) # UA
    <3>1. Dlcis(<<h>>, types) = <<>>
      BY <1>3, <2>2, DlcisSingle
    <3>2. <<>> \o a = a
      BY ConcatEmptySeq
    <3>3. awaiting' = awaiting
      BY <1>2, <1>6, <2>2
    <3>. QED  BY <1>8, <3>1, <3>2, <3>3, Zenon
  <2>. QED  BY <2>1, <2>2
<1>10. toPeer' = t /\ toDev' = q \o fs
  BY <1>2, <1>6 DEF Respond
<1>11. UaInOrder'
  BY <1>3, <1>5, <1>7, <1>9, <1>10, Zenon DEF UaInOrder
<1>. QED  BY <1>9, <1>11, ConcatProperties

\* What an answer of the peer, or none, leaves of the invariant.
LEMMA RespondKeeps ==
    ASSUME IInv, toPeer # <<>>, NEW fs \in Seq(Incoming), NoCommands(fs), Respond(fs),
           awaiting' = IF Type(Head(toPeer)) = UA THEN Tail(awaiting) ELSE awaiting,
           UNCHANGED PeerUnchanged, peer' \in PeerStates
    PROVE  IInv'
<1>1. /\ OthersOK /\ DeviceOK /\ buf \in Buffer /\ BufferQuiet
      /\ toDev \in Seq(Incoming) /\ toPeer \in Seq(Outgoing)
  BY InvariantParts
<1>2. UaInOrder' /\ awaiting' \in Seq({MSG_DLCI, DataDlci})
  BY RespondInOrder DEF Channels
<1>3. OthersOK'
  BY <1>1, <1>2 DEF PeerUnchanged, OthersOK
<1>4. DeviceOK' /\ buf' \in Buffer /\ BufferQuiet'
  BY <1>1 DEF PeerUnchanged, device, DeviceOK, BufferQuiet
<1>5. toDev' \in Seq(Incoming)
  BY <1>1, ConcatProperties DEF Respond
<1>6. toPeer' \in Seq(Outgoing)
  BY <1>1, HeadTailProperties DEF Respond
<1>. QED  BY <1>2, <1>3, <1>4, <1>5, <1>6, InvariantNext

LEMMA NothingKeeps ==
    ASSUME IInv, toPeer # <<>>, Respond(<<>>),
           awaiting' = IF Type(Head(toPeer)) = UA THEN Tail(awaiting) ELSE awaiting,
           UNCHANGED PeerUnchanged, peer' \in PeerStates
    PROVE  IInv'
<1>1. PICK fs \in Seq(Incoming) : fs = <<>> /\ NoCommands(fs)
  <2>1. <<>> \in Seq(Incoming) /\ Len(<<>>) = 0
    BY EmptySeq
  <2>2. NoCommands(<<>>)
    BY <2>1 DEF NoCommands
  <2>. QED  BY <2>1, <2>2, Zenon
<1>2. Respond(fs)
  BY <1>1
<1>. QED  BY <1>1, <1>2, RespondKeeps

LEMMA ResponseKeeps ==
    ASSUME IInv, toPeer # <<>>, Type(Head(toPeer)) # UA, NEW f \in Incoming,
           Type(f) \notin {SABM, DISC}, Respond(<<f>>),
           awaiting' = awaiting, UNCHANGED PeerUnchanged, peer' \in PeerStates
    PROVE  IInv'
<1>1. PICK fs \in Seq(Incoming) : fs = <<f>> /\ NoCommands(fs)
  <2>1. <<f>> \in Seq(Incoming) /\ \A i \in 1..Len(<<f>>) : <<f>>[i] = f
    OBVIOUS
  <2>2. NoCommands(<<f>>)
    BY <2>1 DEF NoCommands
  <2>. QED  BY <2>1, <2>2, Zenon
<1>2. Respond(fs)
  BY <1>1
<1>. QED  BY <1>1, <1>2, RespondKeeps

\* The peer sends a frame of its own accord, and waits for an answer to a command.
Noted(f) ==
    awaiting' = IF Type(f) \in {SABM, DISC} THEN Append(awaiting, Dlci(f)) ELSE awaiting

LEMMA SendsKeeps ==
    ASSUME IInv, NEW f \in Incoming, NEW what, Sends(what, f), peer' \in PeerStates,
           Noted(f)
    PROVE  IInv'
<1>1. /\ OthersOK /\ DeviceOK /\ buf \in Buffer /\ BufferQuiet
      /\ toDev \in Seq(Incoming) /\ toPeer \in Seq(Outgoing) /\ UaInOrder
  BY InvariantParts
<1>2. /\ toDev' = Append(toDev, f) /\ toPeer' = toPeer
      /\ connect_initiate' = connect_initiate
  BY DEF Sends
<1>3. DeviceOK' /\ buf' \in Buffer /\ BufferQuiet'
  BY <1>1 DEF Sends, device, DeviceOK, BufferQuiet
<1>4. toDev' \in Seq(Incoming)
  BY <1>1, <1>2, AppendProperties
<1>5. PICK p \in Seq(Frame), q \in Seq(Frame) : p = toPeer /\ q = toDev
  BY <1>1, QueuesOfFrames
<1>6. PICK types, kinds : types = {UA} /\ kinds = {SABM, DISC}
  OBVIOUS
<1>7. f \in Frame /\ <<f>> \in Seq(Frame)
  BY DEF Incoming
<1>8. PICK a \in Seq(Channels), c \in Seq(Channels), l \in Seq(Channels) :
          a = Dlcis(p, types) /\ c = Dlcis(q, kinds) /\ l = Dlcis(<<f>>, kinds)
  BY <1>7, DlcisTyped
<1>9. toDev' = q \o <<f>>
  BY <1>2, <1>5, AppendIsConcat
<1>10. Dlcis(q \o <<f>>, kinds) = c \o l
  BY <1>7, <1>8, DlcisConcat
<1>11. awaiting = a \o c
  BY <1>1, <1>5, <1>6, <1>8, Zenon DEF UaInOrder
<1>12. a \o c \in Seq(Channels)
  BY ConcatProperties
<1>13. awaiting' = (a \o c) \o l
  <2>1. CASE Type(f) \in {SABM, DISC}
    <3>1. l = <<Dlci(f)>>
      BY <1>6, <1>7, <1>8, <2>1, DlcisSingle
    <3>2. PICK d \in Channels : d = Dlci(f)
      BY <1>7 DEF Frame, Channels
    <3>3. Append(a \o c, d) = (a \o c) \o <<d>>
      BY <1>12, AppendIsConcat
    <3>. QED  BY <1>11, <2>1, <3>1, <3>2, <3>3 DEF Noted
  <2>2. CASE Type(f) \notin {SABM, DISC}
    <3>1. l = <<>>
      BY <1>6, <1>7, <1>8, <2>2, DlcisSingle
    <3>2. (a \o c) \o <<>> = a \o c
      BY <1>12, ConcatEmptySeq
    <3>. QED  BY <1>11, <2>2, <3>1, <3>2 DEF Noted
  <2>. QED  BY <2>1, <2>2
<1>14. (a \o c) \o l = a \o (c \o l)
  BY ConcatAssociative
<1>15. UaInOrder'
  BY <1>2, <1>5, <1>6, <1>8, <1>9, <1>10, <1>13, <1>14, Zenon DEF UaInOrder
<1>16. OthersOK'
  <2>1. awaiting' \in Seq({MSG_DLCI, DataDlci})
    BY <1>12, <1>13, ConcatProperties DEF Channels
  <2>. QED  BY <1>1, <1>2, <2>1 DEF OthersOK
<1>. QED  BY <1>1, <1>2, <1>3, <1>4, <1>15, <1>16, InvariantNext

-----------------------------------------------------------------------------
(* The actions                                                               *)

\* Button S2.
LEMMA PressKeeps ==
    ASSUME IInv, rfcomm_connect_request
    PROVE  IInv'
<1>1. /\ OthersOK /\ DeviceOK /\ buf \in Buffer /\ BufferQuiet
      /\ toDev \in Seq(Incoming) /\ toPeer \in Seq(Outgoing) /\ UaInOrder
  BY InvariantParts
<1>2. /\ buf' = create_rfcomm_pkt(buf, 0, 0, 1, MSG_CMD, SABM)
      /\ connect_initiate' = connect_initiate /\ pn_config' = pn_config
      /\ rfcomm_state' = rfcomm_state /\ rfcomm_state_transition' = rfcomm_state_transition
      /\ credit_cnt' = credit_cnt /\ toDev' = toDev /\ peer' = peer /\ awaiting' = awaiting
  BY DEF rfcomm_connect_request, NewState
<1>3. PICK f : f = create_l2cap_bframe_rfcomm_pkt(buf') /\ toPeer' = Append(toPeer, f)
  BY DEF rfcomm_connect_request
<1>4. buf[0] < 8 /\ \A i \in 4..13 : buf[i] = 0
  BY <1>1 DEF BufferQuiet
<1>5. PICK c : c = buf'
  OBVIOUS
<1>6. /\ f \in Outgoing /\ Type(f) = SABM /\ c \in Buffer /\ c[0] < 8
      /\ \A i \in 4..13 : c[i] = buf[i]
  BY <1>1, <1>2, <1>3, <1>4, <1>5, SabmSent
<1>7. buf' \in Buffer /\ BufferQuiet'
  BY <1>4, <1>5, <1>6 DEF BufferQuiet
<1>8. toPeer' \in Seq(Outgoing)
  BY <1>1, <1>3, <1>6, AppendProperties
<1>9. Dlcis(toPeer', {UA}) = Dlcis(toPeer, {UA})
  <2>1. PICK p \in Seq(Frame) : p = toPeer
    BY <1>1, QueuesOfFrames
  <2>2. PICK types : types = {UA}
    OBVIOUS
  <2>3. f \in Frame /\ <<f>> \in Seq(Frame)
    BY <1>6 DEF Outgoing
  <2>4. toPeer' = p \o <<f>>
    BY <1>3, <2>1, <2>3, AppendIsConcat
  <2>5. Type(f) \notin types
    BY <1>6, <2>2 DEF SABM, UA
  <2>6. Dlcis(<<f>>, types) = <<>>
    BY <2>3, <2>5, DlcisSingle
  <2>7. Dlcis(p \o <<f>>, types) = Dlcis(p, types) \o Dlcis(<<f>>, types)
    BY <2>3, DlcisConcat
  <2>8. Dlcis(p, types) \o <<>> = Dlcis(p, types)
    BY DlcisTyped, ConcatEmptySeq
  <2>. QED  BY <2>1, <2>2, <2>4, <2>6, <2>7, <2>8, Zenon
<1>10. UaInOrder'
  BY <1>1, <1>2, <1>9, Zenon DEF UaInOrder
<1>11. OthersOK' /\ DeviceOK'
  BY <1>1, <1>2 DEF OthersOK, DeviceOK
<1>. QED  BY <1>1, <1>2, <1>7, <1>8, <1>10, <1>11, InvariantNext

\* The oldest frame to the peer is one of the device.
LEMMA HeadIsOutgoing ==
    ASSUME IInv, toPeer # <<>>
    PROVE  Head(toPeer) \in Outgoing /\ peer \in PeerStates
           /\ connect_initiate \in {"LOCAL", "REMOTE"}
<1>1. toPeer \in Seq(Outgoing) /\ OthersOK
  BY InvariantParts
<1>. QED  BY <1>1, HeadTailProperties DEF OthersOK

\* One lemma per frame the peer answers.
LEMMA SabmAnswered ==
    ASSUME IInv, PeerGetsSabm
    PROVE  IInv'
<1>1. PICK h : h = Head(toPeer)
  OBVIOUS
<1>2. toPeer # <<>> /\ Type(h) = SABM
  BY <1>1 DEF PeerGetsSabm
<1>3. h \in Outgoing /\ peer \in PeerStates
  BY <1>1, <1>2, HeadIsOutgoing
<1>4. Dlci(h) = MSG_DLCI
  BY <1>2, <1>3 DEF Outgoing
<1>5. Type(h) # UA /\ awaiting' = awaiting /\ UNCHANGED PeerUnchanged
  BY <1>2 DEF PeerGetsSabm, SABM, UA
<1>6. PICK type \in {UA, DM} :
          /\ Respond(<<PeerFrame(Dlci(h), MSG_RESP, type, <<>>, <<>>)>>)
          /\ peer' = [peer EXCEPT !.mux = "open"] \/ peer' = peer
  BY <1>1 DEF PeerGetsSabm
<1>7. PICK f : f = PeerFrame(MSG_DLCI, MSG_RESP, type, <<>>, <<>>)
  OBVIOUS
<1>8. f \in Incoming /\ Type(f) = type
  <2>1. MSG_RESP \in {0, 1} /\ type \in FrameTypes /\ type # UIH
    BY DEF MSG_RESP, FrameTypes, UA, DM, UIH
  <2>. QED  BY <1>7, <2>1, PeerSends
<1>9. Respond(<<f>>)
  BY <1>4, <1>6, <1>7
<1>10. Type(f) \notin {SABM, DISC}
  BY <1>8, TypesDiffer
<1>11. peer' \in PeerStates
  BY <1>3, <1>6 DEF PeerStates
<1>. QED  BY <1>1, <1>2, <1>5, <1>8, <1>9, <1>10, <1>11, ResponseKeeps

LEMMA UaTaken ==
    ASSUME IInv, PeerGetsUa
    PROVE  IInv'
<1>1. toPeer # <<>> /\ Type(Head(toPeer)) = UA /\ Respond(<<>>)
      /\ awaiting' = Tail(awaiting) /\ UNCHANGED PeerUnchanged
  BY DEF PeerGetsUa
<1>2. PICK channel \in {"mux", "dlc"} :
        peer' = IF peer[channel] = "asked" THEN [peer EXCEPT ![channel] = "open"]
                ELSE IF channel = "mux"
                  THEN [peer EXCEPT !.mux = "closed", !.pn = "none", !.ours = "none"]
                ELSE [peer EXCEPT !.dlc = "closed"]
  BY DEF PeerGetsUa, Channel
<1>3. peer \in PeerStates
  BY <1>1, HeadIsOutgoing
<1>4. peer' \in PeerStates
  <2>1. CASE channel = "mux"
    BY <1>2, <1>3, <2>1 DEF PeerStates
  <2>2. CASE channel = "dlc"
    BY <1>2, <1>3, <2>2 DEF PeerStates
  <2>. QED  BY <2>1, <2>2
<1>. QED  BY <1>1, <1>4, NothingKeeps

\* The message the head of the queue holds, and its response.
LEMMA HeldMessage ==
    ASSUME IInv, toPeer # <<>>, NEW h, h = Head(toPeer),
           NEW type \in {PN, MSC, RPN}, NEW cmdresp \in {0, 1}, Holds(h, type, cmdresp)
    PROVE  /\ h \in Outgoing /\ Type(h) # UA /\ ForMux(h)
           /\ h[4] = type + 2 * cmdresp + 1
           /\ Params(h) \in Seq(Octet)
           /\ type = PN => Len(Params(h)) = 8
           /\ type = MSC /\ cmdresp = 1 => Len(Params(h)) = 2
           /\ type = RPN /\ cmdresp = 1 => Len(Params(h)) = 8
<1>1. h \in Outgoing
  BY HeadIsOutgoing
<1>2. /\ ForMux(h) /\ h[4] = type + 2 * cmdresp + 1
      /\ Params(h) \in Seq(Octet) /\ Len(Params(h)) = h[5] \div 2
  BY <1>1, ParamsRead
<1>3. /\ Type(h) # UA
      /\ h[5] = 17 => Len(Params(h)) = 8
      /\ h[5] = 5 => Len(Params(h)) = 2
  <2>1. 17 \div 2 = 8 /\ 5 \div 2 = 2
    OBVIOUS
  <2>2. Len(Params(h)) = h[5] \div 2
    BY <1>2, Zenon
  <2>3. (h[5] = 17 => Len(Params(h)) = 8) /\ (h[5] = 5 => Len(Params(h)) = 2)
    BY <2>1, <2>2, Zenon
  <2>4. Type(h) # UA
    BY <1>2 DEF ForMux, UIH, UA
  <2>. QED  BY <2>3, <2>4, Zenon
<1>4. type = PN => Len(Params(h)) = 8
  <2>1. SUFFICES ASSUME type = PN PROVE Len(Params(h)) = 8
    OBVIOUS
  <2>2. h[4] \in {PN + 1, PN + 3}
    BY <1>2, <2>1 DEF PN
  <2>3. h[5] = 17
    BY <1>1, <1>2, <2>2 DEF Outgoing, PnGood
  <2>. QED  BY <1>3, <2>3, Zenon
<1>5. type = MSC /\ cmdresp = 1 => Len(Params(h)) = 2
  <2>1. SUFFICES ASSUME type = MSC, cmdresp = 1 PROVE Len(Params(h)) = 2
    OBVIOUS
  <2>2. h[4] = MSC + 3
    BY <1>2, <2>1 DEF MSC
  <2>3. h[5] = 5
    BY <1>1, <1>2, <2>2 DEF Outgoing
  <2>. QED  BY <1>3, <2>3, Zenon
<1>6. type = RPN /\ cmdresp = 1 => Len(Params(h)) = 8
  <2>1. SUFFICES ASSUME type = RPN, cmdresp = 1 PROVE Len(Params(h)) = 8
    OBVIOUS
  <2>2. h[4] = RPN + 3
    BY <1>2, <2>1 DEF RPN
  <2>3. h[5] = 17
    BY <1>1, <1>2, <2>2 DEF Outgoing
  <2>. QED  BY <1>3, <2>3, Zenon
<1>. QED  BY <1>1, <1>2, <1>3, <1>4, <1>5, <1>6

\* The peer answers with a message.
LEMMA MessageKeeps ==
    ASSUME IInv, toPeer # <<>>, Type(Head(toPeer)) # UA,
           NEW type, NEW params, IsContent(type, MSG_RESP, params),
           Respond(<<Message(type, MSG_RESP, params)>>),
           awaiting' = awaiting, UNCHANGED PeerUnchanged, peer' \in PeerStates
    PROVE  IInv'
<1>1. PICK f : f = Message(type, MSG_RESP, params)
  OBVIOUS
<1>2. f \in Incoming /\ Type(f) = UIH
  BY <1>1, PeerMessage
<1>3. Type(f) \notin {SABM, DISC} /\ Respond(<<f>>)
  BY <1>1, <1>2, TypesDiffer
<1>. QED  BY <1>2, <1>3, ResponseKeeps

LEMMA PnCommandAnswered ==
    ASSUME IInv, PeerGetsPnCommand
    PROVE  IInv'
<1>1. PICK h : h = Head(toPeer)
  OBVIOUS
<1>2. toPeer # <<>> /\ Holds(h, PN, MSG_CMD) /\ awaiting' = awaiting /\ UNCHANGED PeerUnchanged
  BY <1>1 DEF PeerGetsPnCommand
<1>3. PICK support \in PnAnswers \cup {PN_CREDIT_SUPPORT_ACK} :
        /\ Respond(<<Message(PN, MSG_RESP, [Params(h) EXCEPT ![2] = 16 * support])>>)
        /\ peer' = IF connect_initiate = "REMOTE" THEN peer
                   ELSE IF support = 0 THEN [peer EXCEPT !.ours = "refused"]
                   ELSE [peer EXCEPT !.ours = "accepted", !.rpn = FALSE]
  BY <1>1 DEF PeerGetsPnCommand
<1>4. PICK o \in Octet : o = 16 * support
  BY SessionAssumption DEF PN_CREDIT_SUPPORT_ACK, Octet
<1>5. peer \in PeerStates
  BY <1>2, HeadIsOutgoing
<1>6. peer' \in PeerStates
  BY <1>3, <1>5 DEF PeerStates
<1>7. Type(h) # UA /\ Params(h) \in Seq(Octet) /\ Len(Params(h)) = 8
  BY <1>1, <1>2, HeldMessage DEF MSG_CMD
<1>8. PICK q : q = [Params(h) EXCEPT ![2] = o]
  OBVIOUS
<1>9. q \in Seq(Octet) /\ Len(q) = 8
  <2>1. PICK p \in Seq(Octet) : p = Params(h) /\ Len(p) = 8
    BY <1>7
  <2>2. PICK i \in 1..Len(p) : i = 2
    BY <2>1
  <2>3. [p EXCEPT ![i] = o] \in Seq(Octet) /\ Len([p EXCEPT ![i] = o]) = Len(p)
    BY ExceptSeq
  <2>. QED  BY <1>8, <2>1, <2>2, <2>3, Zenon
<1>10. IsContent(PN, MSG_RESP, q)
  BY <1>9 DEF IsContent, PN, MSC, MSG_RESP
<1>11. Respond(<<Message(PN, MSG_RESP, q)>>)
  BY <1>3, <1>4, <1>8
<1>. QED  BY <1>1, <1>2, <1>6, <1>7, <1>10, <1>11, MessageKeeps

LEMMA PnResponseTaken ==
    ASSUME IInv, PeerGetsPnResponse
    PROVE  IInv'
<1>1. /\ toPeer # <<>> /\ Holds(Head(toPeer), PN, MSG_RESP) /\ Respond(<<>>)
      /\ awaiting' = awaiting /\ UNCHANGED PeerUnchanged
      /\ peer' = [peer EXCEPT !.pn = "confirmed"] \/ peer' = peer
  BY DEF PeerGetsPnResponse
<1>2. peer \in PeerStates
  BY <1>1, HeadIsOutgoing
<1>3. peer' \in PeerStates
  BY <1>1, <1>2 DEF PeerStates
<1>4. Type(Head(toPeer)) # UA
  BY <1>1 DEF Holds, UIH, UA
<1>. QED  BY <1>1, <1>3, <1>4, NothingKeeps

LEMMA MscCommandAnswered ==
    ASSUME IInv, PeerGetsMscCommand
    PROVE  IInv'
<1>1. PICK h : h = Head(toPeer)
  OBVIOUS
<1>2. toPeer # <<>> /\ Holds(h, MSC, MSG_CMD) /\ awaiting' = awaiting
      /\ UNCHANGED PeerUnchanged /\ peer' = peer
  BY <1>1 DEF PeerGetsMscCommand
<1>3. peer' \in PeerStates
  BY <1>2, HeadIsOutgoing
<1>4. Type(h) # UA /\ Params(h) \in Seq(Octet) /\ Len(Params(h)) = 2
  BY <1>1, <1>2, HeldMessage DEF MSG_CMD
<1>5. IsContent(MSC, MSG_RESP, Params(h))
  BY <1>4 DEF IsContent, PN, MSC, MSG_RESP
<1>6. Respond(<<Message(MSC, MSG_RESP, Params(h))>>)
  BY <1>1 DEF PeerGetsMscCommand
<1>. QED  BY <1>1, <1>2, <1>3, <1>4, <1>5, <1>6, MessageKeeps

LEMMA RpnCommandAnswered ==
    ASSUME IInv, PeerGetsRpnCommand
    PROVE  IInv'
<1>1. PICK h : h = Head(toPeer)
  OBVIOUS
<1>2. toPeer # <<>> /\ Holds(h, RPN, MSG_CMD) /\ awaiting' = awaiting
      /\ UNCHANGED PeerUnchanged /\ peer' = [peer EXCEPT !.rpn = TRUE]
  BY <1>1 DEF PeerGetsRpnCommand
<1>3. peer' \in PeerStates
  <2>1. peer \in PeerStates
    BY <1>2, HeadIsOutgoing
  <2>. QED  BY <1>2, <2>1 DEF PeerStates
<1>4. Type(h) # UA /\ Params(h) \in Seq(Octet) /\ Len(Params(h)) = 8
  BY <1>1, <1>2, HeldMessage DEF MSG_CMD
<1>5. IsContent(RPN, MSG_RESP, Params(h))
  BY <1>4 DEF IsContent, PN, MSC, RPN, MSG_RESP
<1>6. Respond(<<Message(RPN, MSG_RESP, Params(h))>>)
  BY <1>1 DEF PeerGetsRpnCommand
<1>. QED  BY <1>1, <1>2, <1>3, <1>4, <1>5, <1>6, MessageKeeps

LEMMA OtherTaken ==
    ASSUME IInv, PeerGetsOther
    PROVE  IInv'
<1>1. /\ toPeer # <<>> /\ Type(Head(toPeer)) # UA /\ Respond(<<>>)
      /\ awaiting' = awaiting /\ UNCHANGED PeerUnchanged /\ peer' = peer
  BY DEF PeerGetsOther
<1>2. peer' \in PeerStates
  BY <1>1, HeadIsOutgoing
<1>. QED  BY <1>1, <1>2, NothingKeeps

\* What the peer sends of its own accord.
LEMMA CommandKeeps ==
    ASSUME IInv, NEW type \in {SABM, DISC}, NEW dlci \in {MSG_DLCI, DataDlci},
           NEW state \in {"asked", "leaving"}, Command(type, dlci, state)
    PROVE  IInv'
<1>1. PICK f : f = PeerFrame(dlci, MSG_CMD, type, <<>>, <<>>)
  OBVIOUS
<1>2. f \in Incoming /\ Type(f) = type /\ Dlci(f) = dlci
  <2>1. MSG_CMD \in {0, 1} /\ type \in FrameTypes /\ type # UIH /\ type # UA
    BY DEF MSG_CMD, FrameTypes, SABM, DISC, UA, UIH
  <2>. QED  BY <1>1, <2>1, PeerSends
<1>3. Sends("commands", f) /\ Noted(f)
  BY <1>1, <1>2 DEF Command, Noted
<1>4. PICK channel \in {"mux", "dlc"} : peer' = [peer EXCEPT ![channel] = state]
  BY DEF Command, Channel
<1>5. peer \in PeerStates
  BY InvariantParts DEF OthersOK
<1>6. peer' \in PeerStates
  <2>1. CASE channel = "mux"
    BY <1>4, <1>5, <2>1 DEF PeerStates
  <2>2. CASE channel = "dlc"
    BY <1>4, <1>5, <2>2 DEF PeerStates
  <2>. QED  BY <2>1, <2>2
<1>. QED  BY <1>2, <1>3, <1>6, SendsKeeps

LEMMA UihKeeps ==
    ASSUME IInv, NEW f \in Incoming, Type(f) = UIH, NEW what, Sends(what, f),
           peer' \in PeerStates, awaiting' = awaiting
    PROVE  IInv'
<1>1. Noted(f)
  BY TypesDiffer DEF Noted
<1>. QED  BY <1>1, SendsKeeps

LEMMA PnAsked ==
    ASSUME IInv, PeerAsksPn
    PROVE  IInv'
<1>1. PICK params : params = <<DataDlci, 16 * PN_CREDIT_SUPPORT_REQ, 7, 0, 100, 0, 0, 5>>
  OBVIOUS
<1>2. params \in Seq(Octet) /\ Len(params) = 8 /\ params[4] = 0
  <2>1. PICK channel \in 1..30 : DataDlci = 2 * channel
    BY SessionAssumption
  <2>2. PICK d \in Octet, s \in Octet : d = DataDlci /\ s = 16 * PN_CREDIT_SUPPORT_REQ
    <3>1. DataDlci \in Octet /\ 16 * PN_CREDIT_SUPPORT_REQ \in Octet
      BY <2>1 DEF Octet, PN_CREDIT_SUPPORT_REQ
    <3>. QED  BY <3>1, Zenon
  <2>3. 7 \in Octet /\ 0 \in Octet /\ 100 \in Octet /\ 5 \in Octet
    BY DEF Octet
  <2>4. params = <<d, s, 7, 0, 100, 0, 0, 5>>
    BY <1>1, <2>2, Zenon
  <2>. QED  BY <2>3, <2>4
<1>3. PICK f : f = Message(PN, MSG_CMD, params) /\ Sends("commands", f)
  BY <1>1 DEF PeerAsksPn
<1>4. IsContent(PN, MSG_CMD, params)
  BY <1>2 DEF IsContent, PN, MSC, MSG_CMD
<1>5. f \in Incoming /\ Type(f) = UIH
  BY <1>3, <1>4, PeerMessage
<1>6. awaiting' = awaiting /\ peer' = [peer EXCEPT !.pn = "asked"]
  BY DEF PeerAsksPn
<1>7. peer' \in PeerStates
  <2>1. peer \in PeerStates
    BY InvariantParts DEF OthersOK
  <2>. QED  BY <1>6, <2>1 DEF PeerStates
<1>. QED  BY <1>3, <1>5, <1>6, <1>7, UihKeeps

LEMMA MessageStarted ==
    ASSUME IInv, PeerSendsMessage
    PROVE  IInv'
<1>1. PICK m \in PeerMessages : Sends("messages", Message(m[1], MSG_CMD, m[2]))
  BY DEF PeerSendsMessage
<1>2. awaiting' = awaiting /\ peer' = peer /\ peer \in PeerStates
  BY InvariantParts DEF PeerSendsMessage, OthersOK
<1>3. IsContent(m[1], MSG_CMD, m[2])
  <2>1. PICK type, params : type = m[1] /\ params = m[2]
    OBVIOUS
  <2>2. type \in Octet /\ type % 4 = 0 /\ type # PN
    BY <2>1, SessionAssumption
  <2>3. params \in Seq(Octet) /\ Len(params) <= 125 /\ (type = MSC => Len(params) \in {2, 3})
    BY <2>1, SessionAssumption
  <2>4. Len(params) \in 0..125
    <3>1. PICK n \in Nat : n = Len(params)
      BY <2>3, LenProperties
    <3>2. n <= 125
      BY <2>3, <3>1, Zenon
    <3>3. n \in 0..125
      BY <3>2
    <3>. QED  BY <3>1, <3>3, Zenon
  <2>5. type \in 0..255
    BY <2>2 DEF Octet
  <2>6. MSG_CMD \in {0, 1}
    BY DEF MSG_CMD
  <2>. QED  BY <2>1, <2>2, <2>3, <2>4, <2>5, <2>6, Zenon DEF IsContent
<1>4. PICK f : f = Message(m[1], MSG_CMD, m[2]) /\ Sends("messages", f)
  BY <1>1
<1>5. f \in Incoming /\ Type(f) = UIH
  BY <1>3, <1>4, PeerMessage
<1>. QED  BY <1>2, <1>4, <1>5, UihKeeps

LEMMA DataStarted ==
    ASSUME IInv, PeerSendsData
    PROVE  IInv'
<1>1. PICK credits \in CreditsSent :
          Sends("data", PeerFrame(DataDlci, MSG_CMD, UIH, credits, <<65>>))
  BY DEF PeerSendsData, CreditsSent
<1>2. awaiting' = awaiting /\ peer' = peer /\ peer \in PeerStates
  BY InvariantParts DEF PeerSendsData, OthersOK
<1>3. PICK f : f = PeerFrame(DataDlci, MSG_CMD, UIH, credits, <<65>>) /\ Sends("data", f)
  BY <1>1
<1>4. f \in Incoming /\ Type(f) = UIH
  BY <1>3, PeerSendsOctet DEF DataSent
<1>. QED  BY <1>2, <1>3, <1>4, UihKeeps

LEMMA StartsKeep ==
    ASSUME IInv, PeerStarts
    PROVE  IInv'
<1>1. CASE PeerOpensMux
  BY <1>1, CommandKeeps DEF PeerOpensMux
<1>2. CASE PeerOpensData
  BY <1>2, CommandKeeps DEF PeerOpensData
<1>3. CASE PeerCloses
  BY <1>3, CommandKeeps DEF PeerCloses
<1>4. CASE PeerAsksPn
  BY <1>4, PnAsked
<1>5. CASE PeerSendsMessage
  BY <1>5, MessageStarted
<1>6. CASE PeerSendsData
  BY <1>6, DataStarted
<1>. QED  BY <1>1, <1>2, <1>3, <1>4, <1>5, <1>6 DEF PeerStarts

LEMMA StutterKeeps ==
    ASSUME IInv, UNCHANGED vars
    PROVE  IInv'
<1>1. /\ buf' = buf /\ pn_config' = pn_config /\ rfcomm_state' = rfcomm_state
      /\ rfcomm_state_transition' = rfcomm_state_transition /\ credit_cnt' = credit_cnt
      /\ connect_initiate' = connect_initiate /\ peer' = peer /\ awaiting' = awaiting
      /\ toPeer' = toPeer /\ toDev' = toDev
  BY DEF vars, device, others
<1>2. /\ OthersOK /\ DeviceOK /\ buf \in Buffer /\ BufferQuiet
      /\ toDev \in Seq(Incoming) /\ toPeer \in Seq(Outgoing) /\ UaInOrder
  BY InvariantParts
<1>3. OthersOK' /\ DeviceOK' /\ BufferQuiet'
  BY <1>1, <1>2 DEF OthersOK, DeviceOK, BufferQuiet
<1>4. UaInOrder'
  BY <1>1, <1>2, Zenon DEF UaInOrder
<1>. QED  BY <1>1, <1>2, <1>3, <1>4, InvariantNext

\* One step per action.
LEMMA StepKeeps == IInv /\ [Next]_vars => IInv'
<1>. SUFFICES ASSUME IInv, [Next]_vars PROVE IInv'
  OBVIOUS
<1>1. CASE Handler
  BY <1>1, HandlerAnswers
<1>2. CASE rfcomm_connect_request
  BY <1>2, PressKeeps
<1>3. CASE PeerReceives
  <2>1. CASE PeerGetsSabm
    BY <2>1, SabmAnswered
  <2>2. CASE PeerGetsUa
    BY <2>2, UaTaken
  <2>3. CASE PeerGetsPnCommand
    BY <2>3, PnCommandAnswered
  <2>4. CASE PeerGetsPnResponse
    BY <2>4, PnResponseTaken
  <2>5. CASE PeerGetsMscCommand
    BY <2>5, MscCommandAnswered
  <2>6. CASE PeerGetsRpnCommand
    BY <2>6, RpnCommandAnswered
  <2>7. CASE PeerGetsOther
    BY <2>7, OtherTaken
  <2>. QED  BY <1>3, <2>1, <2>2, <2>3, <2>4, <2>5, <2>6, <2>7 DEF PeerReceives
<1>4. CASE PeerStarts
  BY <1>4, StartsKeep
<1>5. CASE UNCHANGED vars
  BY <1>5, StutterKeeps
<1>. QED  BY <1>1, <1>2, <1>3, <1>4, <1>5 DEF Next

\* The invariant holds in every state.
LEMMA SessionInvariant == Spec => []IInv
<1>. QED  BY InvariantStarts, StepKeeps, PTL DEF Spec

\* Every frame to the peer is one of the device.
LEMMA OutgoingAlways ==
    ASSUME IInv, NEW n \in DOMAIN toPeer
    PROVE  toPeer[n] \in Outgoing
<1>1. toPeer \in Seq(Outgoing)
  BY InvariantParts
<1>. QED  BY <1>1, ElementOfSeq, LenProperties

\* The state of the session stays what the macros of rfcomm.h store, the counter of
\* data frames never passes MAX_CREDIT_CNT, and every frame under way to the device
\* is of a type that process_l2cap_pkt has a case for (l2cap.c:744-1300).
THEOREM SessionTypes == Spec => []TypeOK
<1>1. IInv => TypeOK
  BY DEF IInv
<1>. QED  BY <1>1, SessionInvariant, PTL

\* Every frame the device sends is one to its reader: its length octet announces
\* what L2CAP was given, and the octet where the header puts the sum is that of the
\* polynomial (set_rfcomm_fcs, get_rfcomm_pkt_size, rfcomm.c:589-651).
THEOREM FramesAreReadable == Spec => []FramesReadable
<1>1. ASSUME IInv PROVE FramesReadable
  <2>1. ASSUME NEW n \in DOMAIN toPeer, NEW f, f = toPeer[n]
        PROVE  /\ f[1] % 2 = 1 /\ f[3] % 2 = 1 /\ Type(f) \in FrameTypes
               /\ Len(f) = 4 + CreditOctets(f) + f[3] \div 2
               /\ f[Len(f)] = ReferenceFcs(SubSeq(f, 1, IF Type(f) = UIH THEN 2 ELSE 3))
    <3>1. f \in Outgoing
      BY <1>1, <2>1, OutgoingAlways
    <3>2. f \in Frame /\ SumGood(f)
      BY <3>1 DEF Outgoing
    <3>3. Type(f) \in FrameTypes
      BY <3>2, FrameType
    <3>. QED  BY <3>2, <3>3, Zenon DEF Frame, SumGood
  <2>. QED  BY <2>1, Zenon DEF FramesReadable
<1>. QED  BY <1>1, SessionInvariant, PTL

\* Every frame on DLCI 0 holds the whole message in it: our MSC goes out in a frame
\* of the length of the peer's, which may have a break octet more but is never
\* shorter (l2cap.c:1206-1212).
THEOREM MessagesAreWhole == Spec => []MessagesWhole
<1>1. ASSUME IInv PROVE MessagesWhole
  <2>1. ASSUME NEW n \in DOMAIN toPeer, NEW f, f = toPeer[n],
               Type(f) = UIH, Dlci(f) = MSG_DLCI
        PROVE  /\ Len(Info(f)) >= 2
               /\ Info(f)[1] % 2 = 1 /\ Info(f)[2] % 2 = 1
               /\ 2 + Info(f)[2] \div 2 <= Len(Info(f))
    <3>1. f \in Outgoing /\ ForMux(f)
      BY <1>1, <2>1, OutgoingAlways DEF ForMux
    <3>2. f[4] % 2 = 1 /\ f[5] % 2 = 1 /\ 6 + f[5] \div 2 <= Len(f)
      BY <3>1, SMTT(30) DEF Outgoing, MessageStart
    <3>3. PICK len \in 6..131 : len = Len(f) /\ Len(Info(f)) = len - 4
                                /\ \A i \in 1..len - 4 : Info(f)[i] = f[3 + i]
      BY <3>1, InfoRead
    <3>4. Info(f)[1] = f[4] /\ Info(f)[2] = f[5]
      <4>1. 1 \in 1..len - 4 /\ 2 \in 1..len - 4 /\ 3 + 1 = 4 /\ 3 + 2 = 5
        OBVIOUS
      <4>. QED  BY <3>3, <4>1, Zenon
    <3>5. PICK l : l = f[5] \div 2 /\ 6 + l <= len
      BY <3>2, <3>3
    <3>6. l \in Int
      <4>1. f \in Seq(Octet)
        BY <3>1 DEF Outgoing, Frame
      <4>2. Len(f) = len /\ Len(f) >= 4 /\ 5 \in 1..Len(f)
        BY <3>3
      <4>3. \A i \in 1..Len(f) : f[i] \in 0..255
        BY <4>1, <4>2, FrameOctets
      <4>4. f[5] \in 0..255
        BY <4>2, <4>3, Zenon
      <4>. QED  BY <3>5, <4>4
    <3>7. Len(Info(f)) >= 2 /\ 2 + l <= Len(Info(f))
      <4>1. len - 4 >= 2 /\ 2 + l <= len - 4
        BY <3>5, <3>6
      <4>. QED  BY <3>3, <4>1, Zenon
    <3>. QED  BY <3>2, <3>4, <3>5, <3>7, Zenon
  <2>. QED  BY <2>1, Zenon DEF MessagesWhole
<1>. QED  BY <1>1, SessionInvariant, PTL

\* Every SABM and DISC of the peer gets one UA, on its own DLCI and in the order
\* they were sent, however many are under way at once: the handlers answer each from
\* the buffer it came in (l2cap.c:761-809, 872-915).
THEOREM EveryCommandGetsItsUa == Spec => []UaInOrder
<1>1. IInv => UaInOrder
  BY DEF IInv
<1>. QED  BY <1>1, SessionInvariant, PTL

\* The device never sends a SABM for a channel an earlier packet has left in the
\* buffer, nor a PN command with an earlier packet's octet for its timer, though it
\* writes neither (rfcomm.c:198, 347; the memset of hci.c:913, 925).
THEOREM NothingGoesStale == Spec => []NothingStale
<1>1. ASSUME IInv PROVE NothingStale
  <2>1. ASSUME NEW n \in DOMAIN toPeer, NEW f, f = toPeer[n]
        PROVE  /\ Type(f) = SABM => Dlci(f) = MSG_DLCI
               /\ Holds(f, PN, MSG_CMD) => Params(f)[1 + ACK_TIMER_OFFSET] = 0
    <3>1. f \in Outgoing
      BY <1>1, <2>1, OutgoingAlways
    <3>2. Type(f) = SABM => Dlci(f) = MSG_DLCI
      BY <3>1 DEF Outgoing
    <3>3. ASSUME Holds(f, PN, MSG_CMD) PROVE Params(f)[1 + ACK_TIMER_OFFSET] = 0
      <4>1. /\ ForMux(f) /\ f[4] = PN + 2 * MSG_CMD + 1
            /\ \A k \in 1..f[5] \div 2 : Params(f)[k] = f[5 + k]
        BY <3>1, <3>3, ParamsRead
      <4>2. f[4] = PN + 3
        <5>1. PN + 2 * MSG_CMD + 1 = PN + 3
          BY DEF PN, MSG_CMD
        <5>. QED  BY <4>1, <5>1, Zenon
      <4>3. PnGood(f)
        BY <3>1, <4>1, <4>2 DEF Outgoing
      <4>4. f[5] = 17 /\ f[9] = 0
        BY <4>2, <4>3 DEF PnGood
      <4>5. 17 \div 2 = 8 /\ 4 \in 1..8 /\ 5 + 4 = 9
        OBVIOUS
      <4>6. Params(f)[4] = f[9]
        BY <4>1, <4>4, <4>5, Zenon
      <4>7. 1 + ACK_TIMER_OFFSET = 4
        BY DEF ACK_TIMER_OFFSET
      <4>. QED  BY <4>4, <4>6, <4>7, Zenon
    <3>. QED  BY <3>2, <3>3
  <2>. QED  BY <2>1, Zenon DEF NothingStale
<1>. QED  BY <1>1, SessionInvariant, PTL
=============================================================================
