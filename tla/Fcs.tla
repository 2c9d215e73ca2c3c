-------------------------------- MODULE Fcs ---------------------------------
(* The frame check sequence of RFCOMM: the table driven sum of rfcomm.c, and *)
(* the bit by bit definition of TS 07.10 it stands for.  A sequence of octets *)
(* is what the code reads through rfcomm_pkt_buff and len.                    *)
EXTENDS Integers, SequencesExt

Octet == 0..255

\* The bit of weight w.
Bit(n, w) == (n \div w) % 2

\* n ^ m, of octets.
Xor(n, m) ==
    LET bit(w) == w * ((Bit(n, w) + Bit(m, w)) % 2)
    IN  bit(1) + bit(2) + bit(4) + bit(8) + bit(16) + bit(32) + bit(64) + bit(128)

crctable == <<
    \h00, \h91, \hE3, \h72, \h07, \h96, \hE4, \h75, \h0E, \h9F, \hED, \h7C, \h09, \h98, \hEA, \h7B,
    \h1C, \h8D, \hFF, \h6E, \h1B, \h8A, \hF8, \h69, \h12, \h83, \hF1, \h60, \h15, \h84, \hF6, \h67,
    \h38, \hA9, \hDB, \h4A, \h3F, \hAE, \hDC, \h4D, \h36, \hA7, \hD5, \h44, \h31, \hA0, \hD2, \h43,
    \h24, \hB5, \hC7, \h56, \h23, \hB2, \hC0, \h51, \h2A, \hBB, \hC9, \h58, \h2D, \hBC, \hCE, \h5F,
    \h70, \hE1, \h93, \h02, \h77, \hE6, \h94, \h05, \h7E, \hEF, \h9D, \h0C, \h79, \hE8, \h9A, \h0B,
    \h6C, \hFD, \h8F, \h1E, \h6B, \hFA, \h88, \h19, \h62, \hF3, \h81, \h10, \h65, \hF4, \h86, \h17,
    \h48, \hD9, \hAB, \h3A, \h4F, \hDE, \hAC, \h3D, \h46, \hD7, \hA5, \h34, \h41, \hD0, \hA2, \h33,
    \h54, \hC5, \hB7, \h26, \h53, \hC2, \hB0, \h21, \h5A, \hCB, \hB9, \h28, \h5D, \hCC, \hBE, \h2F,
    \hE0, \h71, \h03, \h92, \hE7, \h76, \h04, \h95, \hEE, \h7F, \h0D, \h9C, \hE9, \h78, \h0A, \h9B,
    \hFC, \h6D, \h1F, \h8E, \hFB, \h6A, \h18, \h89, \hF2, \h63, \h11, \h80, \hF5, \h64, \h16, \h87,
    \hD8, \h49, \h3B, \hAA, \hDF, \h4E, \h3C, \hAD, \hD6, \h47, \h35, \hA4, \hD1, \h40, \h32, \hA3,
    \hC4, \h55, \h27, \hB6, \hC3, \h52, \h20, \hB1, \hCA, \h5B, \h29, \hB8, \hCD, \h5C, \h2E, \hBF,
    \h90, \h01, \h73, \hE2, \h97, \h06, \h74, \hE5, \h9E, \h0F, \h7D, \hEC, \h99, \h08, \h7A, \hEB,
    \h8C, \h1D, \h6F, \hFE, \h8B, \h1A, \h68, \hF9, \h82, \h13, \h61, \hF0, \h85, \h14, \h66, \hF7,
    \hA8, \h39, \h4B, \hDA, \hAF, \h3E, \h4C, \hDD, \hA6, \h37, \h45, \hD4, \hA1, \h30, \h42, \hD3,
    \hB4, \h25, \h57, \hC6, \hB3, \h22, \h50, \hC1, \hBA, \h2B, \h59, \hC8, \hBD, \h2C, \h5E, \hCF >>

\* FCS = crctable[FCS ^ octet] for each octet, from 0xFF.
Crc(octets) ==
    LET crc[n \in 0..Len(octets)] ==
            IF n = 0 THEN \hFF ELSE crctable[Xor(crc[n - 1], octets[n]) + 1]
    IN  crc[Len(octets)]

create_fcs(octets) == \hFF - Crc(octets)

verify_fcs(octets, recvd_fcs) == Crc(Append(octets, recvd_fcs)) = \hCF

-----------------------------------------------------------------------------
(* The reference: the polynomial x^8 + x^2 + x + 1, reversed, one bit a step. *)
Shift(crc) == IF crc % 2 = 1 THEN Xor(crc \div 2, \hE0) ELSE crc \div 2

EightBits(octet) ==
    LET step[n \in 0..8] == IF n = 0 THEN octet ELSE Shift(step[n - 1])
    IN  step[8]

ReferenceTable == [octet \in Octet |-> EightBits(octet)]

ReferenceFcs(octets) ==
    LET crc[n \in 0..Len(octets)] ==
            IF n = 0 THEN \hFF ELSE ReferenceTable[Xor(crc[n - 1], octets[n])]
    IN  \hFF - crc[Len(octets)]

\* Of the 256 numbers of the table: they are octets, each is the eight steps of
\* its index, and the value verify_fcs looks for stands at one place.
ASSUME TableAssumption ==
    /\ crctable \in [1..256 -> Octet]
    /\ \A n \in Octet : crctable[n + 1] = ReferenceTable[n]
    /\ \A n \in Octet : crctable[n + 1] = \hCF <=> n = 255
=============================================================================
