-------------------------- MODULE MCRfcommSession ---------------------------
(* An instance of RfcommSession for TLC.                                     *)
EXTENDS RfcommSession

\* Signals, with a break octet or without; port parameters.
SignalsAndParameters ==
    {<<MSC, <<4 * DataDlci + 3, 141>>>>, <<MSC, <<4 * DataDlci + 3, 140, 3>>>>,
     <<RPN, <<4 * DataDlci + 3, 7, 3, 0, 17, 19, 127, 63>>>>}
=============================================================================
