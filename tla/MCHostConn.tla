----------------------------- MODULE MCHostConn -----------------------------
(* HostConn for TLC: calls are model values; the foreground ones are        *)
(* interchangeable.                                                         *)
EXTENDS HostConn, TLC

ForegroundSymmetry == Permutations(Calls \ Background)
=============================================================================
