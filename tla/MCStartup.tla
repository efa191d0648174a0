----------------------------- MODULE MCStartup -----------------------------
(* Model checking of Startup.                                               *)
EXTENDS Startup

CONSTANTS d1, d2, p1, p2, scan, c1

TwoDaemons == {d1, d2}
TwoPids == {p1, p2}
OneTask == {scan}
OneContent == {c1}
=============================================================================
