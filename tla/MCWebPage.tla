----------------------------- MODULE MCWebPage -----------------------------
(* Values of the constants of WebPage for TLC. *)
EXTENDS WebPage

CONSTANTS p1, p2, p3
MCParams == {p1, p2, p3}
=============================================================================
