------------------------------ MODULE MCTracing ------------------------------
(* Values of the constants of Tracing for TLC. *)
EXTENDS Tracing

\* A graph or a function, with two inner spans of which one captures content.
MCGraphCalls == {"graph"}
MCRawCalls == {"function"}
MCInner == {"plan", "tool"}
MCTools == {"tool"}
=============================================================================
