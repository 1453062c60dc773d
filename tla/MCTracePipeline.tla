--------------------------- MODULE MCTracePipeline ---------------------------
(* Values of the constants of TracePipeline for TLC. *)
EXTENDS TracePipeline

MCOrder == <<"hermes", "swe", "glaive">>

\* hermes and glaive end in the middle of a batch of two and swe with a full one;
\* glaive has nothing valid, so that its stream is read again and again.
MCRows ==
  [d \in Datasets |->
     CASE d = "hermes" -> <<"valid", "invalid", "valid", "valid", "valid">>
       [] d = "swe"    -> <<"valid", "valid", "valid", "valid">>
       [] d = "glaive" -> <<"invalid", "invalid", "invalid">>]
=============================================================================
