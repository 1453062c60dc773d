---------------------------- MODULE MCValidator ----------------------------
(* Instances of Validator: two of the traces are two runs of one trace, one *)
(* run is on disk twice, and the detectors of the loop family fire in the   *)
(* combinations the deduplication tells apart.                              *)
EXTENDS Validator, TLC

MCItems == 1 .. 4

MCKey == 1 :> <<"a", "r">> @@ 2 :> <<"b", "r">> @@ 3 :> <<"b", "s">> @@ 4 :> <<"a", "r">>

MCTypes == LoopFamily \cup {"step_efficiency", "output_drift"}

MCHits ==
     1 :> {"pattern_loop"}
  @@ 2 :> {"argument_loop", "step_efficiency"}
  @@ 3 :> {"loop", "pattern_loop", "output_drift"}
  @@ 4 :> {"pattern_loop"}

MCLlmTypes == {"output_drift"}
=============================================================================
