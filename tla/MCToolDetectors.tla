--------------------------- MODULE MCToolDetectors ---------------------------
(* Values of the constants of ToolDetectors for TLC. *)
EXTENDS ToolDetectors, SequencesExt

CONSTANTS Search, Fetch, Poll, Query, Page, Hit, Miss

MCOrder ==
  <<"loop", "pattern_loop", "argument_loop", "tool_error_rate",
    "specific_tool_error", "tool_latency", "tool_timeout",
    "redundant_tool_call", "per_tool_cost_spike", "wasted_tool_calls",
    "recovery_path">>

Call(t, a, r, f, ms) == [tool |-> t, args |-> a, result |-> r, failed |-> f, ms |-> ms]

\* A plain call, one with another result that fails, one with other arguments
\* that is slow, another tool with the same result, no tool name, no arguments
\* and no result, a polled tool without a duration.
Few == {Call(Search, Query, Hit, FALSE, 1),
        Call(Search, Query, Miss, TRUE, 1),
        Call(Fetch, Query, Hit, TRUE, 2)}
Many == Few \cup
       {Call(Search, Page, Hit, FALSE, 9),
        Call(Blank, Query, Hit, FALSE, 1),
        Call(Search, NoArgs, NoResult, FALSE, 1),
        Call(Poll, Query, Hit, FALSE, 0)}

\* All short traces of many kinds of calls, and longer ones of three.
MCTraces == BoundedSeq(Many, 4) \cup BoundedSeq(Few, 6)

MCThreshold ==
  [d \in Streaks |-> IF d = "redundant_tool_call" THEN 3 ELSE 2]

=============================================================================
