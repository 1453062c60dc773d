---------------------------- MODULE MCLLMSession ----------------------------
(* Two traces of one agent and one of another.  The outputs of the first two  *)
(* differ only in what cleaning removes, so their prompts are the same.      *)
EXTENDS LLMSession

MCTrace(agent, outputs, goal) ==
  [agent |-> agent, outputs |-> outputs, responses |-> outputs, agentOutputs |-> << >>,
   output |-> IF outputs = << >> THEN NoText ELSE outputs[1], results |-> << >>,
   goal |-> goal, plan |-> goal, actions |-> IF goal = NoText THEN << >> ELSE <<"search">>,
   execution |-> IF goal = NoText THEN << >> ELSE <<"search">>, baseline |-> NoText]

MCTraces == <<MCTrace("a1", <<"a", "b">>, "g"), MCTrace("a1", <<"a*", "b">>, NoText),
              MCTrace("a2", <<"a*">>, NoText)>>
MCClean == [t \in {"a", "a*", "b", "g", "search", "none", "filler"} |-> IF t = "a*" THEN "a" ELSE t]
MCFar == {<<"a", "a*">>, <<"a*", "a">>}
=============================================================================
