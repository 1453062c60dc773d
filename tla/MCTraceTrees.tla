---------------------------- MODULE MCTraceTrees ----------------------------
(* Two batches of one data set and one of another.  All lists of spans have  *)
(* the same trace id and the same few span ids.                              *)
EXTENDS TraceTrees

Data(op, from, keys) == [op |-> op, from |-> from, keys |-> keys]
Tool == Data("unknown", "tool", {"tool_response", "value", "start_time"})
Answer == Data("plan", "assistant", {"content", "input_tokens"})
Run == Data("invoke_agent", "none", {"cost_usd", "start_time", "end_time", "retry.count"})

X == <<"x">>  Y == <<"y">>  Z == <<"z">>
Item(id, parent, data) == [id |-> id, parent |-> parent, data |-> data]

Row(name, items) ==
  [lists |-> name :> items, trace |-> <<"t">>, raises |-> FALSE, data |-> Data("unknown", "none", {})]

Tree  == Row("spans", <<Item(X, NoParent, Run), Item(Y, X, Tool), Item(Z, X, Answer)>>)
Late  == Row("spans", <<Item(Y, X, Tool), Item(X, NoParent, Run)>>)
Cycle == Row("spans", <<Item(X, NoParent, Run), Item(Y, Z, Tool), Item(Z, Y, Answer)>>)
Ring  == Row("spans", <<Item(Y, Z, Tool), Item(Z, Y, Answer)>>)
Twice == Row("spans", <<Item(X, NoParent, Run), Item(X, NoParent, Run)>>)
Under == Row("spans", <<Item(X, NoParent, Run), Item(X, <<"w">>, Tool), Item(Y, X, Answer)>>)
Calls == Row("runs", <<Item(X, 0, Run), Item(Y, 1, Tool), Item(Z, 2, Answer), Item(<<"w">>, 1, Answer)>>)
Chat  == Row("messages", <<Item(X, X, Answer), Item(X, X, Tool)>>)
Steps == Row("steps", <<Item(X, X, Tool)>>)
Table == Row("list", <<Item(X, X, Tool)>>)
Plain == [lists |-> << >>, trace |-> Blank, raises |-> FALSE,
          data |-> Data("plan", "none", {"answer", "tool.args", "end_time"})]
Fails == [Tree EXCEPT !.raises = TRUE]
NoId  == [Tree EXCEPT !.trace = Blank]
Shadow == Row("spans", <<Item(X, NoParent, Run), Item(Y, X, Tool), Item(X, X, Answer)>>)

Both  == [Table EXCEPT !.lists = ("actions" :> <<Item(Y, Y, Answer)>>) @@ @]

Again == Row("spans", <<Item(X, X, Tool), Item(X, NoParent, Run), Item(Y, X, Answer)>>)

First == {Cycle, Shadow, Calls, Chat, Table, Plain, Fails}
Second == {Tree, Late, Ring, Again, Steps, NoId, Both}
Batch(d, rows) == [dataset |-> d, rows |-> rows]

MCCorpora == {<<Batch(1, <<r, s>>), Batch(2, <<t>>), Batch(1, <<Tree>>)>> :
                r \in First, s \in Second, t \in {Chat, Under, Twice}}
=============================================================================
