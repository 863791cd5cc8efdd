------------------------------ MODULE MCPipeline -----------------------------
(***************************************************************************)
(* Instances of Pipeline for TLC.                                          *)
(***************************************************************************)
EXTENDS Pipeline

ListAndFilter == [s \in Calls |-> {<<"ls", "cat">>}]
(* Call 1 runs a pipeline, one that fails among them; call 2 a single command, whose *)
(* process may inherit what call 1 has open.                                         *)
SeveralPipelines ==
  << {<<"ls", "head">>, <<"ls", "false">>, <<"ls", "cat", "cat">>,
     <<"ls", "cd">>, <<"exit", "cat">>},
    {<<"ls">>} >>
=============================================================================
