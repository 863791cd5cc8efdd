---------------------------- MODULE MCRshSession ----------------------------
(***************************************************************************)
(* Instances of RshSession for TLC.                                        *)
(***************************************************************************)
EXTENDS RshSession

(* A line cut in two by the stream: its second half becomes a command of its own, *)
(* or input of the program the first half has started.                           *)
SomeSplits == {<<"ls", "ls", "nosuch">>, <<"cat", "cat", "nosuch">>}
NoSplits == {}
=============================================================================
