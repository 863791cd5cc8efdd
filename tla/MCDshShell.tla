----------------------------- MODULE MCDshShell -----------------------------
(***************************************************************************)
(* Instances of DshShell for TLC.                                          *)
(***************************************************************************)
EXTENDS DshShell

(* Every line of up to three symbols, and lines written from up to four arguments. *)
Symbols == {" ", "f", "<", ">", Quote, "|"}
ShortLines == UNION {[1..n -> Symbols] : n \in 0..3}
ArgumentLines == {WrittenLine[a] : a \in DOMAIN WrittenLine}
Redirecting == {Redirected(a) : a \in {b \in DOMAIN WrittenLine : Len(b) < ArgvMax}} \cup
               {<<"cat", ">", "f">>, <<"echo", " ", "d", " ", ">", " ", "f">>, <<"echo", ">", ">", "f">>,
                <<"nope", ">", "f">>, <<"cat", " ", "<", " ", "f">>, <<"echo", ">", "f", "<", "f">>,
                <<"cat", "<", " ", "f", " ", ">", "g">>,
                <<"cat", ">", ">", " ", ".", "/", "f">>, <<"echo", " ", "d", " ", ">", ">", " ", "f">>, <<"cat", "<", "d">>}
Others == {<<>>, <<" ">>, <<"exit">>, <<"cd", " ", "d">>, <<"rc">>, <<"cat", " ", "f">>,
           <<"echo", "|", "cat">>, <<"echo", "|", "cd", " ", "d">>, <<"exit", "|", "cat">>,
           <<"cat", "|", "cat", "|", "cat">>, <<"|", "exit">>, <<" ", "|", "cd", " ", "d">>,
           <<"cat", " ", " ", " ">>, <<"echo", " ", "cat", " ", "f">>}
Firsts == ShortLines \cup ArgumentLines \cup Redirecting \cup Others
Laters == {<<" ">>, <<"exit">>, <<"cd", " ", "d">>, <<"cat", "<", "f">>, <<"cat", " ", "f">>,
           <<"echo", " ", "d", ">", ">", "f">>, <<"echo", ">", ">", ".", "/", "f">>, <<"exit", "|", "cat">>, <<"cat", "|", "rc">>}
RedirectThenShow == {<<"echo", " ", "d", ">", "f">>, <<"cat", " ", "f">>}
=============================================================================
