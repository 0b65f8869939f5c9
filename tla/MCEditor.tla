------------------------------ MODULE MCEditor ------------------------------
(* Two people; cells with what CSV escapes, a file with what it infers.     *)
EXTENDS Editor

SomeSymbols == {"\"", ",", "\n", "\r", "0", "1", "true", "false", "yes", "no", "x"}
Nasty == {<<"\"", ",", "\n">>}
SomeFiles == {<<"x", ",", "x", "\n", "yes", ",", "1", "\n">>}
==============================================================================
