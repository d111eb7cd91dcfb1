---------------------------- MODULE MCServerLoop ----------------------------
(* ServerLoop with three connections, each of which may send QUIT: one     *)
(* sends two lines, one sends a line, and one only comes and goes.         *)
EXTENDS ServerLoop, TLC

CONSTANTS a, b, c          \* connections

MCThree == {a, b, c}
MCMaxLines == a :> 2 @@ b :> 1 @@ c :> 0

MCWord == {"QUIT", "HELP"}
MCNumeral == {}
MCValueOf == << >>
MCLine == {<<"QUIT">>, <<"HELP">>}
MCHelp == {<<"HELP">>}

=============================================================================
