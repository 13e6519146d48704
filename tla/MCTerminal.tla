------------------------------ MODULE MCTerminal ------------------------------
(***************************************************************************)
(* A panel of two sizes, and a shell that writes text, wide glyphs, parts  *)
(* of sequences and whole ones.                                            *)
(***************************************************************************)
EXTENDS Terminal

PanelSizes == {[height |-> 4, width |-> 2], [height |-> 3, width |-> 3]}
SmallWindow == [height |-> 1, width |-> 1]

\* ESC [ then the parameters, then the final byte.
Sequence(params, final) == <<"ESC", "[">> \o params \o <<final>>
ShellOutputs ==
  { <<"a", "a", "LF", "a", "LF">>, <<"E4", "80">>, <<"80", "a", "BS", "TAB">>,
    Sequence(<<"1", ";", "2">>, "r"), Sequence(<<"2", ";">>, "H"), <<"ESC", "[", "2">>,
    <<"S", "ESC", "M">>,
    Sequence(<<"?", "7">>, "l"), Sequence(<<"1", ";", "3", "8", ";", "5", ";", "2", "0">>, "m"),
    <<"ESC", "7">>, <<"ESC", "8">>, <<"ESC", "c">>,
    <<"ESC", "]", "2", ";", "a", "ESC">>, <<"\\", "a">> }
===============================================================================
