---------------------------- MODULE MCSdsString ----------------------------
(***************************************************************************)
(* SdsString for TLC: headers of 2, 5 and 11 bytes and one that holds any  *)
(* text of the run; pieces with a NUL, a control character, quotes,        *)
(* blanks, a backslash and what can follow it, digits and a minus sign.    *)
(***************************************************************************)
EXTENDS SdsString

MCWidth == <<3, 6, 12, 200>>

MCChunk == {<< >>, <<45>>, <<50, 53>>, <<56>>, <<92>>, <<34, 0>>}

Arg(kind, data) == [kind |-> kind, arg |-> kind # "char", data |-> data]

MCFormats == {<<Arg("char", <<39>>), Arg("i", sdsll2str(-8))>>,
              <<Arg("s", <<1, 88>>), Arg("%", <<37>>)>>}

MCSets == {{34, 49}, {}}

MCPositions == {-6, -2, 0, 1, 5}

MCNumbers == {-128, 127, 0}
=============================================================================
