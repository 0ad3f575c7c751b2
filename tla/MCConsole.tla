----------------------------- MODULE MCConsole ------------------------------
(* Three rows of text of four columns between the title's row and the row that *)
(* is never used, with tabs every two columns; the firmware has left blanks or   *)
(* something else. The lines are shorter than a row, fill it exactly, run over    *)
(* into the next by a character or a tab, and hold blanks and line breaks.        *)
EXTENDS Console

M(t, s) == [type |-> t, text |-> s]

MCMessages ==
    {M("default", <<"a", "\t", "b">>), M("default", <<"a", "b", "a">>),
     M("default", <<"a", "b", "", "b", "b">>), M("default", <<"a", "\n", "b", "\n">>),
     M("no_newline", <<"b">>), M("error", <<"b", "a", "\t">>)}

MCChar     == {"", "\t", "\n", "T", "I", "p", "a", "b", "."}
MCTitle    == <<"T", "I">>
MCPrefix   == <<"p">>
MCDots     == <<".", ".">>
MCLeftover == {"", "?"}
=============================================================================
