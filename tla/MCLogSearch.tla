---------------------------- MODULE MCLogSearch -----------------------------
(* Texts for the searches of a file.                                       *)
EXTENDS LogSearch

Upto(n, chars) == UNION {[1 .. m -> chars] : m \in 0 .. n}

(* Comments and literals in every order.                                   *)
ShortTexts == Upto(6, {"/", "*", "nl", "q", "c"})
StarTexts  == Upto(7, {"/", "*", "nl", "c"})

(* Calls behind code and comments, with strings of every spelling.         *)
Openers    == {<<>>, <<"c">>, <<"/", "*">>, <<"/", "/">>, <<"/", "/", "c", "nl">>,
               <<"/", "*", "*", "/">>, <<"q", "c", "q">>}
Separators == {<<>>, <<"sp", "bs", "nl">>}
Bodies     == Upto(3, {"c", "bs", "q", "n", "nl"})
Joints     == {<<>>, <<"q", "q">>, <<"q", "nl", "q", "c">>, <<"q", "bs", "nl", "q">>}
Tails      == {<<"e">>, <<"e", "nl", "c">>, <<"sp", "e", "/", "/">>, <<"e", "*", "/", "c">>,
               <<"e", "L", "q", "n", "q", "e">>, <<"nl", "L", "q", "q", "e">>}

CallTexts == {o \o <<"L">> \o s \o <<"q">> \o b \o j \o <<"q">> \o t :
                o \in Openers, s \in Separators, b \in Bodies, j \in Joints, t \in Tails}

FileTexts == ShortTexts \cup CallTexts

=============================================================================
