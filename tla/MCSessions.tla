----------------------------- MODULE MCSessions -----------------------------
(* Instances of Sessions: strings of at most two bytes, a terminator of    *)
(* one, and a log area that two or three runs fill.                        *)
EXTENDS Sessions

MCChars == {"a", "e"}
MCTexts == { <<>>, <<"a">>, <<"a", "e">> }
MCEofText == <<"e">>
=============================================================================
