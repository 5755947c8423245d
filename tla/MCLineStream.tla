---------------------------- MODULE MCLineStream ----------------------------
(* Texts for TLC. *)
EXTENDS LineStream

\* Every text of up to four pieces.
ShortTexts == BoundedSeq({"nl", "sp", "x", "data:", "id:"}, 4)

\* Events of several fields and lines, one after the other.
LongTexts == {
    <<"data:", "x", "nl", "data:", "sp", "x", "x", "nl", "nl">>,
    <<"data:", "nl", "data:", "x", "nl", "data:", "nl", "nl">>,
    <<"id:", "x", "nl", "data:", "x", "nl", "nl", "id:", "x", "x", "nl", "nl">>,
    <<"event:", "sp", "x", "nl", "nl", "id:", "sp", "nl", "sp", "nl", "x">>,
    <<"x", "x", "nl", "x", "sp", "nl", "nl", "x", "data:", "nl", "x">>}

Texts == ShortTexts \cup LongTexts
=============================================================================
