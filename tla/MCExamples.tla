----------------------------- MODULE MCExamples -----------------------------
(* An instance of Examples for TLC: a text that fits and one that is cut.  *)
EXTENDS Examples

MCBytes == {"f", "x", "a", "b", "c"}
MCFoo == <<"f">>
MCTexts == {<<"x">>, <<"a", "b", "c">>}
=============================================================================
