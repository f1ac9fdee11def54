------------------------------ MODULE MCHoldTime ------------------------------
(* Instance of HoldTime for TLC: every mode, limits below, at and above a      *)
(* minute, both languages, with all texts and with those that may be missing.  *)
EXTENDS HoldTime

SomeTexts == {Texts, {"callsWaiting"}, {"holdTime", "moreThan"}}
SomeServices == [mode: Modes, min: {0, 40, 100}, max: {0, 90, 155}, lang: Languages, texts: SomeTexts]
SomeStarts == {0, 1000, 19990, 100000, 999900}
=============================================================================
