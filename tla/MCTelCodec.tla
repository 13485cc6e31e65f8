----------------------------- MODULE MCTelCodec -----------------------------
(***************************************************************************)
(* TelCodec for TLC: a short and a long text, and service centre numbers   *)
(* of up to 16 digits with and without a plus.                             *)
(***************************************************************************)
EXTENDS TelCodec

FewTexts == {<<1>>, <<2, 2, 2>>}

DigitRows == {[i \in 1 .. n |-> i % 10] : n \in 1 .. 16}

BothForms == DigitRows \cup {<<Plus>> \o d : d \in DigitRows}
=============================================================================
