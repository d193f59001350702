----------------------------- MODULE MCVC5Tasks -----------------------------
(* Instances of VC5Tasks for TLC: no bad band, one of the upper wavelet, or two of the
   lower one: the second may fail after the first was logged, or not be decoded.  *)
EXTENDS VC5Tasks

SomeBad == bad \in {{}, {<<0, 1, 1>>}, {<<0, 2, 1>>, <<0, 2, 2>>}}

SomeBadInit == Init /\ SomeBad
SomeBadSpec == SomeBadInit /\ [][Next]_vars /\ WF_vars(Next)
=============================================================================
