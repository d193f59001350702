----------------------------- MODULE MCDngImage -----------------------------
(* Instances of DngImage for TLC.                                                 *)
EXTENDS DngImage

OneComponent == {1}
OneOrThree == {1, 3}

TwoThenOne == <<2, 1>>
NoOpcodes == <<0, 0>>

\* a Bayer pattern, and one that is larger than dcraw's filters
Patterns == {Point(2, 2), Point(3, 3)}
NoPattern == {Point(1, 1)}
=============================================================================
