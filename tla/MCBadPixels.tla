----------------------------- MODULE MCBadPixels -----------------------------
(* Instances of BadPixels for TLC: a picture whose samples all differ from their
   neighbours, and the few pixels of it that may be bad.                          *)
EXTENDS BadPixels, TLC

CONSTANTS r1, r2

Recorders == {r1, r2}
Symmetric == Permutations(Recorders)

(* Zeroes are what is bad in the picture.                                         *)
Shade(x, y) == 1000 + ((7 * x + 13 * y) % 61) * 1000

Decoded == [s \in Sample |-> IF <<s[1], s[2]>> \in Candidate THEN 0 ELSE Shade(s[1], s[2])]

(* Neighbours in a row and in a column, in the rows of different workers, and at the
   borders of the picture.                                                        *)
Scattered == {<<0, 0>>, <<2, 2>>, <<4, 2>>, <<2, 4>>}
LastColumns == {<<5, 1>>, <<36, 1>>}
=============================================================================
