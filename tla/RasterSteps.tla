----------------------------- MODULE RasterSteps -----------------------------
(* The steps that Raster's slices are made of, and the arithmetic of the modules that
   list them.  A cell is a sample, <<row, column>>, or a cell of a line buffer.

     writes   cells that get new content        drops    cells whose content is void now
     reads    cells whose content is used       copies   [target |-> source], all at once
     takes    units of the input       loads    samples of the image it starts from
   A step that changes samples in place reads them.                               *)
EXTENDS Integers, Sequences, FiniteSets, SequencesExt

Step(writes, reads, takes) ==
  [writes |-> writes, reads |-> reads, takes |-> takes, loads |-> {}, drops |-> {},
   copies |-> << >>]

Write(writes) == Step(writes, {}, {})
Read(reads) == Step({}, reads, {})
Drop(drops) == [Write({}) EXCEPT !.drops = drops]
Copy(copies) == [Write({}) EXCEPT !.copies = copies]

CeilDiv(a, b) == (a + b - 1) \div b
Least(a, b) == IF a < b THEN a ELSE b

Row(y, first, width) == {<<y, x>> : x \in first .. first + width - 1}
Rectangle(x, y, w, h) == (y .. y + h - 1) \X (x .. x + w - 1)

(* The steps for i = 0 .. n - 1, one after the other; each a sequence of steps.     *)
ForEach(n, Steps(_)) == FlattenSeq([i \in 1 .. n |-> Steps(i - 1)])
=============================================================================
