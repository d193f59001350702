--------------------------- MODULE MCSliceDecode ---------------------------
(* Instances of SliceDecode for TLC: a team of two or three threads and the chunks
   libgomp's schedule(static) gives it: consecutive iterations, the first n mod t
   threads of the team having one more than the others.                         *)
EXTENDS SliceDecode, TLC

CONSTANTS t1, t2, t3

TwoThreads == {t1, t2}
ThreeThreads == {t1, t2, t3}

StaticSchedule(team, n) ==
  LET size == Len(team)
      Share(r) == n \div size + (IF r <= n % size THEN 1 ELSE 0)
      first[r \in 1 .. size + 1] == IF r = 1 THEN 0 ELSE first[r - 1] + Share(r - 1)
  IN  [s \in 0 .. n - 1 |->
         team[CHOOSE r \in 1 .. size : first[r] <= s /\ s < first[r + 1]]]

FourOverTwo == StaticSchedule(<<t1, t2>>, 4)
FourOverThree == StaticSchedule(<<t1, t2, t3>>, 4)
=============================================================================
