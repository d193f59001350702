------------------------------- MODULE RowCodecs -------------------------------
(* The decompressors that walk the image row by row: which samples they write in which
   order, which of those they have written they predict from, and how they cut their
   input.  The largest sizes the constructors allow are left out.

   A job:  w, h and, where the decompressor has such a thing,
           bps  split  offsets  up  motion  lowbits  strips  size                  *)
EXTENDS LJpegMarkers

CONSTANT SegmentSize     \* 256: the samples of a segment of Kodak's

ASSUME RowCodecsAssumption == SegmentSize \in Nat \ {0} /\ SegmentSize % 4 = 0

NotEmpty(j) == j.w > 0 /\ j.h > 0

WholeRow(y, j) == Row(y, 0, j.w)

(* Nikon: the rows below `split` are decoded with another table; all predict from two
   earlier samples that are kept aside.                                           *)
Split(j) == IF j.split >= j.h THEN 0 ELSE j.split

NikonAccepts(j) == NotEmpty(j) /\ j.w % 2 = 0 /\ j.bps \in {12, 14}

RowsFromTo(start, end, j) == [i \in 1 .. end - start |-> Write(WholeRow(start + i - 1, j))]

NikonWork(j) ==
  <<IF Split(j) = 0 THEN RowsFromTo(0, j.h, j)
                    ELSE RowsFromTo(0, Split(j), j) \o RowsFromTo(Split(j), j.h, j)>>

(* Pentax and Samsung V1: a row predicts from the first two samples two rows up.     *)
TwoUp(y) == IF y >= 2 THEN {<<y - 2, 0>>, <<y - 2, 1>>} ELSE {}

PentaxAccepts(j) == NotEmpty(j) /\ j.w % 2 = 0
SamsungV1Accepts(j) == NotEmpty(j) /\ j.w % 32 = 0 /\ j.h % 2 = 0 /\ j.bps = 12

TwoUpWork(j) == <<[i \in 1 .. j.h |-> Step(WholeRow(i - 1, j), TwoUp(i - 1), {})]>>

(* Hasselblad: pairs of samples, in a JPEG that need not have an EOI.  One component's
   table is used, and the predictor mode is not looked at.                        *)
HasselbladParsed(j) == Parsed(j.items, j, TRUE)

HasselbladScanAccepted(scan, j) ==
  scan.restart = 0 /\ scan.w = j.w /\ scan.h = j.h /\ DecodersExist(scan, 1)

HasselbladAccepts(j) ==
  /\ NotEmpty(j) /\ j.w % 2 = 0
  /\ Found(HasselbladParsed(j))
  /\ \A scan \in Range(HasselbladParsed(j).scans) : HasselbladScanAccepted(scan, j)

HasselbladWork(j) ==
  LET p == HasselbladParsed(j)
      pairs == ForEach(j.h, LAMBDA y : [k \in 1 .. j.w \div 2 |-> Write(Row(y, 2 * (k - 1), 2))])
  IN  <<MarkerSteps(0, j.items, p, [k \in DOMAIN p.scans |-> UseDecoders(0, p.scans[k], 1) \o pairs])>>

(* Kodak: segments, the last of a row as long as the row allows.                    *)
KodakAccepts(j) ==
  NotEmpty(j) /\ j.w % 4 = 0 /\ j.bps \in {10, 12} /\ (j.w * j.h) \div 2 <= j.size

KodakWork(j) ==
  <<ForEach(j.h, LAMBDA y :
      [k \in 1 .. CeilDiv(j.w, SegmentSize) |->
         LET col == SegmentSize * (k - 1)
         IN  Write(Row(y, col, Least(SegmentSize, j.w - col)))])>>
-----------------------------------------------------------------------------
(* Olympus: getPred()                                                             *)
OlympusReads(y, x) ==
  LET left == <<y, x - 2>>
      up == <<y - 2, x>>
      leftUp == <<y - 2, x - 2>>
  IN  CASE y < 2 /\ x < 2 -> {}
        [] y < 2 /\ x >= 2 -> {left}
        [] y >= 2 /\ x < 2 -> {up}
        [] OTHER -> {left, up, leftUp}

OlympusAccepts(j) == NotEmpty(j) /\ j.w % 2 = 0 /\ j.h % 2 = 0

OlympusWork(j) ==
  <<ForEach(j.h, LAMBDA y : [k \in 1 .. j.w |-> Step({<<y, k - 1>>}, OlympusReads(y, k - 1), {})])>>

(* Sony ARW1: columns from right to left; the even rows of a column, then the odd ones. *)
SonyArw1Accepts(j) == NotEmpty(j) /\ j.h % 2 = 0

EvenThenOdd(i, h) == IF 2 * i < h THEN 2 * i ELSE 2 * i - h + 1

SonyArw1Work(j) ==
  <<ForEach(j.w, LAMBDA c : [i \in 1 .. j.h |-> Write({<<EvenThenOdd(i - 1, j.h), j.w - 1 - c>>})])>>

(* Sony ARW2: 16 samples, every other one of 32, from 16 bytes; then the samples between
   them.  A row is a slice and has a byte for each of its samples.               *)
SonyArw2Accepts(j) == NotEmpty(j) /\ j.w % 32 = 0 /\ j.w * j.h <= j.size

GroupColumn(group) == 32 * (group \div 2) + (group % 2)

SonyArw2Work(j) ==
  [s \in 1 .. j.h |->
     [k \in 1 .. j.w \div 16 |->
        LET from == (s - 1) * j.w + 16 * (k - 1)
        IN  Step({<<s - 1, GroupColumn(k - 1) + 2 * i>> : i \in 0 .. 15}, {}, from .. from + 15)]]

(* Phase One: a strip for each row, in any order in the file.                       *)
PhaseOneAccepts(j) ==
  /\ NotEmpty(j) /\ j.w % 2 = 0
  /\ Len(j.strips) = j.h
  /\ LET sorted == SortSeq(j.strips, LAMBDA a, b : a < b)
     IN  \A i \in DOMAIN sorted : sorted[i] = i - 1

PhaseOneWork(j) == [s \in 1 .. j.h |-> [k \in 1 .. j.w |-> Write({<<s - 1, k - 1>>})]]
-----------------------------------------------------------------------------
(* Canon CRW: blocks of 64 samples in the order of rows, which need not end with one;
   then two low bits are put behind each sample, a byte of them for four samples.  *)
CrwAccepts(j) ==
  /\ NotEmpty(j) /\ j.w % 4 = 0 /\ (j.w * j.h) % 64 = 0
  /\ j.lowbits => (j.w * j.h) \div 4 <= j.size

CrwBlock(b, j) == {<<k \div j.w, k % j.w>> : k \in 64 * b .. 64 * b + 63}
CrwFour(n, j) == {<<k \div j.w, k % j.w>> : k \in 4 * n .. 4 * n + 3}

CrwWork(j) ==
  <<[b \in 1 .. (j.w * j.h) \div 64 |-> Write(CrwBlock(b - 1, j))] \o
    [n \in 1 .. (IF j.lowbits THEN (j.w * j.h) \div 4 ELSE 0) |->
       Step({}, CrwFour(n - 1, j), {n - 1})]>>

(* Samsung V0: a strip of the input for each row; `offsets` says where they begin.
   16 samples predict from above where that is allowed (job.up: the encoder chose to),
   else from the left; red and blue are swapped at the end.                      *)
SamsungV0Accepts(j) ==
  /\ NotEmpty(j) /\ j.w >= 16
  /\ Len(j.offsets) = j.h
  /\ LET ends == Append(j.offsets, j.size)
     IN  \A y \in 1 .. j.h : ends[y] < ends[y + 1]

MayGoUp(y, x, j) == y >= 2 /\ x + 16 < j.w

SamsungV0Block(y, x, j) ==
  LET Half(odd) == {<<y, x + c>> : c \in {d \in 0 .. 15 : d % 2 = odd /\ x + d < j.w}}
      Above(odd) == {<<p[1] - 1 - odd, p[2]>> : p \in Half(odd)}
      Left(odd) == IF x = 0 THEN {} ELSE {<<y, x - 2 + odd>>}
  IN  [i \in 1 .. 2 |->
         Step(Half(i - 1), IF j.up /\ MayGoUp(y, x, j) THEN Above(i - 1) ELSE Left(i - 1), {})]

SamsungV0Input(y, j) == j.offsets[y + 1] .. Append(j.offsets, j.size)[y + 2] - 1

SamsungV0Work(j) ==
  <<ForEach(j.h, LAMBDA y :
      <<Step({}, {}, SamsungV0Input(y, j))>> \o
      ForEach(CeilDiv(j.w, 16), LAMBDA b : SamsungV0Block(y, 16 * b, j)))
    \o [i \in 1 .. j.h \div 2 |->
          Read({<<2 * (i - 1), 2 * k + 1>> : k \in 0 .. j.w \div 2 - 1} \cup
               {<<2 * (i - 1) + 1, 2 * k>> : k \in 0 .. j.w \div 2 - 1})]>>

(* Samsung V2: 16 samples predict from those a motion vector away, or, motion 7, from the
   two on their left.  `motion` is what the encoder chooses wherever the decoder does
   not take it for corrupt.                                                       *)
MotionOffset == <<-4, -2, -2, 0, 0, 2, 4>>
Averages(motion) == motion \in {2, 4}

MotionReference(y, x, i, motion) ==
  LET col == x + i + MotionOffset[motion + 1]
  IN  IF (y + i) % 2 = 1 THEN <<y - 2, col>>
      ELSE <<y - 1, IF i % 2 = 1 THEN col - 1 ELSE col + 1>>

MotionReads(y, x, motion) ==
  UNION {LET r == MotionReference(y, x, i, motion)
         IN  IF Averages(motion) THEN {r, <<r[1], r[2] + 2>>} ELSE {r} : i \in 0 .. 15}

MotionAllowed(y, x, motion, j) ==
  /\ y >= 2
  /\ \A i \in 0 .. 15 :
       LET col == MotionReference(y, x, i, motion)[2]
       IN  col >= 0 /\ col < j.w /\ (Averages(motion) => col + 2 < j.w)

SamsungV2Reads(y, x, j) ==
  IF j.motion # 7 /\ MotionAllowed(y, x, j.motion, j) THEN MotionReads(y, x, j.motion)
  ELSE IF x = 0 THEN {} ELSE {<<y, x - 2>>, <<y, x - 1>>}

SamsungV2Accepts(j) == NotEmpty(j) /\ j.w % 16 = 0 /\ j.bps \in {12, 14}

SamsungV2Work(j) ==
  <<ForEach(j.h, LAMBDA y :
      [b \in 1 .. j.w \div 16 |->
         Step(Row(y, 16 * (b - 1), 16), SamsungV2Reads(y, 16 * (b - 1), j), {})])>>
=============================================================================
