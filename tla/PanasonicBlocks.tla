--------------------------- MODULE PanasonicBlocks ---------------------------
(* The Panasonic decompressors V4 to V7, whose input is a sequence of blocks of packets
   of pixels, and V8, which has strips for rectangles of the image.

   Input is counted in units of 8 bytes, so that a packet of 16 bytes is two units.  *)
EXTENDS RasterSteps

CONSTANT PacketsPerBlock     \* 1024 in V4 and V5

ASSUME PanasonicAssumption == PacketsPerBlock \in Nat \ {0}

UnitsPerPacket == 2
UnitsPerBlock == UnitsPerPacket * PacketsPerBlock

RowMajor(pixel, width) == [x |-> pixel % width, y |-> pixel \div width]

(* processBlock(): the packets from one coordinate to another, row by row; the first
   and the last row may be cut.                                                   *)
PacketsFromTo(begin, end, width, ppp) ==
  LET Packets(row) ==
        LET col == IF row = begin.y THEN begin.x ELSE 0
            endCol == IF row = end.y THEN end.x ELSE width
        IN  [k \in 1 .. CeilDiv(endCol - col, ppp) |-> <<row, col + (k - 1) * ppp>>]
  IN  FlattenSeq([i \in 1 .. end.y - begin.y + 1 |-> Packets(begin.y + i - 1)])

PacketPixels(packet, ppp) == {<<packet[1], packet[2] + i>> : i \in 0 .. ppp - 1}

(* chopInputIntoBlocks(): where a block begins and ends; the end of the last one is
   that of the image.                                                             *)
BlockBegin(b, j, ppp) == RowMajor(b * PacketsPerBlock * ppp, j.w)

BlockEnd(b, blocks, j, ppp) ==
  IF b = blocks - 1 THEN [x |-> j.w, y |-> j.h - 1]
                    ELSE RowMajor((b + 1) * PacketsPerBlock * ppp, j.w)

(* ProxyStream: the two sections of a block are swapped at `split`; unit i of what is
   read is unit Unrotated of the block.                                           *)
NotRotatedBack(i, split, length) ==  \* (mutant) the second section is not found behind the first
  IF i < length - split THEN i + split ELSE i

Unrotated(i, split, length) == IF i < length - split THEN i + split ELSE i - (length - split)

(* The work on the blocks of V4 and V5: their packets, in order.                  *)
BlockWork(b, blocks, j, ppp, split, supply) ==
  LET first == b * UnitsPerBlock
      length == IF supply - first < UnitsPerBlock THEN supply - first ELSE UnitsPerBlock
      packets == PacketsFromTo(BlockBegin(b, j, ppp), BlockEnd(b, blocks, j, ppp), j.w, ppp)
  IN  [k \in 1 .. Len(packets) |->
         Step(PacketPixels(packets[k], ppp), {},
              {first + Unrotated(UnitsPerPacket * (k - 1) + i, split, length) : i \in 0 .. 1})]
-----------------------------------------------------------------------------
(* V4.  With a split the input is rounded up to whole blocks.                     *)
V4PixelsPerPacket == 14

V4Supply(j) ==
  LET units == UnitsPerPacket * ((j.w * j.h) \div V4PixelsPerPacket)
  IN  IF j.split = 0 THEN units ELSE CeilDiv(units, UnitsPerBlock) * UnitsPerBlock

V4Accepts(j) == /\ j.w > 0 /\ j.h > 0 /\ j.w % V4PixelsPerPacket = 0
                /\ j.split <= UnitsPerBlock
                /\ V4Supply(j) <= j.size

V4Work(j) ==
  LET blocks == CeilDiv(V4Supply(j), UnitsPerBlock)
  IN  [b \in 1 .. blocks |->
         BlockWork(b - 1, blocks, j, V4PixelsPerPacket, j.split, V4Supply(j))]

(* V5.  Blocks are whole; the sections are split 8 bytes before the middle.       *)
V5PixelsPerPacket(bps) == 128 \div bps

V5Blocks(j) == CeilDiv((j.w * j.h) \div V5PixelsPerPacket(j.bps), PacketsPerBlock)

V5Accepts(j) == /\ j.bps \in {12, 14}
                /\ j.w > 0 /\ j.h > 0 /\ j.w % V5PixelsPerPacket(j.bps) = 0
                /\ V5Blocks(j) <= j.size \div UnitsPerBlock

V5Work(j) ==
  [b \in 1 .. V5Blocks(j) |->
     BlockWork(b - 1, V5Blocks(j), j, V5PixelsPerPacket(j.bps),
               UnitsPerBlock \div 2 - 1, V5Blocks(j) * UnitsPerBlock)]

(* V6 and V7: blocks of 16 bytes, and the rows are shared.                        *)
PixelsPerBlock(j) == CASE j.codec = "panasonic6" -> IF j.bps = 14 THEN 11 ELSE 14
                       [] j.codec = "panasonic7" -> 9

V6Accepts(j) == /\ j.codec = "panasonic6" => j.bps \in {12, 14}
                /\ j.w > 0 /\ j.h > 0 /\ j.w % PixelsPerBlock(j) = 0
                /\ (j.w * j.h) \div PixelsPerBlock(j) <= j.size \div UnitsPerPacket

V6Work(j) ==
  LET perRow == j.w \div PixelsPerBlock(j)
  IN  [row \in 1 .. j.h |->
         [k \in 1 .. perRow |->
            Step(PacketPixels(<<row - 1, (k - 1) * PixelsPerBlock(j)>>, PixelsPerBlock(j)), {},
              {UnitsPerPacket * (perRow * (row - 1) + k - 1) + i : i \in 0 .. 1})]]
-----------------------------------------------------------------------------
(* V8.  A job's `rects` are the rectangles of its strips: pos, dim.               *)
Right(r) == r.x + r.w
Bottom(r) == r.y + r.h

(* getOutRects(): each of them by itself.                                         *)
IsTile(r, j) == /\ r.w > 0 /\ r.h > 0
                /\ Right(r) <= j.w /\ Bottom(r) <= j.h
                /\ \A n \in {r.x, r.y, r.w, r.h} : n % 2 = 0

(* evaluateConsecutiveTiles()                                                     *)
ContinuesAtAnyHeight(r, next) ==  \* (mutant) only the upper corners are compared
  next.x = Right(r) /\ next.y = r.y

ContinuesRow(r, next) ==
  next.x = Right(r) /\ next.y = r.y /\ Bottom(next) = Bottom(r)

BeginsNewRow(r, next) == ~ContinuesRow(r, next) /\ next.x = 0 /\ next.y = Bottom(r)

EndsAtRight(r, j) == Right(r) = j.w   \* (mutant) rows may be missing at the bottom
EndsImageGrid(r, j) == Right(r) = j.w /\ Bottom(r) = j.h

(* isValidImageGrid(): a new row begins only when the last one is full, which is when
   its last tile ends where the image does; outPos.x is the sum of the widths since. *)
IsValidImageGrid(j) ==
  LET n == Len(j.rects)
  IN  /\ j.rects[1].x = 0 /\ j.rects[1].y = 0
      /\ \A i \in 1 .. n - 1 :
           \/ ContinuesRow(j.rects[i], j.rects[i + 1])
           \/ BeginsNewRow(j.rects[i], j.rects[i + 1]) /\ Right(j.rects[i]) = j.w
      /\ EndsImageGrid(j.rects[n], j)

V8Accepts(j) == /\ j.w > 0 /\ j.h > 0 /\ j.w % 2 = 0 /\ j.h % 2 = 0
                /\ j.rects # << >>
                /\ \A i \in DOMAIN j.rects : IsTile(j.rects[i], j)
                /\ IsValidImageGrid(j)

(* decompressStrip(): 2x2 blocks from left to right; the prediction is the last block,
   and at the end of a line of blocks its first.                                  *)
V8Work(j) ==
  [s \in DOMAIN j.rects |->
     LET r == j.rects[s]
         perLine == r.w \div 2
         Block(n) == {r.y + 2 * (n \div perLine), r.y + 2 * (n \div perLine) + 1}
                       \X {r.x + 2 * (n % perLine), r.x + 2 * (n % perLine) + 1}
     IN  [k \in 1 .. perLine * (r.h \div 2) |->
            Step(Block(k - 1), IF k > 1 /\ (k - 1) % perLine = 0 THEN Block(k - 1 - perLine) ELSE {},
              {})]]
=============================================================================
