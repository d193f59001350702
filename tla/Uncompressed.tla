----------------------------- MODULE Uncompressed -----------------------------
(* UncompressedDecompressor.  Its input is inputPitchBytes for each row of the tile it
   is asked for: `rect` (in pixels), of a job's image of j.cpp samples per pixel.

   A job:  w, h (w in samples)  cpp  bps  float  order ("MSB" or "LSB")               *)
EXTENDS RasterSteps

PixelsPerRow(j) == j.w \div j.cpp
WholeImage(j) == [x |-> 0, y |-> 0, w |-> PixelsPerRow(j), h |-> j.h]

OutPixelBits(rect, j) == rect.w * j.cpp * j.bps

(* The constructor, but for the sizes of ints; getStream() throws when the input is short. *)
UncompressedAccepts(rect, pitch, bytes, j) ==
  /\ rect.h * pitch <= bytes
  /\ rect.w > 0 /\ rect.h > 0 /\ pitch > 0
  /\ j.cpp \in 1 .. 3
  /\ j.bps \in 1 .. (IF j.float THEN 32 ELSE 16)
  /\ OutPixelBits(rect, j) % 8 = 0
  /\ OutPixelBits(rect, j) \div 8 <= pitch
  /\ rect.y <= j.h
  /\ rect.x + rect.w <= PixelsPerRow(j)

(* readUncompressedRaw(): which of its loops reads the rows.                      *)
CopiesPixels(j) == IF j.float THEN j.bps = 32 ELSE j.order = "LSB" /\ j.bps = 16
HasLoop(j) == j.float => j.bps = 32 \/ j.bps \in {16, 24}

(* The first sample that is written in a row: copyPixels() starts at the tile's, the
   loop for packed integers at the image's, and that for packed floats at the tile's
   first pixel as if a pixel had one sample.                                     *)
FirstSample(rect, j) ==
  CASE CopiesPixels(j) -> rect.x * j.cpp
    [] ~CopiesPixels(j) /\ j.float -> rect.x
    [] OTHER -> 0

(* Rows from the first one of the tile to the last one inside the image; skipBytes after
   each takes the pump to the next row's input.  `from` is where the input begins.  *)
UncompressedRows(rect, pitch, from, j) ==
  [i \in 1 .. Least(rect.h, j.h - rect.y) |->
     Step(Row(rect.y + i - 1, FirstSample(rect, j), rect.w * j.cpp), {},
          from + (i - 1) * pitch .. from + (i - 1) * pitch + OutPixelBits(rect, j) \div 8 - 1)]

UncompressedWork(j) == <<UncompressedRows(WholeImage(j), j.pitch, 0, j)>>
-----------------------------------------------------------------------------
(* The other loops; their callers pass the whole image of one sample per pixel.     *)

(* bytesPerLine() with skips: a control byte follows every ten pixels.            *)
BytesPerLine(w) == (12 * w) \div 8 + (w + 2) \div 10

(* sanityCheck(): what is left of the input has as many whole lines as the image.    *)
EnoughLines(bytesPerLine, j) == (j.h * j.pitch) \div bytesPerLine >= j.h

LoopAccepts(j) ==
  /\ UncompressedAccepts(WholeImage(j), j.pitch, j.size, j)
  /\ CASE j.codec = "8bit" -> EnoughLines(j.w, j)
       [] j.codec = "12bitControl" -> (12 * j.w) % 8 = 0 /\ EnoughLines(BytesPerLine(j.w), j)
       [] j.codec = "12bitUnpacked" -> EnoughLines(2 * j.w, j)
       [] OTHER -> HasLoop(j)

(* decode8BitRaw() and decode12BitRawUnpackedLeftAligned(): one or two bytes for each
   pixel.                                                                        *)
BytesWork(bytes, j) ==
  <<[i \in 1 .. j.w * j.h |->
       Step({<<(i - 1) \div j.w, (i - 1) % j.w>>}, {}, bytes * (i - 1) .. bytes * i - 1)]>>

(* decode12BitRawWithControl(): two pixels of three bytes, and a byte is skipped behind
   the fifth pair.                                                               *)
PairAt(x) == 3 * (x \div 2) + x \div 10

ControlWork(j) ==
  <<ForEach(j.h, LAMBDA y :
      [k \in 1 .. j.w \div 2 |->
         LET x == 2 * (k - 1)
             start == y * BytesPerLine(j.w) + PairAt(x)
         IN  Step({<<y, x>>, <<y, x + 1>>}, {}, start .. start + 2)])>>
=============================================================================
